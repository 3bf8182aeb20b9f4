\* Up to four versions and the truncations before them; the third leaves a file that cannot be read.
SPECIFICATION FairFilterSpec
CONSTANTS
  MaxVersion = 4
  SizeOf <- MCSizeOf
  Unreadable = {3}
INVARIANTS
  FilterTypeOK
  UnchangedIsLoaded
PROPERTIES
  Converges
