----------------------------- MODULE TextFilter -----------------------------
(***************************************************************************)
(* The word list of the text filter and its reload                         *)
(* (internal/filter/reloadable_filter.go, word_loader.go): an editor       *)
(* rewrites the file while the reloading goroutine polls it.  Stat, open   *)
(* and read are calls of their own, and the file may change between them   *)
(* and while it is read.  An editor may truncate the file before it writes *)
(* it, and an empty file is a valid list of no words.                      *)
(*                                                                         *)
(* A version of the file stands for its words; the file system gives it    *)
(* the time of its last change, in the granularity of its clock, so that   *)
(* two changes may get one stamp.  The names are the filter's own, so that *)
(* a module may extend this one and RateLimiter, a chat's other check.    *)
(***************************************************************************)
EXTENDS Naturals

CONSTANTS
  MaxVersion,   \* bound: versions of the file
  SizeOf,       \* the size of each version
  Unreadable    \* the versions LoadWordsFromFile fails on

Versions == 0..MaxVersion

ASSUME FilterAssumption ==
  /\ MaxVersion \in Nat /\ SizeOf \in [Versions -> Nat \ {0}]
  /\ Unreadable \subseteq Versions

\* The words of New's fallback list, a file that is not there, one that is
\* empty, and the words of a file that changed while it was read.
Fallback == MaxVersion + 1
Missing == MaxVersion + 2
Empty == MaxVersion + 3
Torn == MaxVersion + 4
NoStamp == <<0, 0>>

VARIABLES
  file,      \* the version in the file, Empty or Missing
  version,   \* the last version written
  mtime,     \* when the file was changed
  given,     \* observer: the sizes the file had at mtime
  doubled,   \* observer: two of its states had one stamp
  touched,   \* the file changed since the loader opened it
  current,   \* ReloadableFilter.current
  stamp,     \* lastModTime, lastFileSize
  pc,        \* where the loader is
  force,     \* LoadNow, which does not compare
  stat,      \* the stamp loadLocked's Stat returned
  read       \* the version LoadWordsFromFile has open or has read

loader == <<current, stamp, pc, force, stat, read>>
editor == <<file, version, mtime, given, doubled>>
filterVars == <<editor, touched, loader>>

Present == file # Missing
Size(f) == IF f = Empty THEN 0 ELSE SizeOf[f]

\* Variant: only the time is compared.
FileStampTimeOnly == <<mtime, 0>>

FileStamp == <<mtime, Size(file)>>

FilterInit ==
  /\ file \in {0, Missing} /\ version = 0 /\ mtime = 1
  /\ given = {SizeOf[0]} /\ doubled = FALSE /\ touched = FALSE
  /\ current = Fallback /\ stamp = NoStamp
  /\ pc = "load" /\ force = TRUE /\ stat = NoStamp /\ read = Fallback

-----------------------------------------------------------------------------
(* The editor. *)

Changes(f) ==
  /\ file' = f /\ mtime' \in {mtime, mtime + 1} /\ touched' = (pc = "read")
  /\ LET before == IF mtime' = mtime THEN given ELSE {} IN
       given' = before \cup {Size(f)} /\ doubled' = (doubled \/ Size(f) \in before)
  /\ UNCHANGED loader

\* The next version, over the old one or into the truncated file.
Writes ==
  /\ version < MaxVersion
  /\ version' = version + 1 /\ Changes(version + 1)

Truncates ==
  /\ version < MaxVersion /\ Present /\ file # Empty
  /\ Changes(Empty) /\ UNCHANGED version

Deletes ==
  /\ Present /\ file' = Missing /\ touched' = (pc = "read")
  /\ UNCHANGED <<version, mtime, given, doubled, loader>>

-----------------------------------------------------------------------------
(* The loader: LoadNow once, then reloadIfChanged at every tick. *)

\* reloadIfChanged: the first Stat.
Poll ==
  /\ pc = "idle"
  /\ pc' = IF Present /\ FileStamp # stamp THEN "load" ELSE "idle"
  /\ force' = FALSE
  /\ UNCHANGED <<editor, touched, current, stamp, stat, read>>

\* loadLocked: the second Stat.
LoadStat ==
  /\ pc = "load"
  /\ IF Present /\ (force \/ FileStamp # stamp)
     THEN stat' = FileStamp /\ pc' = "open"
     ELSE pc' = "idle" /\ UNCHANGED stat
  /\ UNCHANGED <<editor, touched, current, stamp, force, read>>

\* LoadWordsFromFile opens the file.
LoadOpen ==
  /\ pc = "open"
  /\ IF Present THEN read' = file /\ pc' = "read"
     ELSE pc' = "idle" /\ UNCHANGED read
  /\ UNCHANGED <<editor, touched, current, stamp, force, stat>>

\* What the scanner may find in a file that changed under it.
Scanned == IF touched THEN {read, file, Torn} \ {Missing} ELSE {read}

\* Variant: the error of the scanner is not looked at.
LoadReadUnchecked ==
  /\ pc = "read"
  /\ read' \in Scanned /\ pc' = "store"
  /\ touched' = FALSE
  /\ UNCHANGED <<editor, current, stamp, force, stat>>

LoadRead ==
  /\ pc = "read"
  /\ \/ read' \in Scanned \ Unreadable /\ pc' = "store"
     \/ Scanned \cap Unreadable # {} /\ pc' = "idle" /\ UNCHANGED read
  /\ touched' = FALSE
  /\ UNCHANGED <<editor, current, stamp, force, stat>>

\* Variant: the file is asked for its stamp after it was read.
LoadStoreStatLate ==
  /\ pc = "store"
  /\ current' = read /\ pc' = "idle"
  /\ stamp' = IF Present THEN FileStamp ELSE stat
  /\ UNCHANGED <<editor, touched, force, stat, read>>

LoadStore ==
  /\ pc = "store"
  /\ current' = read /\ stamp' = stat /\ pc' = "idle"
  /\ UNCHANGED <<editor, touched, force, stat, read>>

Load == Poll \/ LoadStat \/ LoadOpen \/ LoadRead \/ LoadStore

FilterNext == Writes \/ Truncates \/ Deletes \/ Load

FilterSpec == FilterInit /\ [][FilterNext]_filterVars

\* The ticker fires and the calls return; nothing makes the editor write.
FairFilterSpec == FilterSpec /\ WF_filterVars(Load)

-----------------------------------------------------------------------------
(* Properties. *)

Sizes == {Size(f) : f \in Versions \cup {Empty}}
Stamps == {NoStamp} \cup (1..(2 * MaxVersion + 1)) \X Sizes

\* The state is well typed; the words in use are the fallback or those of a
\* version that could be read, also when the file is deleted or damaged while
\* it is loaded (reloadable_filter.go:100-121, word_loader.go:28-30).
FilterTypeOK ==
  /\ file \in Versions \cup {Empty, Missing} /\ version \in Versions
  /\ mtime \in 1..(2 * MaxVersion + 1)
  /\ given \subseteq Sizes /\ doubled \in BOOLEAN /\ touched \in BOOLEAN
  /\ current \in (Versions \ Unreadable) \cup {Fallback, Empty, Torn}
  /\ stamp \in Stamps /\ stat \in Stamps
  /\ pc \in {"idle", "load", "open", "read", "store"} /\ force \in BOOLEAN
  /\ read \in Versions \cup {Fallback, Empty, Torn}

Loadable == Present /\ file \notin Unreadable

\* Unless two changes in one tick of the clock kept the size, a stamp that says
\* the file has not changed is the stamp of the words in use: no change between
\* Stat and read, and no list read from a file that was being written, is taken
\* for loaded (reloadable_filter.go:81-121).
UnchangedIsLoaded ==
  ~doubled /\ pc = "idle" /\ Loadable /\ stamp = FileStamp => current = file

\* Once the editor rests, the words of the file are the ones in use, whatever
\* it wrote while the loader was reading, and an empty list read between a
\* truncation and its write does not stay (reloadable_filter.go:58-98).
Converges == <>[](Loadable /\ ~doubled => current = file)
=============================================================================
