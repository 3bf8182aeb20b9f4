------------------------- MODULE RoomManagerProofs -------------------------
(***************************************************************************)
(* Proofs about RoomManager, for any loops, connections, rooms and joins,  *)
(* the cleaner running.  TypeCorrect and CountersSafe say something of the *)
(* callers there are, the other properties only of those that touch a      *)
(* shard on its own loop (addOnLoop).                                      *)
(*                                                                         *)
(* The contract makes a shard the business of one thread (OnLoop), but the *)
(* counters and bits of a room are updated in several steps, by several    *)
(* loops.  Present, CountExact and BitExact say how far the map, the       *)
(* counter and the bit of a shard may differ by where its loop is in a     *)
(* call; RoomCounted sums that over the loops.  Placing says which object  *)
(* a connection is in, of what the bucket, the calls and the cleaner hold: *)
(* it is what the refinement of RoomIndex takes, where a call that has put *)
(* its connection into an object may still find it collected.              *)
(***************************************************************************)
EXTENDS RoomManager, TLAPS, FiniteSetTheorems, WellFoundedInduction

AddSteps == {"get", "exists", "replace", "put", "local", "shard", "or", "clear"}
RemoveSteps == {"find", "has", "delete", "unlocal", "unshard", "and", "test", "mark"}
RangeSteps == {"lookup", "range"}

\* What a call is about, by where it is.
CallSound(k) ==
  /\ k.pc \in AddSteps \cup RemoveSteps =>
       k.conn \in Conns /\ k.room \in Rooms /\ k.loop = LoopOf[k.conn]
  /\ k.pc \in RangeSteps => k.conn = NULL /\ k.room \in Rooms /\ k.loop \in Loops
  /\ k.pc = "idle" => k = Idle
  /\ k.pc \in NoObjSteps => k.obj = NULL

CallsSound == \A t \in Threads : CallSound(th[t])

Typed == TypeOK /\ CallsSound

-----------------------------------------------------------------------------
LEMMA CallTyped ==
  ASSUME Typed, NEW t \in Threads
  PROVE  /\ th[t] \in Call
         /\ th[t].pc \notin NoObjSteps => th[t].obj \in Objs
         /\ th[t].pc \notin NoObjSteps \cup RangeSteps =>
              th[t].conn \in Conns /\ th[t].loop \in Loops /\ th[t].room \in Rooms
<1>1. th[t] \in Call /\ CallSound(th[t])
  BY DEF Typed, TypeOK, CallsSound
<1>2. th[t].pc \notin NoObjSteps => th[t].obj \in Objs
  BY <1>1 DEF Typed, TypeOK, Call
<1>3. th[t].pc \notin NoObjSteps \cup RangeSteps => th[t].pc \in AddSteps \cup RemoveSteps
  BY <1>1 DEF Call, Steps, AddSteps, RemoveSteps, NoObjSteps, RangeSteps
<1> QED
  BY <1>1, <1>2, <1>3, LoopOfAssumption DEF CallSound

LEMMA IdleTyped == Idle \in Call /\ CallSound(Idle)
BY NullAssumption DEF Idle, Call, Steps, CallSound, AddSteps, RemoveSteps, RangeSteps, NoObjSteps

LEMMA InitTyped == Init => Typed
<1> SUFFICES ASSUME Init PROVE Typed
  OBVIOUS
<1>1. th \in [Threads -> Call] /\ \A t \in Threads : th[t].pc \in NoObjSteps
  BY IdleTyped DEF Init, Idle, NoObjSteps
<1>2. /\ rooms \in [Rooms -> Objs \cup {NULL}]
      /\ Shards \in [Objs -> [Loops -> SUBSET Conns]]
      /\ ShardConnCount \in [Objs -> [Loops -> Int]]
      /\ LocalConnCount \in [Objs -> Int]
      /\ ActiveLoops \in [Objs -> SUBSET Loops]
      /\ LastEmptyTime \in [Objs -> Times]
  BY DEF Init, Times
<1>3. /\ sweep \in [pc : {"idle", "count", "time"}, room : Rooms \cup {NULL}]
      /\ seat \in [Conns -> Rooms \cup {NULL, GONE}]
      /\ joins \in [Rooms -> Nat]
      /\ orphaned \subseteq Conns
  BY DEF Init, NoSweep
<1>4. crashed \in BOOLEAN /\ addOnLoop \in BOOLEAN
  BY DEF Init
<1>5. TypeOK
  BY <1>1, <1>2, <1>3, <1>4 DEF TypeOK
<1>6. CallsSound
  BY IdleTyped DEF Init, CallsSound
<1> QED
  BY <1>5, <1>6 DEF Typed

\* What a step of a call does to the calls: this one goes on, or it ends.
Onward(t) ==
  /\ th' \in [Threads -> Call]
  /\ \A s \in Threads \ {t} : th'[s] = th[s]
  /\ CallSound(th'[t])
  /\ th'[t].pc \notin NoObjSteps => th'[t].obj # NULL
  /\ \/ th'[t] = Idle
     \/ /\ th'[t].conn = th[t].conn /\ th'[t].room = th[t].room
        /\ th'[t].loop = th[t].loop
        /\ th[t].pc \notin NoObjSteps => th'[t].obj = th[t].obj

LEMMA ReturnOnward ==
  ASSUME Typed, NEW t \in Threads, Return(t)
  PROVE  Onward(t) /\ th'[t] = Idle
<1>1. th \in [Threads -> Call]
  BY DEF Typed, TypeOK
<1>2. th' = [th EXCEPT ![t] = Idle]
  BY DEF Return
<1>3. th'[t] = Idle /\ th' \in [Threads -> Call] /\ \A s \in Threads \ {t} : th'[s] = th[s]
  BY <1>1, <1>2, IdleTyped
<1>4. Idle.pc \in NoObjSteps
  BY DEF Idle, NoObjSteps
<1> QED
  BY <1>3, <1>4, IdleTyped DEF Onward

LEMMA GoToOnward ==
  ASSUME Typed, NEW t \in Threads, NEW pc \in Steps, GoTo(t, pc),
         pc \notin NoObjSteps \cup RangeSteps, th[t].pc \notin NoObjSteps \cup RangeSteps
  PROVE  /\ Onward(t) /\ th'[t].pc = pc /\ th'[t].obj = th[t].obj /\ th'[t].conn = th[t].conn
         /\ th'[t].room = th[t].room /\ th'[t].loop = th[t].loop
<1>1. th \in [Threads -> Call] /\ th[t] \in Call /\ CallSound(th[t]) /\ th[t].obj \in Objs
  BY CallTyped DEF Typed, TypeOK, CallsSound
<1>2. th' = [th EXCEPT ![t].pc = pc]
  BY DEF GoTo
<1>3. /\ th'[t] \in Call /\ th'[t].pc = pc /\ th'[t].obj = th[t].obj
      /\ th'[t].conn = th[t].conn /\ th'[t].room = th[t].room /\ th'[t].loop = th[t].loop
      /\ th' \in [Threads -> Call] /\ \A s \in Threads \ {t} : th'[s] = th[s]
  BY <1>1, <1>2 DEF Call
<1>4. /\ th[t].pc \in AddSteps \cup RemoveSteps
      /\ pc # "idle"
  BY <1>1 DEF Call, Steps, AddSteps, RemoveSteps, RangeSteps, NoObjSteps
<1>5. CallSound(th'[t])
  BY <1>1, <1>3, <1>4 DEF CallSound
<1>6. th'[t].obj # NULL
  BY <1>1, <1>3, NullAssumption
<1> QED
  BY <1>1, <1>3, <1>5, <1>6 DEF Onward

LEMMA FetchOnward ==
  ASSUME Typed, NEW t \in Threads, NEW o \in Objs, NEW pc \in {"exists", "has", "range"},
         th[t].pc \in {"get", "find", "lookup"}, pc \in RangeSteps <=> th[t].pc \in RangeSteps,
         th' = [th EXCEPT ![t].obj = o, ![t].pc = pc]
  PROVE  /\ Onward(t) /\ th'[t].pc = pc /\ th'[t].obj = o /\ th'[t].conn = th[t].conn
         /\ th'[t].room = th[t].room /\ th'[t].loop = th[t].loop
<1>1. th \in [Threads -> Call] /\ th[t] \in Call /\ CallSound(th[t])
  BY CallTyped DEF Typed, TypeOK, CallsSound
<1>2. /\ th'[t] \in Call /\ th'[t].pc = pc /\ th'[t].obj = o
      /\ th'[t].conn = th[t].conn /\ th'[t].room = th[t].room /\ th'[t].loop = th[t].loop
      /\ th' \in [Threads -> Call] /\ \A s \in Threads \ {t} : th'[s] = th[s]
  BY <1>1 DEF Call, Steps
<1>3. CallSound(th'[t])
  BY <1>1, <1>2 DEF CallSound, AddSteps, RemoveSteps, RangeSteps, NoObjSteps
<1>4. th'[t].obj # NULL /\ th[t].pc \in NoObjSteps
  BY <1>2, NullAssumption DEF NoObjSteps
<1> QED
  BY <1>2, <1>3, <1>4 DEF Onward

\* One entry of a table of tables.
LEMMA EntrySet ==
  ASSUME NEW A, NEW B, NEW V, NEW f \in [A -> [B -> V]], NEW a \in A, NEW b \in B, NEW v \in V
  PROVE  LET g == [f EXCEPT ![a][b] = v] IN
         /\ g \in [A -> [B -> V]]
         /\ g[a][b] = v
         /\ \A x \in A, y \in B : x # a \/ y # b => g[x][y] = f[x][y]
OBVIOUS

\* GetOrCreate gives the room's object, or a fresh one, which is empty.
Fetches(t, o) ==
  /\ rooms[th[t].room] = o
  /\ UNCHANGED <<rooms, Shards, counters>>

Creates(t, o) ==
  /\ rooms[th[t].room] = NULL /\ Free(o)
  /\ rooms' = [rooms EXCEPT ![th[t].room] = o]
  /\ Shards' = [Shards EXCEPT ![o] = [l \in Loops |-> {}]]
  /\ ShardConnCount' = [ShardConnCount EXCEPT ![o] = [l \in Loops |-> 0]]
  /\ LocalConnCount' = [LocalConnCount EXCEPT ![o] = 0]
  /\ ActiveLoops' = [ActiveLoops EXCEPT ![o] = {}]
  /\ LastEmptyTime' = [LastEmptyTime EXCEPT ![o] = "none"]

LEMMA GetOrCreateGives ==
  ASSUME Typed, NEW t \in Threads, AddGetOrCreate(t)
  PROVE  \E o \in Objs :
           /\ Fetches(t, o) \/ Creates(t, o)
           /\ Onward(t) /\ th'[t].pc = "exists" /\ th'[t].obj = o /\ th'[t].conn = th[t].conn
           /\ th'[t].room = th[t].room /\ th'[t].loop = th[t].loop
<1>1. th[t].pc = "get" /\ ~("exists" \in RangeSteps) /\ th[t].pc \notin RangeSteps
  BY DEF AddGetOrCreate, At, RangeSteps
<1>2. th[t].room \in Rooms
  BY <1>1 DEF Typed, CallsSound, CallSound, AddSteps
<1>3. CASE rooms[th[t].room] # NULL /\ th' = [th EXCEPT ![t].obj = rooms[th[t].room], ![t].pc = "exists"]
             /\ UNCHANGED <<rooms, Shards, counters>>
  <2>1. rooms[th[t].room] \in Objs
    BY <1>2, <1>3 DEF Typed, TypeOK
  <2> QED
    BY <1>1, <1>3, <2>1, FetchOnward DEF Fetches
<1>4. CASE ~(rooms[th[t].room] # NULL /\ th' = [th EXCEPT ![t].obj = rooms[th[t].room], ![t].pc = "exists"]
             /\ UNCHANGED <<rooms, Shards, counters>>)
  <2> DEFINE o == CHOOSE x \in Objs : Free(x)
  <2>1. o \in Objs /\ Free(o)
    BY <1>4 DEF AddGetOrCreate
  <2>2. Creates(t, o) /\ th' = [th EXCEPT ![t].obj = o, ![t].pc = "exists"]
    BY <1>4, <2>1 DEF AddGetOrCreate, Creates
  <2> QED
    BY <1>1, <2>1, <2>2, FetchOnward
<1> QED
  BY <1>3, <1>4

LEMMA GoToTable ==
  ASSUME Typed, NEW t \in Threads, NEW pc \in Steps, ~crashed, GoTo(t, pc),
         \/ th[t].pc = "exists" /\ pc \in {"replace", "put"}
         \/ th[t].pc = "put" /\ pc = "local"
         \/ th[t].pc = "local" /\ pc = "shard"
         \/ th[t].pc = "shard" /\ pc \in {"or", "clear"}
         \/ th[t].pc = "or" /\ pc = "clear"
         \/ th[t].pc = "has" /\ pc = "delete"
         \/ th[t].pc = "delete" /\ pc = "unlocal"
         \/ th[t].pc = "unlocal" /\ pc = "unshard"
         \/ th[t].pc = "unshard" /\ pc \in {"and", "test"}
         \/ th[t].pc = "and" /\ pc = "test"
         \/ th[t].pc = "test" /\ pc = "mark"
  PROVE  /\ Onward(t) /\ th'[t].pc = pc /\ th'[t].obj = th[t].obj /\ th'[t].conn = th[t].conn
         /\ th'[t].room = th[t].room /\ th'[t].loop = th[t].loop
<1>1. pc \notin NoObjSteps \cup RangeSteps /\ th[t].pc \notin NoObjSteps \cup RangeSteps
  BY DEF NoObjSteps, RangeSteps
<1> QED
  BY <1>1, GoToOnward

LEMMA StepOnward ==
  ASSUME Typed, NEW t \in Threads, ThreadStep(t)
  PROVE  Onward(t)
<1>1. CASE AddGetOrCreate(t)
  BY <1>1, GetOrCreateGives
<1>2. CASE AddReplace(t) \/ AddClear(t) \/ RemoveMark(t) \/ RangeDone(t)
  BY <1>2, ReturnOnward DEF AddReplace, AddClear, RemoveMark, RangeDone
<1>3. CASE AddExists(t) \/ AddPut(t) \/ AddLocal(t) \/ AddShard(t) \/ AddOr(t)
  BY <1>3, GoToTable DEF AddExists, AddPut, AddLocal, AddShard, AddOr, At, Steps
<1>4. CASE RemoveDelete(t) \/ RemoveLocal(t) \/ RemoveShard(t) \/ RemoveAnd(t)
  BY <1>4, GoToTable DEF RemoveDelete, RemoveLocal, RemoveShard, RemoveAnd, At, Steps
<1>5. CASE RemoveHas(t) \/ RemoveTest(t)
  BY <1>5, GoToTable, ReturnOnward DEF RemoveHas, RemoveTest, At, Steps
<1>6. CASE RemoveFind(t) \/ RangeLookup(t)
  <2>1. th[t].room \in Rooms
    BY <1>6 DEF Typed, CallsSound, CallSound, RemoveFind, RangeLookup, At, RemoveSteps, RangeSteps
  <2>2. CASE rooms[th[t].room] = NULL
    BY <1>6, <2>2, ReturnOnward DEF RemoveFind, RangeLookup
  <2>3. CASE rooms[th[t].room] # NULL
    <3>1. rooms[th[t].room] \in Objs
      BY <2>1, <2>3 DEF Typed, TypeOK
    <3> QED
      BY <1>6, <2>3, <3>1, FetchOnward DEF RemoveFind, RangeLookup, At, RangeSteps
  <2> QED
    BY <2>2, <2>3
<1> QED
  BY <1>1, <1>2, <1>3, <1>4, <1>5, <1>6 DEF ThreadStep

LEMMA OnwardTyped ==
  ASSUME Typed, NEW t \in Threads, Onward(t)
  PROVE  /\ th' \in [Threads -> Call]
         /\ \A s \in Threads : th'[s].pc \notin NoObjSteps => th'[s].obj # NULL
         /\ CallsSound'
<1>1. \A s \in Threads : /\ th'[s].pc \notin NoObjSteps => th'[s].obj # NULL
                         /\ CallSound(th'[s])
  BY DEF Typed, TypeOK, CallsSound, Onward
<1>2. CallsSound'
  BY <1>1 DEF CallsSound, CallSound
<1> QED
  BY <1>1, <1>2 DEF Onward

LEMMA StepTyped ==
  ASSUME Typed, NEW t \in Threads, ThreadStep(t)
  PROVE  Typed'
<1>1. Onward(t)
  BY StepOnward
<1>2. UNCHANGED <<sweep, seat, joins, orphaned, crashed, addOnLoop>>
  BY DEF ThreadStep, AddGetOrCreate, AddExists, AddReplace, AddPut, AddLocal, AddShard,
     AddOr, AddClear, RemoveFind, RemoveHas, RemoveDelete, RemoveLocal, RemoveShard,
     RemoveAnd, RemoveTest, RemoveMark, RangeLookup, RangeDone
<1>3. /\ rooms' \in [Rooms -> Objs \cup {NULL}]
      /\ Shards' \in [Objs -> [Loops -> SUBSET Conns]]
      /\ ShardConnCount' \in [Objs -> [Loops -> Int]]
      /\ LocalConnCount' \in [Objs -> Int]
      /\ ActiveLoops' \in [Objs -> SUBSET Loops]
      /\ LastEmptyTime' \in [Objs -> Times]
  <2>1. /\ rooms \in [Rooms -> Objs \cup {NULL}]
        /\ Shards \in [Objs -> [Loops -> SUBSET Conns]]
        /\ ShardConnCount \in [Objs -> [Loops -> Int]]
        /\ LocalConnCount \in [Objs -> Int]
        /\ ActiveLoops \in [Objs -> SUBSET Loops]
        /\ LastEmptyTime \in [Objs -> Times]
    BY DEF Typed, TypeOK
  <2>2. CASE AddGetOrCreate(t)
    <3>1. PICK o \in Objs : Fetches(t, o) \/ Creates(t, o)
      BY <2>2, GetOrCreateGives
    <3>2. CASE Fetches(t, o)
      BY <2>1, <3>2 DEF Fetches, counters
    <3>3. CASE Creates(t, o)
      <4>1. rooms' \in [Rooms -> Objs \cup {NULL}]
        BY <2>1, <3>3 DEF Creates
      <4>2. Shards' \in [Objs -> [Loops -> SUBSET Conns]]
        <5>1. [l \in Loops |-> {}] \in [Loops -> SUBSET Conns]
          OBVIOUS
        <5> QED
          BY <2>1, <3>3, <5>1 DEF Creates
      <4>3. ShardConnCount' \in [Objs -> [Loops -> Int]]
        BY <2>1, <3>3 DEF Creates
      <4>4. /\ LocalConnCount' \in [Objs -> Int]
            /\ ActiveLoops' \in [Objs -> SUBSET Loops]
            /\ LastEmptyTime' \in [Objs -> Times]
        BY <2>1, <3>3 DEF Creates, Times
      <4> QED
        BY <4>1, <4>2, <4>3, <4>4
    <3> QED
      BY <3>1, <3>2, <3>3
  <2>3. CASE \/ AddExists(t) \/ RemoveFind(t) \/ RemoveHas(t) \/ RemoveTest(t)
             \/ RangeLookup(t) \/ RangeDone(t)
    BY <2>1, <2>3 DEF AddExists, RemoveFind, RemoveHas, RemoveTest, RangeLookup, RangeDone, counters
  <2>4. CASE AddReplace(t) \/ AddPut(t) \/ RemoveDelete(t)
    <3>1. th[t].obj \in Objs /\ th[t].loop \in Loops /\ th[t].conn \in Conns
      BY <2>4, CallTyped DEF AddReplace, AddPut, RemoveDelete, At, NoObjSteps, RangeSteps
    <3>2. ShardOf(t) \in SUBSET Conns
      BY <2>1, <3>1 DEF ShardOf
    <3>3. PICK S \in SUBSET Conns : MapWrite(t, S)
      BY <2>4, <3>1, <3>2 DEF AddReplace, AddPut, RemoveDelete
    <3>4. Shards' \in [Objs -> [Loops -> SUBSET Conns]]
      <4>1. CASE Shards' = [Shards EXCEPT ![th[t].obj][th[t].loop] = S]
        BY <2>1, <3>1, <4>1, EntrySet
      <4>2. CASE UNCHANGED Shards
        BY <2>1, <4>2
      <4> QED
        BY <3>3, <4>1, <4>2 DEF MapWrite
    <3>5. UNCHANGED <<rooms, counters>>
      BY <2>4 DEF AddReplace, AddPut, RemoveDelete
    <3> QED
      BY <2>1, <3>4, <3>5 DEF counters
  <2>5. CASE AddLocal(t) \/ RemoveLocal(t)
    <3>1. th[t].obj \in Objs
      BY <2>5, CallTyped DEF AddLocal, RemoveLocal, At, NoObjSteps
    <3>2. LocalConnCount[th[t].obj] \in Int
      BY <2>1, <3>1
    <3>3. LocalConnCount' \in [Objs -> Int]
      BY <2>1, <2>5, <3>1, <3>2 DEF AddLocal, RemoveLocal
    <3> QED
      BY <2>1, <2>5, <3>3 DEF AddLocal, RemoveLocal
  <2>6. CASE AddClear(t) \/ RemoveMark(t)
    <3>1. th[t].obj \in Objs
      BY <2>6, CallTyped DEF AddClear, RemoveMark, At, NoObjSteps
    <3>2. LastEmptyTime' \in [Objs -> Times]
      BY <2>1, <2>6, <3>1 DEF AddClear, RemoveMark, Times
    <3> QED
      BY <2>1, <2>6, <3>2 DEF AddClear, RemoveMark
  <2>7. CASE AddShard(t) \/ RemoveShard(t)
    <3>1. th[t].obj \in Objs /\ th[t].loop \in Loops
      BY <2>7, CallTyped DEF AddShard, RemoveShard, At, NoObjSteps, RangeSteps
    <3>2. ShardConnCount[th[t].obj][th[t].loop] \in Int
      BY <2>1, <3>1
    <3> DEFINE n == ShardConnCount[th[t].obj][th[t].loop]
    <3>3. PICK m \in {n + 1, n - 1} : ShardConnCount' = [ShardConnCount EXCEPT ![th[t].obj][th[t].loop] = m]
      BY <2>7 DEF AddShard, RemoveShard
    <3>4. ShardConnCount' \in [Objs -> [Loops -> Int]]
      <4>1. m \in Int
        BY <3>2
      <4> QED
        BY <2>1, <3>1, <3>3, <4>1, EntrySet
    <3> QED
      BY <2>1, <2>7, <3>4 DEF AddShard, RemoveShard
  <2>8. CASE AddOr(t) \/ RemoveAnd(t)
    <3>1. th[t].obj \in Objs /\ th[t].loop \in Loops
      BY <2>8, CallTyped DEF AddOr, RemoveAnd, At, NoObjSteps, RangeSteps
    <3>2. PICK S \in SUBSET Loops : ActiveLoops' = [ActiveLoops EXCEPT ![th[t].obj] = S]
      <4>1. ActiveLoops[th[t].obj] \in SUBSET Loops
        BY <2>1, <3>1
      <4>2. /\ ActiveLoops[th[t].obj] \cup {th[t].loop} \in SUBSET Loops
            /\ ActiveLoops[th[t].obj] \ {th[t].loop} \in SUBSET Loops
        BY <3>1, <4>1
      <4> QED
        BY <2>8, <4>2 DEF AddOr, RemoveAnd
    <3>3. ActiveLoops' \in [Objs -> SUBSET Loops]
      BY <2>1, <3>2
    <3> QED
      BY <2>1, <2>8, <3>3 DEF AddOr, RemoveAnd
  <2> QED
    BY <2>2, <2>3, <2>4, <2>5, <2>6, <2>7, <2>8 DEF ThreadStep
<1>4. /\ sweep' \in [pc : {"idle", "count", "time"}, room : Rooms \cup {NULL}]
      /\ seat' \in [Conns -> Rooms \cup {NULL, GONE}]
      /\ joins' \in [Rooms -> Nat]
      /\ orphaned' \subseteq Conns
      /\ crashed' \in BOOLEAN /\ addOnLoop' \in BOOLEAN
  BY <1>2 DEF Typed, TypeOK
<1> QED
  BY <1>1, <1>3, <1>4, OnwardTyped DEF Typed, TypeOK

\* A call that begins.
Begun(t, pc, r, c, l) ==
  /\ th[t] = Idle
  /\ th' \in [Threads -> Call]
  /\ \A s \in Threads \ {t} : th'[s] = th[s]
  /\ th'[t] = [pc |-> pc, room |-> r, conn |-> c, obj |-> NULL, loop |-> l]
  /\ CallSound(th'[t])

LEMMA BeginsBegun ==
  ASSUME Typed, NEW t \in Threads, NEW r \in Rooms, NEW c \in Conns \cup {NULL}, NEW l \in Loops,
         NEW pc \in {"get", "find", "lookup"}, th[t].pc = "idle",
         IF c = NULL THEN pc = "lookup" ELSE pc # "lookup" /\ l = LoopOf[c],
         th' = [th EXCEPT ![t] = [pc |-> pc, room |-> r, conn |-> c, obj |-> NULL, loop |-> l]]
  PROVE  /\ Begun(t, pc, r, c, l)
         /\ \A s \in Threads : th'[s].pc \notin NoObjSteps => th'[s].obj # NULL
         /\ CallsSound'
<1> DEFINE k == [pc |-> pc, room |-> r, conn |-> c, obj |-> NULL, loop |-> l]
<1>1. th \in [Threads -> Call] /\ th[t] = Idle
  BY DEF Typed, TypeOK, CallsSound, CallSound
<1>2. k \in Call /\ k.pc \in NoObjSteps
  BY DEF Call, Steps, NoObjSteps
<1>3. CallSound(k)
  BY NullAssumption DEF CallSound, AddSteps, RemoveSteps, RangeSteps, NoObjSteps
<1>4. /\ th' \in [Threads -> Call] /\ th'[t] = k
      /\ \A s \in Threads \ {t} : th'[s] = th[s]
  BY <1>1, <1>2
<1>5. \A s \in Threads : /\ th'[s].pc \notin NoObjSteps => th'[s].obj # NULL
                         /\ CallSound(th'[s])
  BY <1>2, <1>3, <1>4 DEF Typed, TypeOK, CallsSound
<1>6. CallsSound'
  BY <1>5 DEF CallsSound, CallSound
<1> QED
  BY <1>1, <1>3, <1>4, <1>5, <1>6 DEF Begun

LEMMA AddBegins ==
  ASSUME Typed, NEW t \in Threads, NEW r \in Rooms, NEW c \in Conns, AddConnInLoop(t, r, c)
  PROVE  Begun(t, "get", r, c, LoopOf[c]) /\ Typed'
<1>1. LoopOf[c] \in Loops /\ c # NULL
  BY LoopOfAssumption, NullAssumption
<1>2. /\ Begun(t, "get", r, c, LoopOf[c]) /\ CallsSound'
      /\ \A s \in Threads : th'[s].pc \notin NoObjSteps => th'[s].obj # NULL
  BY <1>1, BeginsBegun DEF AddConnInLoop, At
<1>3. seat' \in [Conns -> Rooms \cup {NULL, GONE}] /\ joins' \in [Rooms -> Nat]
  BY DEF AddConnInLoop, Typed, TypeOK
<1>4. /\ UNCHANGED <<rooms, Shards, ShardConnCount, LocalConnCount, ActiveLoops, LastEmptyTime, sweep, crashed, addOnLoop>>
      /\ orphaned' \subseteq Conns
  BY DEF AddConnInLoop, counters, Typed, TypeOK
<1> QED
  BY <1>2, <1>3, <1>4 DEF Typed, TypeOK, Begun

LEMMA RemoveBegins ==
  ASSUME Typed, NEW c \in Conns, RemoveConnInLoop(c)
  PROVE  Begun(LoopOf[c], "find", seat[c], c, LoopOf[c]) /\ Typed'
<1>1. LoopOf[c] \in Loops /\ LoopOf[c] \in Threads /\ c # NULL /\ seat[c] \in Rooms
  BY LoopOfAssumption, NullAssumption DEF RemoveConnInLoop, Threads
<1>2. /\ Begun(LoopOf[c], "find", seat[c], c, LoopOf[c]) /\ CallsSound'
      /\ \A s \in Threads : th'[s].pc \notin NoObjSteps => th'[s].obj # NULL
  BY <1>1, BeginsBegun DEF RemoveConnInLoop, At
<1>3. seat' \in [Conns -> Rooms \cup {NULL, GONE}]
  BY DEF RemoveConnInLoop, Typed, TypeOK
<1>4. UNCHANGED <<rooms, Shards, ShardConnCount, LocalConnCount, ActiveLoops, LastEmptyTime, sweep, joins, orphaned, crashed, addOnLoop>>
  BY DEF RemoveConnInLoop, counters
<1> QED
  BY <1>2, <1>3, <1>4 DEF Typed, TypeOK, Begun

LEMMA RangeBegins ==
  ASSUME Typed, NEW t \in Threads, NEW r \in Rooms, NEW l \in Loops, RangeLoopConns(t, r, l)
  PROVE  Begun(t, "lookup", r, NULL, l) /\ Typed'
<1>1. /\ Begun(t, "lookup", r, NULL, l) /\ CallsSound'
      /\ \A s \in Threads : th'[s].pc \notin NoObjSteps => th'[s].obj # NULL
  BY BeginsBegun DEF RangeLoopConns, At
<1>2. UNCHANGED <<rooms, Shards, ShardConnCount, LocalConnCount, ActiveLoops, LastEmptyTime, sweep, seat, joins, orphaned, crashed, addOnLoop>>
  BY DEF RangeLoopConns, counters
<1> QED
  BY <1>1, <1>2 DEF Typed, TypeOK, Begun

\* A close of a connection that was asked into no room leaves all but its seat.
LEMMA CloseTyped ==
  ASSUME Typed, NEW c \in Conns, CloseUnjoined(c)
  PROVE  /\ Typed' /\ seat[c] = NULL /\ seat'[c] = GONE
         /\ \A d \in Conns \ {c} : seat'[d] = seat[d]
         /\ UNCHANGED <<rooms, Shards, ShardConnCount, LocalConnCount, ActiveLoops,
                        LastEmptyTime, th, sweep, joins, orphaned, crashed, addOnLoop>>
<1>1. /\ UNCHANGED <<rooms, Shards, ShardConnCount, LocalConnCount, ActiveLoops,
                     LastEmptyTime, th, sweep, joins, orphaned, crashed, addOnLoop>>
      /\ seat' = [seat EXCEPT ![c] = GONE] /\ seat[c] = NULL
  BY DEF CloseUnjoined, counters
<1>2. CallsSound'
  BY <1>1 DEF Typed, CallsSound, CallSound
<1>3. /\ seat' \in [Conns -> Rooms \cup {NULL, GONE}] /\ seat'[c] = GONE
      /\ \A d \in Conns \ {c} : seat'[d] = seat[d]
  BY <1>1 DEF Typed, TypeOK
<1> QED
  BY <1>1, <1>2, <1>3 DEF Typed, TypeOK

\* The cleaner and the clock leave the calls alone.
LEMMA CleanerTyped ==
  ASSUME Typed, CleanerStep \/ \E o \in Objs : Age(o)
  PROVE  Typed' /\ UNCHANGED <<th, Shards, ShardConnCount, LocalConnCount, ActiveLoops, seat, joins, crashed, addOnLoop>>
<1>1. UNCHANGED <<th, Shards, ShardConnCount, LocalConnCount, ActiveLoops, seat, joins, crashed, addOnLoop>>
  BY DEF CleanerStep, CleanLock, CleanCount, CleanDelete, Age, counters
<1>2. CallsSound'
  BY <1>1 DEF Typed, CallsSound, CallSound
<1>3. LastEmptyTime' \in [Objs -> Times]
  BY DEF CleanerStep, CleanLock, CleanCount, CleanDelete, Age, counters, Typed, TypeOK, Times
<1>4. sweep' \in [pc : {"idle", "count", "time"}, room : Rooms \cup {NULL}]
  BY DEF CleanerStep, CleanLock, CleanCount, CleanDelete, Age, NoSweep, Typed, TypeOK
<1>5. rooms' \in [Rooms -> Objs \cup {NULL}] /\ orphaned' \subseteq Conns
  BY DEF CleanerStep, CleanLock, CleanCount, CleanDelete, Age, Collect, Typed, TypeOK
<1> QED
  BY <1>1, <1>2, <1>3, <1>4, <1>5 DEF Typed, TypeOK

LEMMA NextTyped == Typed /\ [Next]_vars => Typed'
<1> SUFFICES ASSUME Typed, [Next]_vars PROVE Typed'
  OBVIOUS
<1>1. CASE UNCHANGED vars
  BY <1>1 DEF vars, Typed, TypeOK, CallsSound, CallSound
<1>2. ASSUME NEW t \in Threads, Fatal(t) PROVE Typed'
  BY <1>2 DEF Fatal, counters, Typed, TypeOK, CallsSound, CallSound
<1> QED
  BY <1>1, <1>2, AddBegins, RemoveBegins, CloseTyped, RangeBegins, StepTyped, CleanerTyped DEF Next

\* The callers keep to the contract, or they do not.
LEMMA FlagKept == Typed /\ [Next]_vars => addOnLoop' = addOnLoop
<1> SUFFICES ASSUME Typed, [Next]_vars PROVE addOnLoop' = addOnLoop
  OBVIOUS
<1>1. ASSUME NEW t \in Threads, ThreadStep(t) PROVE addOnLoop' = addOnLoop
  BY <1>1 DEF ThreadStep, AddGetOrCreate, AddExists, AddReplace, AddPut, AddLocal, AddShard,
     AddOr, AddClear, RemoveFind, RemoveHas, RemoveDelete, RemoveLocal, RemoveShard,
     RemoveAnd, RemoveTest, RemoveMark, RangeLookup, RangeDone
<1>2. ASSUME NEW t \in Threads, NEW r \in Rooms, NEW c \in Conns,
             AddConnInLoop(t, r, c) \/ RemoveConnInLoop(c) \/ CloseUnjoined(c)
      PROVE  addOnLoop' = addOnLoop
  BY <1>2 DEF AddConnInLoop, RemoveConnInLoop, CloseUnjoined
<1>3. ASSUME NEW t \in Threads, NEW r \in Rooms, NEW l \in Loops, RangeLoopConns(t, r, l)
      PROVE  addOnLoop' = addOnLoop
  BY <1>3 DEF RangeLoopConns
<1>4. ASSUME NEW t \in Threads, Fatal(t) PROVE addOnLoop' = addOnLoop
  BY <1>4 DEF Fatal
<1>5. ASSUME NEW c \in Conns, RemoveConnInLoop(c) \/ CloseUnjoined(c) PROVE addOnLoop' = addOnLoop
  BY <1>5 DEF RemoveConnInLoop, CloseUnjoined
<1> QED
  BY <1>1, <1>2, <1>3, <1>4, <1>5, CleanerTyped DEF Next, vars

\* The state is well typed whichever threads call AddConnInLoop, races included:
\* past its lookup a call holds a room, so a nil Room is never dereferenced
\* (manager.go:189-201).
THEOREM TypeCorrect == Spec => []TypeOK
<1>1. Typed => TypeOK
  BY DEF Typed
<1> QED
  BY InitTyped, NextTyped, <1>1, PTL DEF Spec

-----------------------------------------------------------------------------
(* The calls keep to the loops. *)

\* A call runs on the loop that owns the shard it is about.
OnLoop == \A t \in Threads : th[t].pc # "idle" => th[t].loop = t

LEMMA InitOnLoop == Init => OnLoop
BY DEF Init, OnLoop, Idle

LEMMA NextOnLoop ==
  ASSUME addOnLoop, Typed, OnLoop, [Next]_vars
  PROVE  OnLoop'
<1>1. CASE UNCHANGED <<th>>
  BY <1>1 DEF OnLoop
<1>2. ASSUME NEW t \in Threads, NEW pc, NEW r, NEW c, Begun(t, pc, r, c, t)
      PROVE  OnLoop'
  BY <1>2 DEF Begun, OnLoop
<1>3. ASSUME NEW t \in Threads, NEW r \in Rooms, NEW c \in Conns, AddConnInLoop(t, r, c)
      PROVE  OnLoop'
  <2>1. t = LoopOf[c]
    BY <1>3 DEF AddConnInLoop, Adders
  <2> QED
    BY <1>2, <1>3, <2>1, AddBegins
<1>4. ASSUME NEW c \in Conns, RemoveConnInLoop(c) PROVE OnLoop'
  <2>1. LoopOf[c] \in Threads
    BY LoopOfAssumption DEF Threads
  <2> QED
    BY <1>2, <1>4, <2>1, RemoveBegins
<1>5. ASSUME NEW t \in Threads, NEW r \in Rooms, NEW l \in Loops, RangeLoopConns(t, r, l)
      PROVE  OnLoop'
  BY <1>5 DEF RangeLoopConns
<1>6. ASSUME NEW t \in Threads, ThreadStep(t) PROVE OnLoop'
  <2>1. Onward(t) /\ th[t].pc # "idle"
    BY <1>6, StepOnward DEF ThreadStep, At, AddGetOrCreate, AddExists, AddReplace, AddPut,
       AddLocal, AddShard, AddOr, AddClear, RemoveFind, RemoveHas, RemoveDelete, RemoveLocal,
       RemoveShard, RemoveAnd, RemoveTest, RemoveMark, RangeLookup, RangeDone
  <2> QED
    BY <2>1 DEF Onward, OnLoop, Idle
<1>7. ASSUME NEW t \in Threads, Fatal(t) PROVE OnLoop'
  BY <1>1, <1>7 DEF Fatal
<1> QED
  BY <1>1, <1>3, <1>4, <1>5, <1>6, <1>7, CloseTyped, CleanerTyped DEF Next, vars

LEMMA OnLoopRaceFree == OnLoop => RaceFree
BY DEF OnLoop, RaceFree, Racing, Conflict, Accessing, Writing

-----------------------------------------------------------------------------
(* The shards: counter and bit against the map. *)

\* Whether the connection of a call is in its shard, by where the call is.
Present(t) ==
  /\ th[t].pc \in {"replace", "local", "shard", "or", "clear", "delete"} =>
       th[t].conn \in ShardOf(t)
  /\ th[t].pc \in {"put", "unlocal", "unshard", "and", "test", "mark"} =>
       th[t].conn \notin ShardOf(t)

In(l, o, steps) == th[l].obj = o /\ th[l].pc \in steps

\* The connections of a shard as its counter has them.
ShardCounted(o, l) ==
  IF In(l, o, {"local", "shard"}) THEN Shards[o][l] \ {th[l].conn}
  ELSE IF In(l, o, {"unlocal", "unshard"}) THEN Shards[o][l] \cup {th[l].conn}
  ELSE Shards[o][l]

CountExact(o, l) == ShardConnCount[o][l] = Cardinality(ShardCounted(o, l))

BitExact(o, l) ==
  IF In(l, o, {"or"}) THEN l \notin ActiveLoops[o]
  ELSE IF In(l, o, {"and"}) THEN l \in ActiveLoops[o] /\ Shards[o][l] = {}
  ELSE l \in ActiveLoops[o] <=> ShardCounted(o, l) # {}

Columns ==
  \A l \in Loops : Present(l) /\ \A o \in Objs : CountExact(o, l) /\ BitExact(o, l)

\* Where a call that is past its lookup stands.
LEMMA CallHere ==
  ASSUME Typed, OnLoop, NEW t \in Threads, th[t].pc \notin NoObjSteps \cup RangeSteps
  PROVE  /\ t \in Loops /\ th[t].loop = t /\ LoopOf[th[t].conn] = t
         /\ th[t].obj \in Objs /\ th[t].conn \in Conns
<1>1. /\ th[t].obj \in Objs /\ th[t].conn \in Conns /\ th[t].loop \in Loops
      /\ th[t].pc \in AddSteps \cup RemoveSteps
  BY CallTyped DEF NoObjSteps, Typed, TypeOK, Call, Steps, AddSteps, RemoveSteps, RangeSteps
<1>2. th[t].loop = LoopOf[th[t].conn]
  BY <1>1 DEF Typed, CallsSound, CallSound
<1>3. th[t].loop = t
  BY DEF OnLoop, NoObjSteps
<1> QED
  BY <1>1, <1>2, <1>3

\* A write takes effect.
LEMMA WriteLands ==
  ASSUME Typed, OnLoop, NEW t \in Threads, th[t].obj \in Objs, th[t].loop = t, t \in Loops,
         NEW S \in SUBSET Conns, MapWrite(t, S)
  PROVE  /\ Shards'[th[t].obj][t] = S
         /\ \A o \in Objs, l \in Loops : o # th[t].obj \/ l # t => Shards'[o][l] = Shards[o][l]
<1>1. ~Racing(t)
  BY OnLoopRaceFree DEF RaceFree
<1>2. Shards' = [Shards EXCEPT ![th[t].obj][t] = S]
  BY <1>1 DEF MapWrite
<1>3. Shards \in [Objs -> [Loops -> SUBSET Conns]]
  BY DEF Typed, TypeOK
<1> QED
  BY <1>2, <1>3, EntrySet

\* The column of a loop: what a step of another loop's call leaves as it is.
SameColumn(o, l) ==
  /\ Shards'[o][l] = Shards[o][l] /\ ShardConnCount'[o][l] = ShardConnCount[o][l]
  /\ l \in ActiveLoops'[o] <=> l \in ActiveLoops[o]

\* The column of an object that is made anew.
FreshColumn(o, l) ==
  /\ Free(o)
  /\ Shards'[o][l] = {} /\ ShardConnCount'[o][l] = 0 /\ l \notin ActiveLoops'[o]

LEMMA CreatesFresh ==
  ASSUME Typed, NEW t \in Threads, NEW o \in Objs, Creates(t, o)
  PROVE  \A p \in Objs, l \in Loops :
           IF p = o THEN FreshColumn(p, l) ELSE SameColumn(p, l)
BY DEF Creates, FreshColumn, SameColumn, Typed, TypeOK

LEMMA OtherColumns ==
  ASSUME Typed, OnLoop, NEW t \in Threads, ThreadStep(t)
  PROVE  \A o \in Objs, l \in Loops \ {t} : SameColumn(o, l) \/ FreshColumn(o, l)
<1>1. CASE AddGetOrCreate(t)
  BY <1>1, GetOrCreateGives, CreatesFresh DEF Fetches, SameColumn, counters
<1>2. CASE AddReplace(t) \/ AddPut(t) \/ RemoveDelete(t)
  <2>1. /\ t \in Loops /\ th[t].loop = t /\ th[t].obj \in Objs /\ th[t].conn \in Conns
    BY <1>2, CallHere DEF AddReplace, AddPut, RemoveDelete, At, NoObjSteps, RangeSteps
  <2>0. ShardOf(t) \in SUBSET Conns
    BY <2>1 DEF ShardOf, Typed, TypeOK
  <2>2. PICK S \in SUBSET Conns : MapWrite(t, S)
    BY <1>2, <2>0, <2>1 DEF AddReplace, AddPut, RemoveDelete
  <2> QED
    BY <1>2, <2>1, <2>2, WriteLands DEF AddReplace, AddPut, RemoveDelete, SameColumn, counters
<1>3. CASE AddShard(t) \/ RemoveShard(t)
  <2>1. t \in Loops /\ th[t].loop = t /\ th[t].obj \in Objs
    BY <1>3, CallHere DEF AddShard, RemoveShard, At, NoObjSteps, RangeSteps
  <2>2. ShardConnCount \in [Objs -> [Loops -> Int]]
    BY DEF Typed, TypeOK
  <2>3. \A o \in Objs, l \in Loops \ {t} : ShardConnCount'[o][l] = ShardConnCount[o][l]
    BY <1>3, <2>1, <2>2 DEF AddShard, RemoveShard
  <2> QED
    BY <1>3, <2>3 DEF AddShard, RemoveShard, SameColumn
<1>4. CASE AddOr(t) \/ RemoveAnd(t)
  <2>1. t \in Loops /\ th[t].loop = t /\ th[t].obj \in Objs
    BY <1>4, CallHere DEF AddOr, RemoveAnd, At, NoObjSteps, RangeSteps
  <2>2. ActiveLoops \in [Objs -> SUBSET Loops]
    BY DEF Typed, TypeOK
  <2>3. \A o \in Objs, l \in Loops \ {t} : l \in ActiveLoops'[o] <=> l \in ActiveLoops[o]
    BY <1>4, <2>1, <2>2 DEF AddOr, RemoveAnd
  <2> QED
    BY <1>4, <2>3 DEF AddOr, RemoveAnd, SameColumn
<1>5. CASE \/ AddExists(t) \/ AddLocal(t) \/ AddClear(t) \/ RemoveFind(t) \/ RemoveHas(t)
           \/ RemoveLocal(t) \/ RemoveTest(t) \/ RemoveMark(t) \/ RangeLookup(t) \/ RangeDone(t)
  BY <1>5 DEF AddExists, AddLocal, AddClear, RemoveFind, RemoveHas, RemoveLocal, RemoveTest,
     RemoveMark, RangeLookup, RangeDone, SameColumn, counters
<1> QED
  BY <1>1, <1>2, <1>3, <1>4, <1>5 DEF ThreadStep

\* A column stays exact while its loop's call stays where it is.
LEMMA ColumnKept ==
  ASSUME Typed, OnLoop, Columns, NEW l \in Loops, th'[l] = th[l],
         \A o \in Objs : SameColumn(o, l) \/ FreshColumn(o, l)
  PROVE  Present(l)' /\ \A o \in Objs : CountExact(o, l)' /\ BitExact(o, l)'
<1>0. l \in Threads /\ (th[l].pc \notin NoObjSteps => th[l].obj \in Objs)
      /\ (th[l].pc \notin NoObjSteps \cup RangeSteps => th[l].loop = l)
  BY CallTyped, CallHere DEF Threads
<1>1. Present(l)'
  <2>1. th[l].pc \notin NoObjSteps \cup RangeSteps => Shards'[th[l].obj][l] = Shards[th[l].obj][l]
    BY <1>0 DEF SameColumn, FreshColumn, Free
  <2> QED
    BY <1>0, <2>1 DEF Present, ShardOf, Columns, NoObjSteps, RangeSteps
<1>2. ASSUME NEW o \in Objs, SameColumn(o, l)
      PROVE  CountExact(o, l)' /\ BitExact(o, l)'
  <2>1. ShardCounted(o, l)' = ShardCounted(o, l)
    BY <1>2 DEF ShardCounted, In, SameColumn
  <2> QED
    BY <1>2, <2>1 DEF Columns, CountExact, BitExact, In, SameColumn
<1>3. ASSUME NEW o \in Objs, FreshColumn(o, l)
      PROVE  CountExact(o, l)' /\ BitExact(o, l)'
  <2>1. th[l].obj # o
    BY <1>0, <1>3 DEF FreshColumn, Free
  <2>2. ShardCounted(o, l)' = {}
    BY <1>3, <2>1 DEF ShardCounted, In, FreshColumn
  <2> QED
    BY <1>3, <2>1, <2>2, FS_EmptySet DEF CountExact, BitExact, In, FreshColumn
<1> QED
  BY <1>1, <1>2, <1>3

\* A loop's call moves between places that mean the same to its shard's counter.
LEMMA ColumnMoved ==
  ASSUME Columns, NEW l \in Loops,
         \A o \in Objs : SameColumn(o, l),
         \A o \in Objs : In(l, o, {"local", "shard"})' <=> In(l, o, {"local", "shard"}),
         \A o \in Objs : In(l, o, {"unlocal", "unshard"})' <=> In(l, o, {"unlocal", "unshard"}),
         \A o \in Objs : ~In(l, o, {"or"})' /\ ~In(l, o, {"and"})',
         \A o \in Objs : ~In(l, o, {"or"}) /\ ~In(l, o, {"and"}),
         th[l].pc \in {"local", "shard", "unlocal", "unshard"} => th'[l].conn = th[l].conn
  PROVE  \A o \in Objs : CountExact(o, l)' /\ BitExact(o, l)'
<1> SUFFICES ASSUME NEW o \in Objs PROVE CountExact(o, l)' /\ BitExact(o, l)'
  OBVIOUS
<1>1. ShardCounted(o, l)' = ShardCounted(o, l)
  BY DEF ShardCounted, In, SameColumn
<1>2. CountExact(o, l)'
  BY <1>1 DEF Columns, CountExact, SameColumn
<1>3. BitExact(o, l)'
  BY <1>1 DEF Columns, BitExact, SameColumn
<1> QED
  BY <1>2, <1>3

LEMMA ShardFinite ==
  ASSUME Typed, NEW o \in Objs, NEW l \in Loops
  PROVE  Shards[o][l] \in SUBSET Conns /\ IsFiniteSet(Shards[o][l])
<1>1. Shards[o][l] \in SUBSET Conns
  BY DEF Typed, TypeOK
<1> QED
  BY <1>1, FiniteAssumption, FS_Subset

\* The places a call can be at after the table of a step.
LEMMA QuietColumn ==
  ASSUME Typed, OnLoop, Columns, NEW t \in Loops,
         \/ AddExists(t) \/ AddReplace(t) \/ AddLocal(t) \/ AddClear(t) \/ RemoveFind(t)
         \/ RemoveHas(t) \/ RemoveLocal(t) \/ RemoveTest(t) \/ RemoveMark(t)
         \/ RangeLookup(t) \/ RangeDone(t)
  PROVE  Present(t)' /\ \A o \in Objs : CountExact(o, t)' /\ BitExact(o, t)'
<1>0. t \in Threads /\ Idle.pc = "idle" /\ th[t].pc # "idle"
  BY DEF Threads, Idle, AddExists, AddReplace, AddLocal, AddClear, RemoveFind, RemoveHas,
     RemoveLocal, RemoveTest, RemoveMark, RangeLookup, RangeDone, At
<1>1. \A o \in Objs, l \in Loops : SameColumn(o, l)
  <2>1. CASE AddReplace(t)
    <3>1. /\ th[t].loop = t /\ th[t].obj \in Objs /\ th[t].conn \in Conns
      BY <1>0, <2>1, CallHere DEF AddReplace, At, NoObjSteps, RangeSteps
    <3>2. th[t].conn \in ShardOf(t) /\ ShardOf(t) = Shards[th[t].obj][t]
      BY <2>1, <3>1 DEF AddReplace, At, Columns, Present, ShardOf
    <3>3. ShardOf(t) \cup {th[t].conn} = ShardOf(t) /\ ShardOf(t) \in SUBSET Conns
      BY <3>1, <3>2, ShardFinite
    <3>4. MapWrite(t, ShardOf(t)) /\ UNCHANGED counters
      BY <2>1, <3>3 DEF AddReplace
    <3>5. \A o \in Objs, l \in Loops : Shards'[o][l] = Shards[o][l]
      BY <1>0, <3>1, <3>2, <3>3, <3>4, WriteLands
    <3> QED
      BY <3>4, <3>5 DEF SameColumn, counters
  <2> QED
    BY <2>1 DEF AddExists, AddLocal, AddClear, RemoveFind, RemoveHas, RemoveLocal, RemoveTest,
       RemoveMark, RangeLookup, RangeDone, SameColumn, counters
<1>2. CASE AddReplace(t) \/ AddClear(t) \/ RemoveMark(t) \/ RangeDone(t)
  <2>1. th'[t] = Idle /\ th[t].pc \in {"replace", "clear", "mark", "range"}
    BY <1>0, <1>2, ReturnOnward DEF AddReplace, AddClear, RemoveMark, RangeDone, At
  <2> QED
    BY <1>0, <1>1, <2>1, ColumnMoved DEF In, Present
<1>3. CASE AddExists(t)
  <2>1. /\ th'[t].pc = (IF th[t].conn \in ShardOf(t) THEN "replace" ELSE "put")
        /\ th'[t].obj = th[t].obj /\ th'[t].conn = th[t].conn /\ th'[t].loop = th[t].loop
        /\ th[t].pc = "exists"
    BY <1>0, <1>3, GoToTable DEF AddExists, At, Steps
  <2>2. th[t].loop = t /\ th[t].obj \in Objs
    BY <1>0, <2>1, CallHere DEF NoObjSteps, RangeSteps
  <2>3. Present(t)'
    BY <1>1, <2>1, <2>2 DEF Present, ShardOf, SameColumn
  <2> QED
    BY <1>1, <2>1, <2>3, ColumnMoved DEF In
<1>4. CASE AddLocal(t) \/ RemoveLocal(t)
  <2>1. /\ \/ th[t].pc = "local" /\ th'[t].pc = "shard"
           \/ th[t].pc = "unlocal" /\ th'[t].pc = "unshard"
        /\ th'[t].obj = th[t].obj /\ th'[t].conn = th[t].conn /\ th'[t].loop = th[t].loop
    BY <1>0, <1>4, GoToTable DEF AddLocal, RemoveLocal, At, Steps
  <2>2. th[t].loop = t /\ th[t].obj \in Objs
    BY <1>0, <2>1, CallHere DEF NoObjSteps, RangeSteps
  <2>3. Present(t)'
    BY <1>1, <2>1, <2>2 DEF Columns, Present, ShardOf, SameColumn
  <2> QED
    BY <1>1, <2>1, <2>3, ColumnMoved DEF In
<1>5. CASE RemoveHas(t) \/ RemoveTest(t)
  <2>1. \/ th'[t] = Idle /\ th[t].pc \in {"has", "test"}
        \/ /\ th'[t].obj = th[t].obj /\ th'[t].conn = th[t].conn /\ th'[t].loop = th[t].loop
           /\ \/ th[t].pc = "has" /\ th'[t].pc = "delete" /\ th[t].conn \in ShardOf(t)
              \/ th[t].pc = "test" /\ th'[t].pc = "mark"
    BY <1>0, <1>5, GoToTable, ReturnOnward DEF RemoveHas, RemoveTest, At, Steps
  <2>2. th[t].loop = t /\ th[t].obj \in Objs
    BY <1>0, <2>1, CallHere DEF NoObjSteps, RangeSteps
  <2>3. Present(t)'
    BY <1>0, <1>1, <2>1, <2>2 DEF Columns, Present, ShardOf, SameColumn
  <2> QED
    BY <1>0, <1>1, <2>1, <2>3, ColumnMoved DEF In
<1>6. CASE RemoveFind(t) \/ RangeLookup(t)
  <2>1. /\ th[t].pc \in {"find", "lookup"}
        /\ th'[t].pc \in {"idle", "has", "range"}
    <3>1. th \in [Threads -> Call]
      BY DEF Typed, TypeOK
    <3> QED
      BY <1>0, <1>6, <3>1 DEF RemoveFind, RangeLookup, At, Return, Call
  <2> QED
    BY <1>1, <2>1, ColumnMoved DEF In, Present
<1> QED
  BY <1>2, <1>3, <1>4, <1>5, <1>6

\* A step that writes to the shard, its counter or its bit.
LEMMA WrittenColumn ==
  ASSUME Typed, OnLoop, Columns, NEW t \in Loops,
         \/ AddPut(t) \/ AddShard(t) \/ AddOr(t)
         \/ RemoveDelete(t) \/ RemoveShard(t) \/ RemoveAnd(t)
  PROVE  Present(t)' /\ \A o \in Objs : CountExact(o, t)' /\ BitExact(o, t)'
<1>1. /\ t \in Threads /\ ~crashed
      /\ th[t].pc \in {"put", "shard", "or", "delete", "unshard", "and"}
  BY DEF Threads, AddPut, AddShard, AddOr, RemoveDelete, RemoveShard, RemoveAnd, At
<1>2. PICK p \in Objs, c \in Conns :
        th[t].loop = t /\ th[t].obj = p /\ th[t].conn = c /\ LoopOf[c] = t
  BY <1>1, CallHere DEF NoObjSteps, RangeSteps
<1>3. ShardOf(t) = Shards[p][t] /\ Shards[p][t] \in SUBSET Conns /\ IsFiniteSet(Shards[p][t])
  BY <1>2, ShardFinite DEF ShardOf
<1>4. Present(t) /\ CountExact(p, t) /\ BitExact(p, t)
  BY <1>2 DEF Columns
<1>5. /\ th'[t].obj = p /\ th'[t].conn = c /\ th'[t].loop = t
      /\ \/ AddPut(t) /\ th'[t].pc = "local"
         \/ AddShard(t) /\ th'[t].pc = IF ShardConnCount'[p][t] = 1 THEN "or" ELSE "clear"
         \/ AddOr(t) /\ th'[t].pc = "clear"
         \/ RemoveDelete(t) /\ th'[t].pc = "unlocal"
         \/ RemoveShard(t) /\ th'[t].pc = IF ShardConnCount'[p][t] = 0 THEN "and" ELSE "test"
         \/ RemoveAnd(t) /\ th'[t].pc = "test"
  BY <1>1, <1>2, GoToTable DEF AddPut, AddShard, AddOr, RemoveDelete, RemoveShard, RemoveAnd, At, Steps
<1>6. \A o \in Objs : o # p => SameColumn(o, t)
  <2>1. CASE AddPut(t) \/ RemoveDelete(t)
    <3>1. PICK S \in SUBSET Conns : MapWrite(t, S)
      BY <1>2, <1>3, <2>1 DEF AddPut, RemoveDelete
    <3>2. \A o \in Objs : o # p => Shards'[o][t] = Shards[o][t]
      BY <1>1, <1>2, <3>1, WriteLands
    <3> QED
      BY <2>1, <3>2 DEF AddPut, RemoveDelete, SameColumn, counters
  <2>2. CASE AddShard(t) \/ RemoveShard(t)
    BY <1>2, <2>2 DEF AddShard, RemoveShard, SameColumn, Typed, TypeOK
  <2>3. CASE AddOr(t) \/ RemoveAnd(t)
    BY <1>2, <2>3 DEF AddOr, RemoveAnd, SameColumn, Typed, TypeOK
  <2> QED
    BY <1>5, <2>1, <2>2, <2>3
<1>7. ASSUME NEW o \in Objs, o # p PROVE CountExact(o, t)' /\ BitExact(o, t)'
  <2>1. ShardCounted(o, t) = Shards[o][t] /\ ShardCounted(o, t)' = Shards[o][t]
    BY <1>2, <1>5, <1>6, <1>7 DEF ShardCounted, In, SameColumn
  <2>2. CountExact(o, t) /\ BitExact(o, t)
    BY <1>7 DEF Columns
  <2>3. CountExact(o, t)'
    BY <1>6, <1>7, <2>1, <2>2 DEF CountExact, SameColumn
  <2>4. BitExact(o, t)'
    BY <1>2, <1>5, <1>6, <1>7, <2>1, <2>2 DEF BitExact, In, SameColumn
  <2> QED
    BY <2>3, <2>4
<1>8. ASSUME AddPut(t)
      PROVE  Present(t)' /\ CountExact(p, t)' /\ BitExact(p, t)'
  <2>1. c \notin Shards[p][t] /\ th[t].pc = "put" /\ UNCHANGED <<ShardConnCount, ActiveLoops>>
    BY <1>2, <1>3, <1>4, <1>8 DEF Present, AddPut, At, counters
  <2>2. Shards'[p][t] = Shards[p][t] \cup {c}
    BY <1>1, <1>2, <1>3, <1>8, WriteLands DEF AddPut
  <2>3. th'[t].pc = "local"
    BY <1>1, <1>2, <1>8, GoToTable DEF AddPut, At, Steps
  <2>4. ShardCounted(p, t)' = ShardCounted(p, t)
    BY <1>2, <1>5, <2>1, <2>2, <2>3 DEF ShardCounted, In
  <2> QED
    BY <1>2, <1>4, <1>5, <2>1, <2>2, <2>3, <2>4 DEF Present, ShardOf, CountExact, BitExact, In
<1>9. ASSUME RemoveDelete(t)
      PROVE  Present(t)' /\ CountExact(p, t)' /\ BitExact(p, t)'
  <2>1. c \in Shards[p][t] /\ th[t].pc = "delete" /\ UNCHANGED <<ShardConnCount, ActiveLoops>>
    BY <1>2, <1>3, <1>4, <1>9 DEF Present, RemoveDelete, At, counters
  <2>2. Shards'[p][t] = Shards[p][t] \ {c}
    BY <1>1, <1>2, <1>3, <1>9, WriteLands DEF RemoveDelete
  <2>3. th'[t].pc = "unlocal"
    BY <1>1, <1>2, <1>9, GoToTable DEF RemoveDelete, At, Steps
  <2>4. ShardCounted(p, t)' = ShardCounted(p, t)
    BY <1>2, <1>5, <2>1, <2>2, <2>3 DEF ShardCounted, In
  <2> QED
    BY <1>2, <1>4, <1>5, <2>1, <2>2, <2>3, <2>4 DEF Present, ShardOf, CountExact, BitExact, In
<1>10. ASSUME AddShard(t)
      PROVE  Present(t)' /\ CountExact(p, t)' /\ BitExact(p, t)'
  <2>1. c \in Shards[p][t] /\ th[t].pc = "shard" /\ UNCHANGED <<Shards, ActiveLoops>>
    BY <1>2, <1>3, <1>4, <1>10 DEF Present, AddShard, At
  <2>2. ShardConnCount'[p][t] = ShardConnCount[p][t] + 1
    BY <1>2, <1>10 DEF AddShard, Typed, TypeOK
  <2>3. th'[t].pc = IF ShardConnCount'[p][t] = 1 THEN "or" ELSE "clear"
    BY <1>1, <1>2, <1>10, GoToTable DEF AddShard, At, Steps
  <2>4. ShardCounted(p, t) = Shards[p][t] \ {c} /\ ShardCounted(p, t)' = Shards[p][t]
    BY <1>2, <1>5, <2>1, <2>3 DEF ShardCounted, In
  <2>5. /\ IsFiniteSet(Shards[p][t] \ {c}) /\ Cardinality(Shards[p][t]) \in Nat
        /\ Cardinality(Shards[p][t] \ {c}) = Cardinality(Shards[p][t]) - 1
    BY <1>3, <2>1, FS_RemoveElement, FS_CardinalityType
  <2>6. CountExact(p, t)'
    BY <1>4, <2>2, <2>4, <2>5 DEF CountExact
  <2>7. BitExact(p, t)'
    <3>1. t \in ActiveLoops[p] <=> Shards[p][t] \ {c} # {}
      BY <1>2, <1>4, <2>1, <2>4 DEF BitExact, In
    <3>2. ShardConnCount'[p][t] = 1 <=> Shards[p][t] \ {c} = {}
      BY <1>4, <2>2, <2>4, <2>5, FS_EmptySet DEF CountExact
    <3> QED
      BY <1>5, <2>1, <2>3, <2>4, <3>1, <3>2 DEF BitExact, In
  <2> QED
    BY <1>5, <2>1, <2>3, <2>6, <2>7 DEF Present, ShardOf
<1>11. ASSUME RemoveShard(t)
      PROVE  Present(t)' /\ CountExact(p, t)' /\ BitExact(p, t)'
  <2>1. c \notin Shards[p][t] /\ th[t].pc = "unshard" /\ UNCHANGED <<Shards, ActiveLoops>>
    BY <1>2, <1>3, <1>4, <1>11 DEF Present, RemoveShard, At
  <2>2. ShardConnCount'[p][t] = ShardConnCount[p][t] - 1
    BY <1>2, <1>11 DEF RemoveShard, Typed, TypeOK
  <2>3. th'[t].pc = IF ShardConnCount'[p][t] = 0 THEN "and" ELSE "test"
    BY <1>1, <1>2, <1>11, GoToTable DEF RemoveShard, At, Steps
  <2>4. ShardCounted(p, t) = Shards[p][t] \cup {c} /\ ShardCounted(p, t)' = Shards[p][t]
    BY <1>2, <1>5, <2>1, <2>3 DEF ShardCounted, In
  <2>5. /\ Cardinality(Shards[p][t]) \in Nat
        /\ Cardinality(Shards[p][t] \cup {c}) = Cardinality(Shards[p][t]) + 1
    BY <1>3, <2>1, FS_AddElement, FS_CardinalityType
  <2>6. CountExact(p, t)'
    BY <1>4, <2>2, <2>4, <2>5 DEF CountExact
  <2>7. BitExact(p, t)'
    <3>1. t \in ActiveLoops[p]
      BY <1>2, <1>4, <2>1, <2>4 DEF BitExact, In
    <3>2. ShardConnCount'[p][t] = 0 <=> Shards[p][t] = {}
      BY <1>3, <1>4, <2>2, <2>4, <2>5, FS_EmptySet DEF CountExact
    <3> QED
      BY <1>5, <2>1, <2>3, <2>4, <3>1, <3>2 DEF BitExact, In
  <2> QED
    BY <1>5, <2>1, <2>3, <2>6, <2>7 DEF Present, ShardOf
<1>12. ASSUME AddOr(t)
      PROVE  Present(t)' /\ CountExact(p, t)' /\ BitExact(p, t)'
  <2>1. c \in Shards[p][t] /\ th[t].pc = "or" /\ UNCHANGED <<Shards, ShardConnCount>>
    BY <1>2, <1>3, <1>4, <1>12 DEF Present, AddOr, At
  <2>2. t \in ActiveLoops'[p]
    BY <1>2, <1>12 DEF AddOr, Typed, TypeOK
  <2>3. th'[t].pc = "clear"
    BY <1>1, <1>2, <1>12, GoToTable DEF AddOr, At, Steps
  <2>4. ShardCounted(p, t) = Shards[p][t] /\ ShardCounted(p, t)' = Shards[p][t]
    BY <1>2, <1>5, <2>1, <2>3 DEF ShardCounted, In
  <2> QED
    BY <1>2, <1>4, <1>5, <2>1, <2>2, <2>3, <2>4 DEF Present, ShardOf, CountExact, BitExact, In
<1>13. ASSUME RemoveAnd(t)
      PROVE  Present(t)' /\ CountExact(p, t)' /\ BitExact(p, t)'
  <2>1. c \notin Shards[p][t] /\ th[t].pc = "and" /\ UNCHANGED <<Shards, ShardConnCount>>
    BY <1>2, <1>3, <1>4, <1>13 DEF Present, RemoveAnd, At
  <2>2. t \notin ActiveLoops'[p]
    BY <1>2, <1>13 DEF RemoveAnd, Typed, TypeOK
  <2>3. th'[t].pc = "test"
    BY <1>1, <1>2, <1>13, GoToTable DEF RemoveAnd, At, Steps
  <2>4. ShardCounted(p, t) = Shards[p][t] /\ ShardCounted(p, t)' = Shards[p][t] /\ Shards[p][t] = {}
    BY <1>2, <1>4, <1>5, <2>1, <2>3 DEF ShardCounted, In, BitExact
  <2> QED
    BY <1>2, <1>4, <1>5, <2>1, <2>2, <2>3, <2>4 DEF Present, ShardOf, CountExact, BitExact, In
<1>14. Present(t)' /\ CountExact(p, t)' /\ BitExact(p, t)'
  BY <1>5, <1>8, <1>9, <1>10, <1>11, <1>12, <1>13
<1>15. ASSUME NEW o \in Objs PROVE CountExact(o, t)' /\ BitExact(o, t)'
  BY <1>7, <1>14
<1> QED
  BY <1>14, <1>15

LEMMA FetchedColumn ==
  ASSUME Typed, OnLoop, Columns, NEW t \in Loops, AddGetOrCreate(t)
  PROVE  Present(t)' /\ \A o \in Objs : CountExact(o, t)' /\ BitExact(o, t)'
<1>1. t \in Threads /\ th[t].pc = "get"
  BY DEF Threads, AddGetOrCreate, At
<1>2. PICK p \in Objs : Fetches(t, p) \/ Creates(t, p)
  BY <1>1, GetOrCreateGives
<1>3. th'[t].pc = "exists"
  BY <1>1, GetOrCreateGives
<1>4. Present(t)'
  BY <1>3 DEF Present
<1>5. \A o \in Objs : SameColumn(o, t) \/ FreshColumn(o, t)
  BY <1>1, <1>2, CreatesFresh DEF Fetches, SameColumn, counters
<1>6. ASSUME NEW o \in Objs PROVE CountExact(o, t)' /\ BitExact(o, t)'
  <2>1. ShardCounted(o, t)' = Shards'[o][t] /\ ShardCounted(o, t) = Shards[o][t]
    BY <1>1, <1>3 DEF ShardCounted, In
  <2>2. CASE SameColumn(o, t)
    BY <1>1, <1>3, <2>1, <2>2 DEF Columns, CountExact, BitExact, In, SameColumn
  <2>3. CASE FreshColumn(o, t)
    BY <1>3, <2>1, <2>3, FS_EmptySet DEF CountExact, BitExact, In, FreshColumn
  <2> QED
    BY <1>5, <2>2, <2>3
<1> QED
  BY <1>4, <1>6

LEMMA InitColumns == Init => Columns
<1> SUFFICES ASSUME Init, NEW l \in Loops
             PROVE  Present(l) /\ \A o \in Objs : CountExact(o, l) /\ BitExact(o, l)
  BY DEF Columns
<1>1. th[l].pc = "idle"
  BY DEF Init, Idle, Threads
<1> QED
  BY <1>1, FS_EmptySet DEF Init, Present, CountExact, BitExact, ShardCounted, In

LEMMA StepColumns ==
  ASSUME Typed, OnLoop, Columns, NEW t \in Threads, ThreadStep(t)
  PROVE  Columns'
<1>1. Onward(t)
  BY StepOnward
<1>2. \A o \in Objs, l \in Loops \ {t} : SameColumn(o, l) \/ FreshColumn(o, l)
  BY OtherColumns
<1>3. ASSUME NEW l \in Loops
      PROVE  Present(l)' /\ \A o \in Objs : CountExact(o, l)' /\ BitExact(o, l)'
  <2>1. CASE l # t
    <3>1. th'[l] = th[l]
      BY <1>1, <2>1 DEF Onward, Threads
    <3> QED
      BY <1>2, <2>1, <3>1, ColumnKept
  <2>2. CASE l = t
    BY <2>2, QuietColumn, WrittenColumn, FetchedColumn DEF ThreadStep
  <2> QED
    BY <2>1, <2>2
<1> QED
  BY <1>3 DEF Columns

LEMMA BegunColumns ==
  ASSUME Columns, NEW t \in Threads, NEW pc \in {"get", "find", "lookup"}, NEW r, NEW c, NEW l,
         Begun(t, pc, r, c, l), UNCHANGED <<Shards, ShardConnCount, ActiveLoops>>
  PROVE  Columns'
<1>1. \A o \in Objs, k \in Loops : SameColumn(o, k)
  BY DEF SameColumn
<1>2. th[t].pc = "idle" /\ th'[t].pc = pc
  BY DEF Begun, Idle
<1>3. ASSUME NEW k \in Loops
      PROVE  Present(k)' /\ \A o \in Objs : CountExact(o, k)' /\ BitExact(o, k)'
  <2>1. CASE k = t
    BY <1>1, <1>2, <2>1, ColumnMoved DEF In, Present
  <2>2. CASE k # t
    <3>1. th'[k] = th[k]
      BY <2>2 DEF Begun, Threads
    <3> QED
      BY <3>1 DEF Columns, Present, ShardOf, CountExact, BitExact, ShardCounted, In
  <2> QED
    BY <2>1, <2>2
<1> QED
  BY <1>3 DEF Columns

LEMMA NextColumns ==
  ASSUME addOnLoop, Typed, OnLoop, Columns, [Next]_vars
  PROVE  Columns'
<1>1. CASE UNCHANGED <<th, Shards, ShardConnCount, ActiveLoops>>
  <2>1. ASSUME NEW l \in Loops
        PROVE  Present(l)' /\ \A o \in Objs : CountExact(o, l)' /\ BitExact(o, l)'
    BY <1>1, ColumnKept DEF SameColumn
  <2> QED
    BY <2>1 DEF Columns
<1>2. ASSUME NEW t \in Threads, NEW r \in Rooms, NEW c \in Conns, AddConnInLoop(t, r, c)
      PROVE  Columns'
  BY <1>2, AddBegins, BegunColumns DEF AddConnInLoop, counters
<1>3. ASSUME NEW c \in Conns, RemoveConnInLoop(c) PROVE Columns'
  BY <1>3, LoopOfAssumption, RemoveBegins, BegunColumns DEF RemoveConnInLoop, counters, Threads
<1>4. ASSUME NEW t \in Threads, NEW r \in Rooms, NEW l \in Loops, RangeLoopConns(t, r, l)
      PROVE  Columns'
  BY <1>4 DEF RangeLoopConns
<1>5. ASSUME NEW t \in Threads, Fatal(t) PROVE Columns'
  BY <1>1, <1>5 DEF Fatal, counters
<1>6. ASSUME NEW t \in Threads, ThreadStep(t) PROVE Columns'
  BY <1>6, StepColumns
<1>7. CASE CleanerStep \/ (\E o \in Objs : Age(o)) \/ \E c \in Conns : CloseUnjoined(c)
  BY <1>1, <1>7, CleanerTyped, CloseTyped
<1>8. CASE UNCHANGED vars
  BY <1>1, <1>8 DEF vars
<1> QED
  BY <1>2, <1>3, <1>4, <1>5, <1>6, <1>7, <1>8 DEF Next

LEMMA ColumnsExact ==
  ASSUME Columns
  PROVE  ShardIndexExact
<1> SUFFICES ASSUME NEW l \in Loops, NEW o \in Objs, th[l].pc = "idle"
             PROVE  /\ ShardConnCount[o][l] = Cardinality(Shards[o][l])
                    /\ l \in ActiveLoops[o] <=> Shards[o][l] # {}
  BY DEF ShardIndexExact
<1> QED
  BY DEF Columns, CountExact, BitExact, ShardCounted, In

\* Under the contract, the counter and the bit of the shard of a loop that is in
\* no call agree with the map, whatever the other loops and the cleaner are doing
\* to the same room (manager.go:25-33, 163-170, 203-210).
THEOREM ShardIndexSafe == Spec => []ShardIndexExact
<1> DEFINE I == Typed /\ (addOnLoop => OnLoop /\ Columns)
<1>1. Init => I
  BY InitTyped, InitOnLoop, InitColumns
<1>2. I /\ [Next]_vars => I'
  BY FlagKept, NextTyped, NextOnLoop, NextColumns
<1>3. I => ShardIndexExact
  BY ColumnsExact DEF ShardIndexExact
<1> QED
  BY <1>1, <1>2, <1>3, PTL DEF Spec

-----------------------------------------------------------------------------
(* The rooms: the counter against the connections of all shards. *)

\* The call on the loop of a connection, and whether it is about that connection,
\* in an object and at one of some places.
Doing(c) == th[LoopOf[c]]
About(c, o, steps) == Doing(c).conn = c /\ Doing(c).obj = o /\ Doing(c).pc \in steps

CountedIn(c, o) ==
  \/ c \in Shards[o][LoopOf[c]] /\ ~About(c, o, {"local"})
  \/ About(c, o, {"unlocal"})

\* The connections of a room as its counter has them.
RoomCounted(o) == {c \in Conns : CountedIn(c, o)}

RoomsExact == \A o \in Objs : LocalConnCount[o] = Cardinality(RoomCounted(o))

LEMMA RoomFinite ==
  ASSUME NEW o \in Objs
  PROVE  IsFiniteSet(RoomCounted(o)) /\ Cardinality(RoomCounted(o)) \in Nat
BY FiniteAssumption, FS_Subset, FS_CardinalityType DEF RoomCounted

LEMMA LoopThread == \A c \in Conns : LoopOf[c] \in Loops /\ LoopOf[c] \in Threads
BY LoopOfAssumption DEF Threads

\* A call that neither counts nor is about to uncount.
LEMMA CountedKept ==
  ASSUME NEW t \in Threads, NEW c \in Conns, NEW o \in Objs,
         \A s \in Threads \ {t} : th'[s] = th[s],
         c \in Shards'[o][LoopOf[c]] <=> c \in Shards[o][LoopOf[c]],
         th[t].pc \notin {"local", "unlocal"}, th'[t].pc \notin {"local", "unlocal"}
  PROVE  CountedIn(c, o)' <=> CountedIn(c, o)
<1>1. LoopOf[c] \in Threads
  BY LoopThread
<1>2. CASE LoopOf[c] = t
  BY <1>2 DEF CountedIn, About, Doing
<1>3. CASE LoopOf[c] # t
  BY <1>1, <1>3 DEF CountedIn, About, Doing
<1> QED
  BY <1>2, <1>3

LEMMA SameRooms ==
  ASSUME RoomsExact, UNCHANGED LocalConnCount,
         \A c \in Conns, o \in Objs : CountedIn(c, o)' <=> CountedIn(c, o)
  PROVE  RoomsExact'
<1>1. ASSUME NEW o \in Objs PROVE RoomCounted(o)' = RoomCounted(o)
  BY <1>1 DEF RoomCounted
<1> QED
  BY <1>1 DEF RoomsExact

LEMMA QuietRooms ==
  ASSUME Typed, OnLoop, Columns, RoomsExact, NEW t \in Threads, ThreadStep(t),
         th[t].pc \notin {"get", "put", "local", "delete", "unlocal"}
  PROVE  RoomsExact'
<1>1. Onward(t)
  BY StepOnward
<1>2. \A o \in Objs, l \in Loops : Shards'[o][l] = Shards[o][l]
  <2>1. CASE AddReplace(t)
    <3>1. t \in Loops /\ th[t].loop = t /\ th[t].obj \in Objs /\ th[t].conn \in Conns
      BY <2>1, CallHere DEF AddReplace, At, NoObjSteps, RangeSteps
    <3>2. th[t].conn \in ShardOf(t) /\ ShardOf(t) = Shards[th[t].obj][t]
      BY <2>1, <3>1 DEF AddReplace, At, Columns, Present, ShardOf
    <3>3. ShardOf(t) \cup {th[t].conn} = ShardOf(t) /\ ShardOf(t) \in SUBSET Conns
      BY <3>1, <3>2, ShardFinite
    <3>4. MapWrite(t, ShardOf(t))
      BY <2>1, <3>3 DEF AddReplace
    <3> QED
      BY <3>1, <3>2, <3>3, <3>4, WriteLands
  <2>2. CASE ~AddReplace(t)
    BY <2>2 DEF ThreadStep, At, AddGetOrCreate, AddExists, AddPut, AddLocal, AddShard, AddOr,
       AddClear, RemoveFind, RemoveHas, RemoveDelete, RemoveLocal, RemoveShard, RemoveAnd,
       RemoveTest, RemoveMark, RangeLookup, RangeDone
  <2> QED
    BY <2>1, <2>2
<1>3. UNCHANGED LocalConnCount
  BY DEF ThreadStep, At, AddGetOrCreate, AddExists, AddReplace, AddPut, AddLocal, AddShard,
     AddOr, AddClear, RemoveFind, RemoveHas, RemoveDelete, RemoveLocal, RemoveShard, RemoveAnd,
     RemoveTest, RemoveMark, RangeLookup, RangeDone, counters
<1>4. th'[t].pc \notin {"local", "unlocal"}
  <2>1. th \in [Threads -> Call] /\ Idle.pc = "idle"
    BY DEF Typed, TypeOK, Idle
  <2>2. CASE AddReplace(t) \/ AddClear(t) \/ RemoveMark(t) \/ RangeDone(t)
    BY <2>1, <2>2, ReturnOnward DEF AddReplace, AddClear, RemoveMark, RangeDone
  <2>3. CASE AddExists(t) \/ AddShard(t) \/ AddOr(t) \/ RemoveShard(t) \/ RemoveAnd(t)
    BY <2>3, GoToTable DEF AddExists, AddShard, AddOr, RemoveShard, RemoveAnd, At, Steps
  <2>4. CASE RemoveHas(t) \/ RemoveTest(t)
    BY <2>1, <2>4, ReturnOnward, GoToTable DEF RemoveHas, RemoveTest, At, Steps
  <2>5. CASE RemoveFind(t) \/ RangeLookup(t)
    BY <2>1, <2>5 DEF RemoveFind, RangeLookup, At, Return, Call
  <2> QED
    BY <2>2, <2>3, <2>4, <2>5 DEF ThreadStep, AddGetOrCreate, AddPut, AddLocal, RemoveDelete,
       RemoveLocal, At
<1>5. ASSUME NEW c \in Conns, NEW o \in Objs PROVE CountedIn(c, o)' <=> CountedIn(c, o)
  BY <1>1, <1>2, <1>4, CountedKept, LoopThread DEF Onward
<1> QED
  BY <1>3, <1>5, SameRooms

\* A connection is put into its shard before it is counted, and taken out before it
\* is uncounted.
LEMMA WrittenRooms ==
  ASSUME Typed, OnLoop, Columns, RoomsExact, NEW t \in Threads, AddPut(t) \/ RemoveDelete(t)
  PROVE  RoomsExact'
<1>1. th[t].pc \in {"put", "delete"} /\ UNCHANGED LocalConnCount
  BY DEF AddPut, RemoveDelete, At, counters
<1>2. PICK p \in Objs, d \in Conns :
        /\ th[t].loop = t /\ th[t].obj = p /\ th[t].conn = d /\ LoopOf[d] = t /\ t \in Loops
  BY <1>1, CallHere DEF NoObjSteps, RangeSteps
<1>3. ShardOf(t) = Shards[p][t] /\ Shards[p][t] \in SUBSET Conns
  BY <1>2, ShardFinite DEF ShardOf
<1>4. /\ \A s \in Threads \ {t} : th'[s] = th[s]
      /\ th'[t].obj = p /\ th'[t].conn = d
      /\ \/ AddPut(t) /\ th'[t].pc = "local"
         \/ RemoveDelete(t) /\ th'[t].pc = "unlocal"
  BY <1>1, <1>2, GoToTable DEF AddPut, RemoveDelete, At, Steps, Onward
<1>5. PICK S \in SUBSET Conns :
        MapWrite(t, S) /\ S = IF AddPut(t) THEN Shards[p][t] \cup {d} ELSE Shards[p][t] \ {d}
  BY <1>1, <1>2, <1>3 DEF AddPut, RemoveDelete
<1>6. /\ Shards'[p][t] = S
      /\ \A o \in Objs, l \in Loops : o # p \/ l # t => Shards'[o][l] = Shards[o][l]
  BY <1>2, <1>5, WriteLands
<1>7. d \in Shards[p][t] <=> RemoveDelete(t)
  <2>1. Present(t)
    BY <1>2 DEF Columns
  <2>2. AddPut(t) => th[t].pc = "put"
    BY DEF AddPut, At
  <2>3. RemoveDelete(t) => th[t].pc = "delete"
    BY DEF RemoveDelete, At
  <2> QED
    BY <1>2, <1>3, <2>1, <2>2, <2>3 DEF Present
<1>8. ASSUME NEW c \in Conns, NEW o \in Objs PROVE CountedIn(c, o)' <=> CountedIn(c, o)
  <2>1. LoopOf[c] \in Loops /\ LoopOf[c] \in Threads
    BY LoopThread
  <2>2. CASE LoopOf[c] # t
    BY <1>4, <1>6, <2>1, <2>2 DEF CountedIn, About, Doing
  <2>3. CASE LoopOf[c] = t /\ o # p
    BY <1>2, <1>4, <1>6, <2>1, <2>3 DEF CountedIn, About, Doing
  <2>4. CASE LoopOf[c] = t /\ o = p /\ c # d
    <3>1. c \in S <=> c \in Shards[p][t]
      BY <1>5, <2>4
    <3> QED
      BY <1>2, <1>4, <1>6, <2>4, <3>1 DEF CountedIn, About, Doing
  <2>5. CASE o = p /\ c = d
    <3>1. CASE AddPut(t)
      <4>1. d \in S /\ d \notin Shards[p][t] /\ th[t].pc = "put" /\ th'[t].pc = "local"
        BY <1>4, <1>5, <1>7, <3>1 DEF AddPut, RemoveDelete, At
      <4> QED
        BY <1>2, <1>4, <1>6, <2>5, <4>1 DEF CountedIn, About, Doing
    <3>2. CASE RemoveDelete(t)
      <4>1. d \notin S /\ d \in Shards[p][t] /\ th[t].pc = "delete" /\ th'[t].pc = "unlocal"
        BY <1>4, <1>5, <1>7, <3>2 DEF AddPut, RemoveDelete, At
      <4> QED
        BY <1>2, <1>4, <1>6, <2>5, <4>1 DEF CountedIn, About, Doing
    <3> QED
      BY <3>1, <3>2
  <2> QED
    BY <2>2, <2>3, <2>4, <2>5
<1> QED
  BY <1>1, <1>8, SameRooms

\* The counter follows.
LEMMA CountingRooms ==
  ASSUME Typed, OnLoop, Columns, RoomsExact, NEW t \in Threads, AddLocal(t) \/ RemoveLocal(t)
  PROVE  RoomsExact'
<1>1. th[t].pc \in {"local", "unlocal"} /\ UNCHANGED Shards
  BY DEF AddLocal, RemoveLocal, At
<1>2. PICK p \in Objs, d \in Conns :
        /\ th[t].loop = t /\ th[t].obj = p /\ th[t].conn = d /\ LoopOf[d] = t /\ t \in Loops
  BY <1>1, CallHere DEF NoObjSteps, RangeSteps
<1>3. /\ \A s \in Threads \ {t} : th'[s] = th[s]
      /\ th'[t].obj = p /\ th'[t].conn = d
      /\ \/ AddLocal(t) /\ th[t].pc = "local" /\ th'[t].pc = "shard" /\ d \in Shards[p][t]
         \/ RemoveLocal(t) /\ th[t].pc = "unlocal" /\ th'[t].pc = "unshard" /\ d \notin Shards[p][t]
  <2>1. Present(t)
    BY <1>2 DEF Columns
  <2> QED
    BY <1>1, <1>2, <2>1, GoToTable DEF AddLocal, RemoveLocal, At, Steps, Onward, Present, ShardOf
<1>4. ASSUME NEW c \in Conns, NEW o \in Objs, c # d \/ o # p
      PROVE  CountedIn(c, o)' <=> CountedIn(c, o)
  <2>1. LoopOf[c] \in Threads
    BY LoopThread
  <2>2. CASE LoopOf[c] # t
    BY <1>1, <1>3, <2>1, <2>2 DEF CountedIn, About, Doing
  <2>3. CASE LoopOf[c] = t
    BY <1>1, <1>2, <1>3, <1>4, <2>3 DEF CountedIn, About, Doing
  <2> QED
    BY <2>2, <2>3
<1>5. ASSUME NEW o \in Objs, o # p PROVE LocalConnCount'[o] = Cardinality(RoomCounted(o)')
  <2>1. RoomCounted(o)' = RoomCounted(o)
    BY <1>4, <1>5 DEF RoomCounted
  <2>2. LocalConnCount'[o] = LocalConnCount[o]
    BY <1>2, <1>3, <1>5 DEF AddLocal, RemoveLocal, Typed, TypeOK
  <2> QED
    BY <2>1, <2>2 DEF RoomsExact
<1>6. LocalConnCount[p] = Cardinality(RoomCounted(p)) /\ IsFiniteSet(RoomCounted(p))
  BY RoomFinite DEF RoomsExact
<1>7. CASE AddLocal(t)
  <2>0. th[t].pc = "local" /\ th'[t].pc = "shard" /\ d \in Shards[p][t]
    BY <1>3, <1>7 DEF AddLocal, RemoveLocal, At
  <2>1. LocalConnCount'[p] = LocalConnCount[p] + 1
    BY <1>2, <1>7 DEF AddLocal, Typed, TypeOK
  <2>2. ~CountedIn(d, p) /\ CountedIn(d, p)'
    BY <1>1, <1>2, <1>3, <2>0 DEF CountedIn, About, Doing
  <2>3. RoomCounted(p)' = RoomCounted(p) \cup {d} /\ d \notin RoomCounted(p)
    BY <1>4, <2>2 DEF RoomCounted
  <2>4. LocalConnCount'[p] = Cardinality(RoomCounted(p)')
    BY <1>6, <2>1, <2>3, FS_AddElement
  <2> QED
    BY <1>5, <2>4 DEF RoomsExact
<1>8. CASE RemoveLocal(t)
  <2>0. th[t].pc = "unlocal" /\ th'[t].pc = "unshard" /\ d \notin Shards[p][t]
    BY <1>3, <1>8 DEF AddLocal, RemoveLocal, At
  <2>1. LocalConnCount'[p] = LocalConnCount[p] - 1
    BY <1>2, <1>8 DEF RemoveLocal, Typed, TypeOK
  <2>2. CountedIn(d, p) /\ ~CountedIn(d, p)'
    BY <1>1, <1>2, <1>3, <2>0 DEF CountedIn, About, Doing
  <2>3. RoomCounted(p)' = RoomCounted(p) \ {d} /\ d \in RoomCounted(p)
    BY <1>4, <2>2 DEF RoomCounted
  <2>4. LocalConnCount'[p] = Cardinality(RoomCounted(p)')
    BY <1>6, <2>1, <2>3, FS_RemoveElement
  <2> QED
    BY <1>5, <2>4 DEF RoomsExact
<1> QED
  BY <1>7, <1>8

LEMMA FetchedRooms ==
  ASSUME Typed, OnLoop, RoomsExact, NEW t \in Threads, AddGetOrCreate(t)
  PROVE  RoomsExact'
<1>1. PICK p \in Objs : /\ Fetches(t, p) \/ Creates(t, p)
                       /\ Onward(t) /\ th'[t].pc = "exists" /\ th'[t].obj = p
  BY GetOrCreateGives
<1>2. th[t].pc = "get"
  BY DEF AddGetOrCreate, At
<1>3. ASSUME NEW c \in Conns, NEW o \in Objs, Shards'[o][LoopOf[c]] = Shards[o][LoopOf[c]]
      PROVE  CountedIn(c, o)' <=> CountedIn(c, o)
  BY <1>1, <1>2, <1>3, CountedKept DEF Onward
<1>4. CASE Fetches(t, p)
  BY <1>3, <1>4, SameRooms DEF Fetches, counters
<1>5. CASE Creates(t, p)
  <2>1. ASSUME NEW o \in Objs, o # p PROVE LocalConnCount'[o] = Cardinality(RoomCounted(o)')
    <3>1. Shards'[o] = Shards[o] /\ LocalConnCount'[o] = LocalConnCount[o]
      BY <1>5, <2>1 DEF Creates, Typed, TypeOK
    <3>2. RoomCounted(o)' = RoomCounted(o)
      BY <1>3, <3>1 DEF RoomCounted
    <3> QED
      BY <3>1, <3>2 DEF RoomsExact
  <2>2. ASSUME NEW c \in Conns PROVE ~CountedIn(c, p)'
    <3>1. LoopOf[c] \in Loops /\ LoopOf[c] \in Threads
      BY LoopThread
    <3>2. Shards'[p][LoopOf[c]] = {}
      BY <1>5, <3>1, CreatesFresh DEF FreshColumn
    <3>3. th'[LoopOf[c]].obj = p => LoopOf[c] = t
      BY <1>1, <1>5, <3>1 DEF Onward, Creates, Free
    <3> QED
      BY <1>1, <3>2, <3>3 DEF CountedIn, About, Doing
  <2>3. RoomCounted(p)' = {} /\ LocalConnCount'[p] = 0
    BY <1>5, <2>2 DEF RoomCounted, Creates, Typed, TypeOK
  <2> QED
    BY <2>1, <2>3, FS_EmptySet DEF RoomsExact
<1> QED
  BY <1>1, <1>4, <1>5

LEMMA InitRooms == Init => RoomsExact
<1> SUFFICES ASSUME Init, NEW o \in Objs PROVE LocalConnCount[o] = Cardinality(RoomCounted(o))
  BY DEF RoomsExact
<1>1. ASSUME NEW c \in Conns PROVE ~CountedIn(c, o)
  BY LoopThread DEF Init, CountedIn, About, Doing, Idle
<1>2. RoomCounted(o) = {}
  BY <1>1 DEF RoomCounted
<1> QED
  BY <1>2, FS_EmptySet DEF Init

LEMMA NextRooms ==
  ASSUME addOnLoop, Typed, OnLoop, Columns, RoomsExact, [Next]_vars
  PROVE  RoomsExact'
<1>1. CASE UNCHANGED <<th, Shards, LocalConnCount>>
  BY <1>1, SameRooms DEF CountedIn, About, Doing
<1>2. ASSUME NEW t \in Threads, NEW pc \in {"get", "find", "lookup"}, NEW r, NEW c, NEW l,
             Begun(t, pc, r, c, l), UNCHANGED <<Shards, LocalConnCount>>
      PROVE  RoomsExact'
  <2>1. /\ th[t].pc \notin {"local", "unlocal"} /\ th'[t].pc \notin {"local", "unlocal"}
        /\ \A s \in Threads \ {t} : th'[s] = th[s]
    BY <1>2 DEF Begun, Idle
  <2> QED
    BY <1>2, <2>1, CountedKept, SameRooms
<1>3. ASSUME NEW t \in Threads, NEW r \in Rooms, NEW c \in Conns, AddConnInLoop(t, r, c)
      PROVE  RoomsExact'
  BY <1>2, <1>3, AddBegins DEF AddConnInLoop, counters
<1>4. ASSUME NEW c \in Conns, RemoveConnInLoop(c) PROVE RoomsExact'
  BY <1>2, <1>4, LoopThread, RemoveBegins DEF RemoveConnInLoop, counters
<1>5. ASSUME NEW t \in Threads, NEW r \in Rooms, NEW l \in Loops, RangeLoopConns(t, r, l)
      PROVE  RoomsExact'
  BY <1>5 DEF RangeLoopConns
<1>6. ASSUME NEW t \in Threads, Fatal(t) PROVE RoomsExact'
  BY <1>1, <1>6 DEF Fatal, counters
<1>7. ASSUME NEW t \in Threads, ThreadStep(t) PROVE RoomsExact'
  <2>1. CASE AddGetOrCreate(t)
    BY <2>1, FetchedRooms
  <2>2. CASE AddPut(t) \/ RemoveDelete(t)
    BY <2>2, WrittenRooms
  <2>3. CASE AddLocal(t) \/ RemoveLocal(t)
    BY <2>3, CountingRooms
  <2>4. CASE th[t].pc \notin {"get", "put", "local", "delete", "unlocal"}
    BY <1>7, <2>4, QuietRooms
  <2> QED
    BY <1>7, <2>1, <2>2, <2>3, <2>4 DEF ThreadStep, At, AddExists, AddReplace, AddShard, AddOr,
       AddClear, RemoveFind, RemoveHas, RemoveShard, RemoveAnd, RemoveTest, RemoveMark,
       RangeLookup, RangeDone
<1>8. CASE CleanerStep \/ (\E o \in Objs : Age(o)) \/ \E c \in Conns : CloseUnjoined(c)
  BY <1>1, <1>8, CleanerTyped, CloseTyped
<1>9. CASE UNCHANGED vars
  BY <1>1, <1>9 DEF vars
<1> QED
  BY <1>3, <1>4, <1>5, <1>6, <1>7, <1>8, <1>9 DEF Next

LEMMA RoomsCountExact == RoomsExact => LocalCountExact
<1> SUFFICES ASSUME RoomsExact, Quiet, NEW o \in Objs
             PROVE  LocalConnCount[o] = Cardinality(Members(o))
  BY DEF LocalCountExact
<1>1. ASSUME NEW c \in Conns PROVE CountedIn(c, o) <=> c \in Shards[o][LoopOf[c]]
  BY LoopThread DEF CountedIn, About, Doing, Quiet
<1>2. RoomCounted(o) = Members(o)
  BY <1>1 DEF RoomCounted, Members
<1> QED
  BY <1>2 DEF RoomsExact

\* Under the contract, with no call in progress a room's counter is the number of
\* its connections over all shards, so ConnCount and HasLocalRoom tell the truth
\* (manager.go:163-170, 203-210).
THEOREM LocalCountSafe == Spec => []LocalCountExact
<1> DEFINE I == Typed /\ (addOnLoop => OnLoop /\ Columns /\ RoomsExact)
<1>1. Init => I
  BY InitTyped, InitOnLoop, InitColumns, InitRooms
<1>2. I /\ [Next]_vars => I'
  BY FlagKept, NextTyped, NextOnLoop, NextColumns, NextRooms
<1>3. I => LocalCountExact
  BY RoomsCountExact DEF LocalCountExact
<1> QED
  BY <1>1, <1>2, <1>3, PTL DEF Spec

-----------------------------------------------------------------------------
(* What a step of a call does to the index, in six kinds. *)

Has(c, o) == c \in Shards[o][LoopOf[c]]
SameHas == \A c \in Conns, o \in Objs : Has(c, o)' <=> Has(c, o)

SameCall(t) ==
  /\ th'[t].conn = th[t].conn /\ th'[t].room = th[t].room
  /\ th'[t].pc \in AddSteps <=> th[t].pc \in AddSteps
  /\ th'[t].pc \in RemoveSteps <=> th[t].pc \in RemoveSteps
  /\ th'[t].pc \notin NoObjSteps

\* The lookup finds the room.
Looks(t, o) ==
  /\ th[t].pc \in {"get", "find", "lookup"} /\ th[t].room \in Rooms
  /\ rooms[th[t].room] = o /\ th'[t].obj = o
  /\ SameCall(t) /\ UNCHANGED rooms /\ SameHas

\* GetOrCreate makes it.
Makes(t, o) ==
  /\ th[t].pc = "get" /\ th[t].room \in Rooms /\ ~Locked(th[t].room)
  /\ rooms[th[t].room] = NULL /\ Free(o) /\ th'[t].obj = o
  /\ rooms'[th[t].room] = o /\ \A r \in Rooms : r # th[t].room => rooms'[r] = rooms[r]
  /\ \A c \in Conns : ~Has(c, o)'
  /\ \A c \in Conns, q \in Objs : q # o => (Has(c, q)' <=> Has(c, q))
  /\ SameCall(t)

Here(t, o, d) ==
  /\ th[t].obj = o /\ th[t].conn = d /\ LoopOf[d] = t /\ th[t].room \in Rooms
  /\ th'[t].obj = o /\ SameCall(t) /\ UNCHANGED rooms

Puts(t, o, d) ==
  /\ th[t].pc = "put" /\ th'[t].pc = "local" /\ Here(t, o, d) /\ ~Has(d, o)
  /\ \A c \in Conns, q \in Objs : Has(c, q)' <=> Has(c, q) \/ (c = d /\ q = o)

Deletes(t, o, d) ==
  /\ th[t].pc = "delete" /\ th'[t].pc = "unlocal" /\ Here(t, o, d) /\ Has(d, o)
  /\ \A c \in Conns, q \in Objs : Has(c, q)' <=> Has(c, q) /\ ~(c = d /\ q = o)

\* A call that added its connection leaves it in the shard.
Ends(t) ==
  /\ th'[t] = Idle /\ UNCHANGED rooms /\ SameHas
  /\ th[t].pc \in AddSteps => th[t].pc # "get" /\ Has(th[t].conn, th[t].obj)

Moves(t) ==
  /\ th'[t].obj = th[t].obj /\ th[t].pc \notin NoObjSteps
  /\ SameCall(t) /\ UNCHANGED rooms /\ SameHas

Kinds(t) ==
  \/ \E o \in Objs : Looks(t, o) \/ Makes(t, o)
  \/ \E o \in Objs, d \in Conns : Puts(t, o, d) \/ Deletes(t, o, d)
  \/ Ends(t) \/ Moves(t)

LEMMA SameShards ==
  ASSUME UNCHANGED Shards
  PROVE  SameHas
BY DEF SameHas, Has

LEMMA LookKind ==
  ASSUME Typed, NEW t \in Threads, NEW pc \in {"exists", "has", "range"},
         \/ th[t].pc = "get" /\ pc = "exists"
         \/ th[t].pc = "find" /\ pc = "has"
         \/ th[t].pc = "lookup" /\ pc = "range",
         rooms[th[t].room] # NULL, UNCHANGED <<rooms, Shards>>,
         th' = [th EXCEPT ![t].obj = rooms[th[t].room], ![t].pc = pc]
  PROVE  Kinds(t)
<1>1. th[t].room \in Rooms
  BY DEF Typed, CallsSound, CallSound, AddSteps, RemoveSteps, RangeSteps
<1> DEFINE o == rooms[th[t].room]
<1>2. o \in Objs
  BY <1>1 DEF Typed, TypeOK
<1>3. /\ th'[t].pc = pc /\ th'[t].obj = o
      /\ th'[t].conn = th[t].conn /\ th'[t].room = th[t].room
  BY <1>2, FetchOnward DEF RangeSteps
<1>4. SameCall(t)
  BY <1>3 DEF SameCall, AddSteps, RemoveSteps, NoObjSteps
<1>5. Looks(t, o)
  BY <1>1, <1>3, <1>4, SameShards DEF Looks
<1> QED
  BY <1>2, <1>5 DEF Kinds

LEMMA GetKind ==
  ASSUME Typed, NEW t \in Threads, AddGetOrCreate(t)
  PROVE  Kinds(t)
<1>1. th[t].pc = "get" /\ ~Locked(th[t].room)
  BY DEF AddGetOrCreate, At
<1>2. PICK o \in Objs :
        /\ Fetches(t, o) \/ Creates(t, o)
        /\ th'[t].pc = "exists" /\ th'[t].obj = o /\ th'[t].conn = th[t].conn
        /\ th'[t].room = th[t].room
  BY GetOrCreateGives
<1>3. th[t].room \in Rooms
  BY <1>1 DEF Typed, CallsSound, CallSound, AddSteps
<1>4. SameCall(t)
  BY <1>1, <1>2 DEF SameCall, AddSteps, RemoveSteps, NoObjSteps
<1>5. CASE Fetches(t, o)
  <2>1. Looks(t, o)
    BY <1>1, <1>2, <1>3, <1>4, <1>5, SameShards DEF Looks, Fetches
  <2> QED
    BY <2>1 DEF Kinds
<1>6. CASE Creates(t, o)
  <2>1. /\ rooms'[th[t].room] = o /\ \A r \in Rooms : r # th[t].room => rooms'[r] = rooms[r]
        /\ rooms[th[t].room] = NULL /\ Free(o)
    BY <1>3, <1>6 DEF Creates, Typed, TypeOK
  <2>2. ASSUME NEW c \in Conns
        PROVE  ~Has(c, o)' /\ \A q \in Objs : q # o => (Has(c, q)' <=> Has(c, q))
    <3>1. LoopOf[c] \in Loops
      BY LoopThread
    <3> QED
      BY <1>6, <3>1, CreatesFresh DEF Has, FreshColumn, SameColumn
  <2>3. Makes(t, o)
    BY <1>1, <1>2, <1>3, <1>4, <2>1, <2>2 DEF Makes
  <2> QED
    BY <2>3 DEF Kinds
<1> QED
  BY <1>2, <1>5, <1>6

LEMMA WriteKind ==
  ASSUME Typed, OnLoop, Columns, NEW t \in Threads, AddPut(t) \/ RemoveDelete(t)
  PROVE  \E o \in Objs, d \in Conns : IF AddPut(t) THEN Puts(t, o, d) ELSE Deletes(t, o, d)
<1>1. /\ th[t].pc \in {"put", "delete"} /\ UNCHANGED rooms
      /\ AddPut(t) <=> th[t].pc = "put"
  BY DEF AddPut, RemoveDelete, At
<1>2. PICK p \in Objs, d \in Conns :
        /\ th[t].loop = t /\ th[t].obj = p /\ th[t].conn = d /\ LoopOf[d] = t /\ t \in Loops
        /\ th[t].room \in Rooms
  BY <1>1, CallHere, CallTyped DEF NoObjSteps, RangeSteps
<1>3. ShardOf(t) = Shards[p][t] /\ Shards[p][t] \in SUBSET Conns
  BY <1>2, ShardFinite DEF ShardOf
<1>4. /\ th'[t].obj = p /\ th'[t].conn = d /\ th'[t].room = th[t].room
      /\ th'[t].pc = IF AddPut(t) THEN "local" ELSE "unlocal"
  BY <1>1, <1>2, GoToTable DEF AddPut, RemoveDelete, At, Steps
<1>5. Here(t, p, d)
  BY <1>1, <1>2, <1>4 DEF Here, SameCall, AddSteps, RemoveSteps, NoObjSteps
<1>6. PICK S \in SUBSET Conns :
        MapWrite(t, S) /\ S = IF AddPut(t) THEN Shards[p][t] \cup {d} ELSE Shards[p][t] \ {d}
  BY <1>1, <1>2, <1>3 DEF AddPut, RemoveDelete
<1>7. /\ Shards'[p][t] = S
      /\ \A o \in Objs, l \in Loops : o # p \/ l # t => Shards'[o][l] = Shards[o][l]
  BY <1>2, <1>6, WriteLands
<1>8. Has(d, p) <=> ~AddPut(t)
  BY <1>1, <1>2, <1>3 DEF Columns, Present, Has
<1>9. ASSUME NEW c \in Conns, NEW q \in Objs
      PROVE  Has(c, q)' <=> IF AddPut(t) THEN Has(c, q) \/ (c = d /\ q = p)
                            ELSE Has(c, q) /\ ~(c = d /\ q = p)
  BY <1>2, <1>6, <1>7, LoopThread DEF Has
<1>10. CASE AddPut(t)
  BY <1>1, <1>4, <1>5, <1>8, <1>9, <1>10 DEF Puts
<1>11. CASE ~AddPut(t)
  BY <1>1, <1>4, <1>5, <1>8, <1>9, <1>11 DEF Deletes
<1> QED
  BY <1>10, <1>11

LEMMA ReplaceKeeps ==
  ASSUME Typed, OnLoop, Columns, NEW t \in Threads, AddReplace(t)
  PROVE  \A o \in Objs, l \in Loops : Shards'[o][l] = Shards[o][l]
<1>1. t \in Loops /\ th[t].loop = t /\ th[t].obj \in Objs /\ th[t].conn \in Conns
  BY CallHere DEF AddReplace, At, NoObjSteps, RangeSteps
<1>2. th[t].conn \in ShardOf(t) /\ ShardOf(t) = Shards[th[t].obj][t]
  BY <1>1 DEF AddReplace, At, Columns, Present, ShardOf
<1>3. ShardOf(t) \cup {th[t].conn} = ShardOf(t) /\ ShardOf(t) \in SUBSET Conns
  BY <1>1, <1>2, ShardFinite
<1>4. MapWrite(t, ShardOf(t))
  BY <1>3 DEF AddReplace
<1> QED
  BY <1>1, <1>2, <1>3, <1>4, WriteLands

LEMMA EndKind ==
  ASSUME Typed, OnLoop, Columns, NEW t \in Threads, Return(t), UNCHANGED rooms,
         th[t].pc \in RemoveSteps \cup RangeSteps \cup {"replace", "clear"},
         \A o \in Objs, l \in Loops : Shards'[o][l] = Shards[o][l]
  PROVE  Kinds(t)
<1>1. th'[t] = Idle
  BY ReturnOnward
<1>2. SameHas
  BY LoopThread DEF SameHas, Has
<1>3. ASSUME th[t].pc \in AddSteps PROVE th[t].pc # "get" /\ Has(th[t].conn, th[t].obj)
  <2>1. th[t].pc \in {"replace", "clear"}
    BY <1>3 DEF AddSteps, RemoveSteps, RangeSteps
  <2>2. t \in Loops /\ th[t].loop = t /\ LoopOf[th[t].conn] = t
    BY <2>1, CallHere DEF NoObjSteps, RangeSteps
  <2> QED
    BY <2>1, <2>2 DEF Columns, Present, ShardOf, Has
<1> QED
  BY <1>1, <1>2, <1>3 DEF Ends, Kinds

LEMMA MoveKind ==
  ASSUME Typed, NEW t \in Threads, NEW pc \in Steps, GoTo(t, pc), UNCHANGED <<rooms, Shards>>,
         \/ th[t].pc \in AddSteps \ {"get"} /\ pc \in AddSteps \ {"get"}
         \/ th[t].pc \in RemoveSteps \ {"find"} /\ pc \in RemoveSteps \ {"find"}
  PROVE  Kinds(t)
<1>1. pc \notin NoObjSteps \cup RangeSteps /\ th[t].pc \notin NoObjSteps \cup RangeSteps
  BY DEF NoObjSteps, RangeSteps, AddSteps, RemoveSteps
<1>2. /\ th'[t].pc = pc /\ th'[t].obj = th[t].obj /\ th'[t].conn = th[t].conn
      /\ th'[t].room = th[t].room
  BY <1>1, GoToOnward
<1>3. SameCall(t)
  BY <1>1, <1>2 DEF SameCall, AddSteps, RemoveSteps
<1> QED
  BY <1>1, <1>2, <1>3, SameShards DEF Moves, Kinds

LEMMA StepKinds ==
  ASSUME Typed, OnLoop, Columns, NEW t \in Threads, ThreadStep(t)
  PROVE  Kinds(t) /\ Onward(t) /\ UNCHANGED <<sweep, seat, orphaned>> /\ th[t].pc # "idle"
<1>1. Onward(t) /\ UNCHANGED <<sweep, seat, orphaned>> /\ th[t].pc # "idle"
  BY StepOnward DEF ThreadStep, At, AddGetOrCreate, AddExists, AddReplace, AddPut, AddLocal,
     AddShard, AddOr, AddClear, RemoveFind, RemoveHas, RemoveDelete, RemoveLocal, RemoveShard,
     RemoveAnd, RemoveTest, RemoveMark, RangeLookup, RangeDone
<1>2. ASSUME AddGetOrCreate(t) PROVE Kinds(t)
  BY <1>2, GetKind
<1>3. ASSUME AddPut(t) \/ RemoveDelete(t) PROVE Kinds(t)
  BY <1>3, WriteKind DEF Kinds
<1>4. ASSUME AddReplace(t) PROVE Kinds(t)
  BY <1>4, ReplaceKeeps, EndKind DEF AddReplace, At
<1>5. ASSUME AddClear(t) \/ RemoveMark(t) \/ RangeDone(t) PROVE Kinds(t)
  BY <1>5, EndKind DEF AddClear, RemoveMark, RangeDone, At, RemoveSteps, RangeSteps
<1>6. ASSUME AddExists(t) \/ AddLocal(t) \/ AddShard(t) \/ AddOr(t) PROVE Kinds(t)
  BY <1>6, MoveKind DEF AddExists, AddLocal, AddShard, AddOr, At, AddSteps, Steps
<1>7. ASSUME RemoveLocal(t) \/ RemoveShard(t) \/ RemoveAnd(t) PROVE Kinds(t)
  BY <1>7, MoveKind DEF RemoveLocal, RemoveShard, RemoveAnd, At, RemoveSteps, Steps
<1>8. ASSUME RemoveHas(t) \/ RemoveTest(t) PROVE Kinds(t)
  BY <1>8, MoveKind, EndKind DEF RemoveHas, RemoveTest, At, RemoveSteps, Steps
<1>9. ASSUME RemoveFind(t) PROVE Kinds(t)
  BY <1>9, LookKind, EndKind DEF RemoveFind, At, RemoveSteps
<1>10. ASSUME RangeLookup(t) PROVE Kinds(t)
  BY <1>10, LookKind, EndKind DEF RangeLookup, At, RangeSteps
<1> QED
  BY <1>1, <1>2, <1>3, <1>4, <1>5, <1>6, <1>7, <1>8, <1>9, <1>10 DEF ThreadStep

-----------------------------------------------------------------------------
(* Buckets, seats and listings. *)

Lists(r, c) == rooms[r] # NULL /\ Has(c, rooms[r])

\* A room object is in one bucket.
OneBucket == \A q, r \in Rooms : rooms[q] = rooms[r] /\ rooms[q] # NULL => q = r

\* The object a call has fetched is, if still indexed, that of the call's room.
Fetched ==
  \A t \in Threads, r \in Rooms :
    rooms[r] # NULL /\ th[t].obj = rooms[r] => th[t].room = r

\* The cleaner holds the lock of a room that is there.
Swept == sweep.pc # "idle" => sweep.room \in Rooms /\ rooms[sweep.room] # NULL

\* A connection being added is seated in the room of the call, or gone; one being
\* removed is gone.
Seats ==
  \A c \in Conns : Doing(c).conn = c =>
    /\ Doing(c).pc \in AddSteps => seat[c] \in {Doing(c).room, GONE}
    /\ Doing(c).pc \in RemoveSteps => seat[c] = GONE

\* The cleaner is about to collect a room only if a call has put each of its
\* connections there since the room was last counted empty.
Counting == {"local", "shard", "or", "clear"}
Collectable ==
  \A r \in Rooms :
    /\ sweep.pc = "time" /\ sweep.room = r /\ rooms[r] # NULL
    /\ LastEmptyTime[rooms[r]] = "expired"
    => \A c \in Conns : Has(c, rooms[r]) => About(c, rooms[r], Counting)

\* A connection that was added is listed, or its call is on the way to list it.
JoinKept ==
  \A c \in Conns : seat[c] \in Rooms /\ c \notin orphaned =>
    IF Doing(c).conn = c
    THEN Doing(c).pc # "get" => rooms[seat[c]] = Doing(c).obj
    ELSE Lists(seat[c], c)

Core == Typed /\ OnLoop /\ Columns /\ RoomsExact
Placing == OneBucket /\ Fetched /\ Swept /\ Seats /\ Collectable /\ JoinKept

LEMMA BusyDoing ==
  Typed /\ OnLoop => \A c \in Conns : BusyWith(c) <=> Doing(c).conn = c
<1> SUFFICES ASSUME Typed, OnLoop, NEW c \in Conns
             PROVE  BusyWith(c) <=> Doing(c).conn = c
  OBVIOUS
<1>1. LoopOf[c] \in Threads /\ c # NULL
  BY LoopThread, NullAssumption
<1>2. ASSUME Doing(c).conn = c PROVE BusyWith(c)
  <2>1. th[LoopOf[c]].pc # "idle"
    BY <1>1, <1>2 DEF Doing, Typed, CallsSound, CallSound, Idle
  <2> QED
    BY <1>1, <1>2, <2>1 DEF BusyWith, Doing
<1>3. ASSUME NEW t \in Threads, th[t].pc # "idle", th[t].conn = c PROVE Doing(c).conn = c
  <2>1. th[t] \in Call /\ CallSound(th[t]) /\ th[t].loop = t
    BY <1>3 DEF Typed, TypeOK, CallsSound, OnLoop
  <2>2. th[t].pc \in AddSteps \cup RemoveSteps
    BY <1>1, <1>3, <2>1 DEF Call, Steps, CallSound, AddSteps, RemoveSteps, RangeSteps
  <2> QED
    BY <1>3, <2>1, <2>2 DEF CallSound, Doing
<1> QED
  BY <1>2, <1>3 DEF BusyWith

LEMMA DoingKind ==
  ASSUME Typed, NEW c \in Conns, Doing(c).conn = c
  PROVE  Doing(c).pc \in AddSteps \cup RemoveSteps /\ Doing(c).room \in Rooms
<1>1. LoopOf[c] \in Threads /\ c # NULL
  BY LoopThread, NullAssumption
<1>2. Doing(c) \in Call /\ CallSound(Doing(c))
  BY <1>1 DEF Doing, Typed, TypeOK, CallsSound
<1> QED
  BY <1>1, <1>2 DEF CallSound, Call, Steps, AddSteps, RemoveSteps, RangeSteps, Idle

\* Every step of the index, as what it changes.
Adds(c, r) ==
  /\ Doing(c) = Idle
  /\ Begun(LoopOf[c], "get", r, c, LoopOf[c])
  /\ seat'[c] \in {r, GONE} /\ \A d \in Conns \ {c} : seat'[d] = seat[d]
  /\ orphaned' = orphaned \ {c}
  /\ UNCHANGED <<rooms, Shards, LastEmptyTime, sweep>>

Removes(c) ==
  /\ Doing(c) = Idle /\ seat[c] \in Rooms
  /\ Begun(LoopOf[c], "find", seat[c], c, LoopOf[c])
  /\ seat'[c] = GONE /\ \A d \in Conns \ {c} : seat'[d] = seat[d]
  /\ UNCHANGED <<rooms, Shards, LastEmptyTime, sweep, orphaned>>

Skips(c) ==
  /\ seat'[c] = GONE /\ \A d \in Conns \ {c} : seat'[d] = seat[d]
  /\ UNCHANGED <<rooms, Shards, LastEmptyTime, th, sweep, orphaned>>

Collects(r) ==
  /\ sweep.pc = "time" /\ sweep.room = r /\ rooms[r] # NULL
  /\ LastEmptyTime[rooms[r]] = "expired"
  /\ rooms'[r] = NULL /\ \A q \in Rooms \ {r} : rooms'[q] = rooms[q]
  /\ orphaned' = orphaned \cup
       {c \in Conns : \E t \in Threads : th[t].conn = c /\ th[t].obj = rooms[r]}
  /\ sweep' = NoSweep
  /\ UNCHANGED <<Shards, LastEmptyTime, th, seat>>

Still == UNCHANGED <<rooms, Shards, th, seat, orphaned>>

LEMMA NextKinds ==
  ASSUME addOnLoop, Typed, OnLoop, Swept, [Next]_vars
  PROVE  \/ \E c \in Conns, r \in Rooms : Adds(c, r)
         \/ \E c \in Conns : Removes(c)
         \/ \E c \in Conns : Skips(c)
         \/ \E t \in Threads : ThreadStep(t)
         \/ \E r \in Rooms : Collects(r)
         \/ Still
<1>1. ASSUME NEW t \in Threads, NEW r \in Rooms, NEW c \in Conns, AddConnInLoop(t, r, c)
      PROVE  Adds(c, r)
  <2>1. t = LoopOf[c] /\ Begun(t, "get", r, c, LoopOf[c])
    BY <1>1, AddBegins DEF AddConnInLoop, Adders
  <2>2. Doing(c) = Idle
    BY <2>1 DEF Begun, Doing
  <2>3. seat'[c] \in {r, GONE} /\ \A d \in Conns \ {c} : seat'[d] = seat[d]
    BY <1>1 DEF AddConnInLoop, Typed, TypeOK
  <2> QED
    BY <1>1, <2>1, <2>2, <2>3 DEF AddConnInLoop, Adds, counters
<1>2. ASSUME NEW c \in Conns, RemoveConnInLoop(c) PROVE Removes(c)
  <2>1. Begun(LoopOf[c], "find", seat[c], c, LoopOf[c])
    BY <1>2, RemoveBegins
  <2>2. Doing(c) = Idle
    BY <2>1 DEF Begun, Doing
  <2>3. seat'[c] = GONE /\ \A d \in Conns \ {c} : seat'[d] = seat[d]
    BY <1>2 DEF RemoveConnInLoop, Typed, TypeOK
  <2> QED
    BY <1>2, <2>1, <2>2, <2>3 DEF RemoveConnInLoop, Removes, counters
<1>3. ASSUME NEW t \in Threads, NEW r \in Rooms, NEW l \in Loops, RangeLoopConns(t, r, l)
      PROVE  FALSE
  BY <1>3 DEF RangeLoopConns
<1>4. ASSUME NEW t \in Threads, Fatal(t) PROVE Still
  BY <1>4 DEF Fatal, Still
<1>5. ASSUME CleanDelete PROVE Still \/ \E r \in Rooms : Collects(r)
  <2>1. sweep.room \in Rooms /\ rooms[sweep.room] # NULL /\ sweep.pc = "time"
    BY <1>5 DEF CleanDelete, Swept
  <2>2. CASE LastEmptyTime[rooms[sweep.room]] = "expired"
    <3>1. /\ rooms'[sweep.room] = NULL
          /\ \A q \in Rooms \ {sweep.room} : rooms'[q] = rooms[q]
      BY <1>5, <2>1, <2>2 DEF CleanDelete, Collect, Typed, TypeOK
    <3>2. Collects(sweep.room)
      BY <1>5, <2>1, <2>2, <3>1 DEF CleanDelete, Collect, Collects, counters
    <3> QED
      BY <2>1, <3>2
  <2>3. CASE LastEmptyTime[rooms[sweep.room]] # "expired"
    BY <1>5, <2>3 DEF CleanDelete, Still
  <2> QED
    BY <2>2, <2>3
<1>6. ASSUME CleanCount \/ (\E r \in Rooms : CleanLock(r)) \/ \E o \in Objs : Age(o)
      PROVE  Still
  BY <1>6 DEF CleanCount, CleanLock, Age, Still
<1>7. CASE UNCHANGED vars
  BY <1>7 DEF vars, Still
<1>8. ASSUME NEW c \in Conns, CloseUnjoined(c) PROVE Skips(c)
  BY <1>8, CloseTyped DEF Skips
<1> QED
  BY <1>1, <1>2, <1>3, <1>4, <1>5, <1>6, <1>7, <1>8 DEF Next, CleanerStep

SameLists == \A r \in Rooms, c \in Conns : Lists(r, c)' <=> Lists(r, c)

LEMMA RoomObject ==
  ASSUME Typed, NEW r \in Rooms, rooms[r] # NULL
  PROVE  rooms[r] \in Objs
BY DEF Typed, TypeOK

LEMMA SameListed ==
  ASSUME Typed, UNCHANGED rooms, SameHas
  PROVE  SameLists
BY RoomObject DEF SameLists, Lists, SameHas

LEMMA MadeListed ==
  ASSUME Typed, NEW t \in Threads, NEW o \in Objs, Makes(t, o)
  PROVE  SameLists
<1> SUFFICES ASSUME NEW r \in Rooms, NEW c \in Conns PROVE Lists(r, c)' <=> Lists(r, c)
  BY DEF SameLists
<1>1. CASE r = th[t].room
  BY <1>1 DEF Makes, Lists
<1>2. CASE r # th[t].room
  <2>1. rooms'[r] = rooms[r] /\ rooms[r] # o
    BY <1>2 DEF Makes, Free
  <2> QED
    BY <2>1, RoomObject DEF Makes, Lists
<1> QED
  BY <1>1, <1>2

LEMMA PutListed ==
  ASSUME Typed, NEW t \in Threads, NEW o \in Objs, NEW d \in Conns, Puts(t, o, d),
         NEW r \in Rooms, NEW c \in Conns
  PROVE  Lists(r, c)' <=> Lists(r, c) \/ (c = d /\ rooms[r] = o)
BY RoomObject, NullAssumption DEF Puts, Here, Lists

LEMMA DeleteListed ==
  ASSUME Typed, NEW t \in Threads, NEW o \in Objs, NEW d \in Conns, Deletes(t, o, d),
         NEW r \in Rooms, NEW c \in Conns
  PROVE  Lists(r, c)' <=> Lists(r, c) /\ ~(c = d /\ rooms[r] = o)
BY RoomObject DEF Deletes, Here, Lists

LEMMA CollectListed ==
  ASSUME NEW q \in Rooms, Collects(q), NEW r \in Rooms, NEW c \in Conns
  PROVE  Lists(r, c)' <=> Lists(r, c) /\ r # q
BY DEF Collects, Lists, Has

\* A call goes on about its connection and room.
LEMMA DoingOn ==
  ASSUME Typed, NEW t \in Threads, Onward(t), NEW c \in Conns, Doing(c)'.conn = c
  PROVE  Doing(c).conn = c /\ Doing(c)'.room = Doing(c).room
BY LoopThread, NullAssumption DEF Onward, Doing, Idle

-----------------------------------------------------------------------------
LEMMA InitPlacing == Init => Placing
<1> SUFFICES ASSUME Init PROVE Placing
  OBVIOUS
<1>1. \A r \in Rooms : rooms[r] = NULL
  BY DEF Init
<1>2. \A c \in Conns : Doing(c).conn # c /\ seat[c] \notin Rooms
  BY LoopThread, NullAssumption DEF Init, Doing, Idle
<1>3. sweep.pc = "idle"
  BY DEF Init, NoSweep
<1>4. OneBucket /\ Fetched /\ Swept
  BY <1>1, <1>3 DEF OneBucket, Fetched, Swept
<1>5. Seats /\ JoinKept
  BY <1>2 DEF Seats, JoinKept
<1>6. Collectable
  BY <1>3 DEF Collectable
<1> QED
  BY <1>4, <1>5, <1>6 DEF Placing

LEMMA NextOneBucket ==
  ASSUME addOnLoop, Core, Swept, OneBucket, [Next]_vars
  PROVE  OneBucket'
<1>1. CASE UNCHANGED rooms
  BY <1>1 DEF OneBucket
<1>2. ASSUME NEW t \in Threads, ThreadStep(t) PROVE OneBucket'
  <2>1. Kinds(t)
    BY <1>2, StepKinds DEF Core
  <2>2. ASSUME NEW o \in Objs, Makes(t, o) PROVE OneBucket'
    BY <2>2 DEF Makes, Free, OneBucket
  <2> QED
    BY <1>1, <2>1, <2>2 DEF Kinds, Looks, Puts, Deletes, Here, Ends, Moves
<1>3. ASSUME NEW r \in Rooms, Collects(r) PROVE OneBucket'
  BY <1>3 DEF Collects, OneBucket
<1> QED
  BY <1>1, <1>2, <1>3, NextKinds DEF Core, Adds, Removes, Skips, Still

LEMMA NextFetched ==
  ASSUME addOnLoop, Core, Swept, OneBucket, Fetched, [Next]_vars
  PROVE  Fetched'
<1>1. CASE UNCHANGED <<rooms, th>>
  BY <1>1 DEF Fetched
<1>2. ASSUME NEW t \in Threads, NEW pc, NEW r, NEW c, NEW l, Begun(t, pc, r, c, l), UNCHANGED rooms
      PROVE  Fetched'
  BY <1>2 DEF Begun, Fetched
<1>3. ASSUME NEW t \in Threads, ThreadStep(t) PROVE Fetched'
  <2>1. Kinds(t) /\ Onward(t)
    BY <1>3, StepKinds DEF Core
  <2>2. ASSUME NEW o \in Objs, Looks(t, o) PROVE Fetched'
    BY <2>1, <2>2 DEF Looks, SameCall, Onward, Fetched, OneBucket
  <2>3. ASSUME NEW o \in Objs, Makes(t, o) PROVE Fetched'
    <3> SUFFICES ASSUME NEW s \in Threads, NEW r \in Rooms, rooms'[r] # NULL, th'[s].obj = rooms'[r]
                 PROVE  th'[s].room = r
      BY DEF Fetched
    <3>1. CASE r = th[t].room
      BY <2>1, <2>3, <3>1 DEF Makes, Free, SameCall, Onward
    <3>2. CASE r # th[t].room
      BY <2>1, <2>3, <3>2 DEF Makes, Free, Onward, Fetched
    <3> QED
      BY <3>1, <3>2
  <2>4. ASSUME NEW o \in Objs, NEW d \in Conns, Puts(t, o, d) \/ Deletes(t, o, d) PROVE Fetched'
    BY <2>1, <2>4 DEF Puts, Deletes, Here, SameCall, Onward, Fetched
  <2>5. CASE Moves(t)
    BY <2>1, <2>5 DEF Moves, SameCall, Onward, Fetched
  <2>6. CASE Ends(t)
    BY <2>1, <2>6 DEF Ends, Onward, Idle, Fetched
  <2> QED
    BY <2>1, <2>2, <2>3, <2>4, <2>5, <2>6 DEF Kinds
<1>4. ASSUME NEW r \in Rooms, Collects(r) PROVE Fetched'
  BY <1>4 DEF Collects, Fetched
<1>5. \A c \in Conns : LoopOf[c] \in Threads
  BY LoopThread
<1> QED
  BY <1>1, <1>2, <1>3, <1>4, <1>5, NextKinds DEF Core, Adds, Removes, Skips, Still

LEMMA NextSwept ==
  ASSUME addOnLoop, Core, Swept, [Next]_vars
  PROVE  Swept'
<1>1. CASE UNCHANGED <<rooms, sweep>>
  BY <1>1 DEF Swept
<1>2. ASSUME NEW t \in Threads, ThreadStep(t) PROVE Swept'
  <2>1. Kinds(t) /\ UNCHANGED sweep
    BY <1>2, StepKinds DEF Core
  <2>2. ASSUME NEW o \in Objs, Makes(t, o) PROVE Swept'
    BY <2>1, <2>2, NullAssumption DEF Makes, Swept
  <2> QED
    BY <1>1, <2>1, <2>2 DEF Kinds, Looks, Puts, Deletes, Here, Ends, Moves
<1>3. ASSUME NEW r \in Rooms, CleanLock(r) PROVE Swept'
  BY <1>3 DEF CleanLock, Swept
<1>4. CASE CleanCount
  BY <1>4 DEF CleanCount, Swept, NoSweep, Typed, TypeOK, Core
<1>5. CASE CleanDelete
  BY <1>5 DEF CleanDelete, Swept, NoSweep
<1> QED
  BY <1>1, <1>2, <1>3, <1>4, <1>5 DEF Next, CleanerStep, AddConnInLoop, RemoveConnInLoop,
     CloseUnjoined, RangeLoopConns, Fatal, Age, vars

LEMMA NextSeats ==
  ASSUME addOnLoop, Core, Swept, Seats, [Next]_vars
  PROVE  Seats'
<1>1. CASE Still \/ \E r \in Rooms : Collects(r)
  BY <1>1 DEF Seats, Doing, Still, Collects
<1>2. ASSUME NEW c \in Conns, NEW pc, NEW r, Begun(LoopOf[c], pc, r, c, LoopOf[c]),
             \/ pc = "get" /\ seat'[c] \in {r, GONE}
             \/ pc = "find" /\ seat'[c] = GONE,
             \A d \in Conns \ {c} : seat'[d] = seat[d]
      PROVE  Seats'
  <2> SUFFICES ASSUME NEW d \in Conns, Doing(d)'.conn = d
               PROVE  /\ Doing(d)'.pc \in AddSteps => seat'[d] \in {Doing(d)'.room, GONE}
                      /\ Doing(d)'.pc \in RemoveSteps => seat'[d] = GONE
    BY DEF Seats, Doing
  <2>1. LoopOf[d] \in Threads
    BY LoopThread
  <2>2. CASE LoopOf[d] = LoopOf[c]
    BY <1>2, <2>2 DEF Begun, Doing, AddSteps, RemoveSteps
  <2>3. CASE LoopOf[d] # LoopOf[c]
    BY <1>2, <2>1, <2>3 DEF Begun, Doing, Seats
  <2> QED
    BY <2>2, <2>3
<1>3. ASSUME NEW c \in Conns, Skips(c) PROVE Seats'
  BY <1>3 DEF Skips, Doing, Seats
<1>4. ASSUME NEW t \in Threads, ThreadStep(t) PROVE Seats'
  <2>1. Kinds(t) /\ Onward(t) /\ UNCHANGED seat
    BY <1>4, StepKinds DEF Core
  <2>2. SameCall(t) \/ th'[t] = Idle
    BY <2>1 DEF Kinds, Looks, Makes, Puts, Deletes, Here, Ends, Moves
  <2> SUFFICES ASSUME NEW d \in Conns, Doing(d)'.conn = d
               PROVE  /\ Doing(d)'.pc \in AddSteps => seat'[d] \in {Doing(d)'.room, GONE}
                      /\ Doing(d)'.pc \in RemoveSteps => seat'[d] = GONE
    BY DEF Seats, Doing
  <2>3. LoopOf[d] \in Threads /\ d # NULL
    BY LoopThread, NullAssumption
  <2>4. CASE LoopOf[d] = t
    BY <2>1, <2>2, <2>3, <2>4 DEF SameCall, Doing, Seats, Idle
  <2>5. CASE LoopOf[d] # t
    BY <2>1, <2>3, <2>5 DEF Onward, Doing, Seats
  <2> QED
    BY <2>4, <2>5
<1> QED
  BY <1>1, <1>2, <1>3, <1>4, NextKinds DEF Core, Adds, Removes

\* A call that has put its connection in goes on counting it, or has cleared the
\* mark of an empty room.
LEMMA CountingOn ==
  ASSUME Core, NEW t \in Threads, ThreadStep(t), th[t].pc \in Counting
  PROVE  \/ th'[t].pc \in Counting /\ th'[t].conn = th[t].conn /\ th'[t].obj = th[t].obj
         \/ LastEmptyTime'[th[t].obj] = "none"
<1>1. th[t].obj \in Objs
  BY CallTyped DEF Core, Counting, NoObjSteps
<1>2. CASE AddClear(t)
  BY <1>1, <1>2 DEF AddClear, Core, Typed, TypeOK
<1>3. CASE AddLocal(t) \/ AddShard(t) \/ AddOr(t)
  BY <1>3, GoToTable DEF AddLocal, AddShard, AddOr, At, Steps, Counting, Core
<1> QED
  BY <1>2, <1>3 DEF ThreadStep, At, Counting, AddGetOrCreate, AddExists, AddReplace, AddPut,
     RemoveFind, RemoveHas, RemoveDelete, RemoveLocal, RemoveShard, RemoveAnd, RemoveTest,
     RemoveMark, RangeLookup, RangeDone

\* No step of a call makes an empty room look older.
LEMMA NotOlder ==
  ASSUME Typed, NEW t \in Threads, ThreadStep(t), NEW o \in Objs, LastEmptyTime'[o] = "expired"
  PROVE  LastEmptyTime[o] = "expired"
<1>1. LastEmptyTime \in [Objs -> Times]
  BY DEF Typed, TypeOK
<1>2. CASE AddGetOrCreate(t)
  BY <1>1, <1>2, GetOrCreateGives DEF Fetches, Creates, counters
<1>3. CASE AddClear(t) \/ RemoveMark(t)
  BY <1>1, <1>3 DEF AddClear, RemoveMark
<1> QED
  BY <1>2, <1>3 DEF ThreadStep, AddExists, AddReplace, AddPut, AddLocal, AddShard, AddOr,
     RemoveFind, RemoveHas, RemoveDelete, RemoveLocal, RemoveShard, RemoveAnd, RemoveTest,
     RangeLookup, RangeDone, counters

LEMMA StepCollectable ==
  ASSUME Core, Collectable, NEW t \in Threads, ThreadStep(t),
         NEW r \in Rooms, sweep'.pc = "time", sweep'.room = r, rooms'[r] # NULL,
         LastEmptyTime'[rooms'[r]] = "expired",
         NEW c \in Conns, Has(c, rooms[r])'
  PROVE  About(c, rooms[r], Counting)'
<1>1. Kinds(t) /\ Onward(t) /\ UNCHANGED sweep
  BY StepKinds DEF Core
<1>2. rooms'[r] = rooms[r]
  <2>1. ASSUME NEW o \in Objs, Makes(t, o) PROVE rooms'[r] = rooms[r]
    BY <1>1, <2>1 DEF Makes, Locked
  <2> QED
    BY <1>1, <2>1 DEF Kinds, Looks, Puts, Deletes, Here, Ends, Moves
<1>3. rooms[r] # NULL /\ rooms[r] \in Objs /\ LastEmptyTime[rooms[r]] = "expired"
  BY <1>2, RoomObject, NotOlder DEF Core
<1>4. CASE Has(c, rooms[r])
  <2>1. About(c, rooms[r], Counting)
    BY <1>1, <1>3, <1>4 DEF Collectable
  <2>2. LoopOf[c] \in Threads
    BY LoopThread
  <2>3. CASE LoopOf[c] = t
    BY <1>2, <1>3, <2>1, <2>3, CountingOn DEF About, Doing
  <2>4. CASE LoopOf[c] # t
    BY <1>1, <1>2, <2>1, <2>2, <2>4 DEF About, Doing, Onward
  <2> QED
    BY <2>3, <2>4
<1>5. CASE ~Has(c, rooms[r])
  <2>1. ASSUME NEW o \in Objs, Makes(t, o) PROVE FALSE
    BY <1>2, <1>3, <1>5, <2>1 DEF Makes, Free
  <2>2. PICK o \in Objs, d \in Conns : Puts(t, o, d)
    BY <1>1, <1>2, <1>3, <1>5, <2>1 DEF Kinds, Looks, Deletes, Ends, Moves, SameHas
  <2>3. c = d /\ o = rooms[r]
    BY <1>2, <1>3, <1>5, <2>2 DEF Puts
  <2> QED
    BY <1>2, <2>2, <2>3 DEF Puts, Here, SameCall, About, Doing, Counting
<1> QED
  BY <1>4, <1>5

LEMMA NextCollectable ==
  ASSUME addOnLoop, Core, Swept, Collectable, [Next]_vars
  PROVE  Collectable'
<1> SUFFICES ASSUME NEW r \in Rooms, sweep'.pc = "time", sweep'.room = r, rooms'[r] # NULL,
                    LastEmptyTime'[rooms'[r]] = "expired",
                    NEW e \in Conns, Has(e, rooms[r])'
             PROVE  About(e, rooms[r], Counting)'
  BY DEF Collectable
<1>0. LoopOf[e] \in Threads /\ LoopOf[e] \in Loops
  BY LoopThread
<1>1. CASE UNCHANGED <<rooms, Shards, th, sweep, LastEmptyTime>>
  BY <1>1 DEF Collectable, Has, About, Doing
<1>2. ASSUME NEW t \in Threads, NEW pc, NEW q, NEW c, NEW l, Begun(t, pc, q, c, l),
             UNCHANGED <<rooms, Shards, sweep, LastEmptyTime>>
      PROVE  About(e, rooms[r], Counting)'
  <2>1. About(e, rooms[r], Counting)
    BY <1>2 DEF Collectable, Has
  <2>2. LoopOf[e] # t
    BY <1>2, <2>1 DEF Begun, About, Doing, Counting, Idle
  <2> QED
    BY <1>0, <1>2, <2>1, <2>2 DEF Begun, About, Doing
<1>3. ASSUME NEW t \in Threads, ThreadStep(t) PROVE About(e, rooms[r], Counting)'
  BY <1>3, StepCollectable
<1>4. ASSUME NEW o \in Objs, Age(o) PROVE About(e, rooms[r], Counting)'
  <2>1. rooms[r] # o /\ UNCHANGED <<rooms, Shards, th, sweep>>
    BY <1>4 DEF Age
  <2>2. rooms[r] \in Objs
    BY <2>1, RoomObject DEF Core
  <2>3. LastEmptyTime[rooms[r]] = "expired"
    BY <1>4, <2>1, <2>2 DEF Age, Core, Typed, TypeOK
  <2> QED
    BY <2>1, <2>3 DEF Collectable, Has, About, Doing
<1>5. ASSUME NEW q \in Rooms, CleanLock(q) PROVE FALSE
  BY <1>5 DEF CleanLock
<1>6. CASE CleanDelete
  BY <1>6 DEF CleanDelete, NoSweep
<1>7. CASE CleanCount
  <2>1. sweep.room = r /\ LocalConnCount[rooms[r]] = 0 /\ UNCHANGED <<rooms, Shards, th>>
    BY <1>7 DEF CleanCount, NoSweep, Core, Typed, TypeOK
  <2>2. rooms[r] \in Objs
    BY <2>1, RoomObject DEF Core
  <2>3. RoomCounted(rooms[r]) = {}
    BY <2>1, <2>2, RoomFinite, FS_EmptySet DEF Core, RoomsExact
  <2>4. ~CountedIn(e, rooms[r])
    BY <2>3 DEF RoomCounted
  <2> QED
    BY <2>1, <2>4 DEF CountedIn, Has, About, Doing, Counting
<1>8. ASSUME NEW t \in Threads, NEW q \in Rooms, NEW c \in Conns, AddConnInLoop(t, q, c)
      PROVE  About(e, rooms[r], Counting)'
  BY <1>2, <1>8, AddBegins DEF AddConnInLoop, counters, Core
<1>9. ASSUME NEW c \in Conns, RemoveConnInLoop(c) PROVE About(e, rooms[r], Counting)'
  BY <1>2, <1>9, RemoveBegins, LoopThread DEF RemoveConnInLoop, counters, Core
<1>10. ASSUME NEW t \in Threads, NEW q \in Rooms, NEW l \in Loops, RangeLoopConns(t, q, l)
       PROVE  FALSE
  BY <1>10 DEF RangeLoopConns
<1>11. ASSUME NEW t \in Threads, Fatal(t) PROVE About(e, rooms[r], Counting)'
  BY <1>1, <1>11 DEF Fatal, counters
<1>12. CASE UNCHANGED vars
  BY <1>1, <1>12 DEF vars
<1>13. ASSUME NEW c \in Conns, CloseUnjoined(c) PROVE About(e, rooms[r], Counting)'
  BY <1>1, <1>13, CloseTyped DEF Core
<1> QED
  BY <1>3, <1>4, <1>5, <1>6, <1>7, <1>8, <1>9, <1>10, <1>11, <1>12, <1>13 DEF Next, CleanerStep

LEMMA NextJoinKept ==
  ASSUME addOnLoop, Core, Placing, [Next]_vars
  PROVE  JoinKept'
<1> SUFFICES ASSUME NEW e \in Conns, NEW q \in Rooms, seat'[e] = q, e \notin orphaned'
             PROVE  IF Doing(e)'.conn = e
                    THEN Doing(e)'.pc # "get" => rooms'[q] = Doing(e)'.obj
                    ELSE Lists(q, e)'
  BY DEF JoinKept, Doing, Lists, Has
<1> DEFINE Goal == IF Doing(e)'.conn = e
                   THEN Doing(e)'.pc # "get" => rooms'[q] = Doing(e)'.obj
                   ELSE Lists(q, e)'
<1>0. LoopOf[e] \in Threads /\ e # NULL
  BY LoopThread, NullAssumption
<1>1. /\ seat[e] = q /\ e \notin orphaned /\ Doing(e)' = Doing(e)
      /\ rooms'[q] = rooms[q]
      /\ Lists(q, e) => Lists(q, e)'
      => Goal
  BY DEF Placing, JoinKept, Lists
<1>2. ASSUME NEW c \in Conns, NEW r \in Rooms, Adds(c, r) PROVE Goal
  <2>1. SameLists /\ UNCHANGED rooms
    BY <1>2, SameShards, SameListed DEF Adds, Core
  <2>2. CASE e = c
    BY <1>2, <2>2 DEF Adds, Begun, Doing
  <2>3. CASE e # c
    <3>1. seat[e] = q /\ e \notin orphaned
      BY <1>2, <2>3 DEF Adds
    <3>2. Lists(q, e)' <=> Lists(q, e)
      BY <2>1, <3>1 DEF SameLists, Lists
    <3>3. CASE LoopOf[e] = LoopOf[c]
      BY <1>0, <1>2, <2>1, <2>3, <3>1, <3>2, <3>3 DEF Adds, Begun, Doing, Idle, Placing, JoinKept
    <3>4. CASE LoopOf[e] # LoopOf[c]
      BY <1>0, <1>1, <1>2, <2>1, <3>1, <3>2, <3>4 DEF Adds, Begun, Doing
    <3> QED
      BY <3>3, <3>4
  <2> QED
    BY <2>2, <2>3
<1>3. ASSUME NEW c \in Conns, Removes(c) PROVE Goal
  <2>1. SameLists /\ UNCHANGED rooms
    BY <1>3, SameShards, SameListed DEF Removes, Core
  <2>2. e # c /\ seat[e] = q /\ e \notin orphaned
    BY <1>3, NullAssumption DEF Removes
  <2>3. Lists(q, e)' <=> Lists(q, e)
    BY <2>1, <2>2 DEF SameLists, Lists
  <2>4. CASE LoopOf[e] = LoopOf[c]
    BY <1>0, <1>3, <2>1, <2>2, <2>3, <2>4 DEF Removes, Begun, Doing, Idle, Placing, JoinKept
  <2>5. CASE LoopOf[e] # LoopOf[c]
    BY <1>0, <1>1, <1>3, <2>1, <2>2, <2>3, <2>5 DEF Removes, Begun, Doing
  <2> QED
    BY <2>4, <2>5
<1>4. ASSUME NEW c \in Conns, Skips(c) PROVE Goal
  <2>1. SameLists /\ UNCHANGED <<rooms, th, orphaned>>
    BY <1>4, SameShards, SameListed DEF Skips, Core
  <2>2. e # c /\ seat[e] = q
    BY <1>4, NullAssumption DEF Skips
  <2>3. Lists(q, e)' <=> Lists(q, e)
    BY <2>1, <2>2 DEF SameLists, Lists
  <2> QED
    BY <1>1, <2>1, <2>2, <2>3 DEF Doing
<1>5. ASSUME NEW r \in Rooms, Collects(r) PROVE Goal
  <2>1. e \notin orphaned /\ seat[e] = q /\ Doing(e)' = Doing(e)
    BY <1>5 DEF Collects, Doing
  <2>2. CASE q # r
    <3>1. rooms'[q] = rooms[q]
      BY <1>5, <2>1, <2>2 DEF Collects
    <3>2. Lists(q, e) => Lists(q, e)'
      BY <1>5, <2>1, <3>1 DEF Collects, Lists, Has
    <3> QED
      BY <1>1, <2>1, <3>1, <3>2
  <2>3. CASE q = r
    <3>1. ~(Doing(e).conn = e /\ Doing(e).obj = rooms[r])
      BY <1>0, <1>5 DEF Collects, Doing
    <3>2. CASE Doing(e).conn = e
      BY <2>1, <2>3, <3>1, <3>2 DEF Placing, JoinKept
    <3>3. CASE Doing(e).conn # e
      <4>1. Has(e, rooms[r])
        BY <2>1, <2>3, <3>3 DEF Placing, JoinKept, Lists
      <4>2. About(e, rooms[r], Counting)
        BY <1>5, <4>1 DEF Collects, Placing, Collectable
      <4> QED
        BY <3>3, <4>2 DEF About
    <3> QED
      BY <3>2, <3>3
  <2> QED
    BY <2>2, <2>3
<1>6. CASE Still
  <2>1. SameLists
    BY <1>6, SameShards, SameListed DEF Still, Core
  <2>2. Lists(q, e)' <=> Lists(q, e)
    BY <1>6, <2>1 DEF SameLists, Lists, Still
  <2> QED
    BY <1>1, <1>6, <2>2 DEF Still, Doing
<1>7. ASSUME NEW t \in Threads, ThreadStep(t) PROVE Goal
  <2>1. Kinds(t) /\ Onward(t) /\ UNCHANGED <<seat, orphaned>>
    BY <1>7, StepKinds DEF Core
  <2>2. e \notin orphaned /\ seat[e] = q
    BY <2>1
  <2>3. CASE Doing(e).conn = e /\ LoopOf[e] = t
    <3>1. th[t].conn = e /\ th[t].pc \in AddSteps /\ q = th[t].room /\ th[t].room \in Rooms
      BY <2>2, <2>3, DoingKind, NullAssumption DEF Core, Doing, Placing, Seats
    <3>2. th[t].pc # "get" => rooms[q] = th[t].obj
      BY <2>2, <2>3 DEF Placing, JoinKept, Doing
    <3>3. CASE Ends(t)
      <4>1. Has(e, th[t].obj) /\ rooms[q] = th[t].obj /\ th[t].obj # NULL
        <5>1. th[t].pc \notin NoObjSteps
          BY <3>1, <3>3 DEF Ends, AddSteps, NoObjSteps
        <5> QED
          BY <3>1, <3>2, <3>3, <5>1 DEF Ends, Core, Typed, TypeOK
      <4>2. th[t].obj \in Objs
        BY <3>1, <4>1, RoomObject DEF Core
      <4>3. Lists(q, e)'
        BY <2>1, <3>3, <4>1, <4>2 DEF Ends, SameHas, Lists
      <4> QED
        BY <1>0, <2>3, <3>3, <4>3 DEF Ends, Doing, Idle
    <3>4. CASE ~Ends(t)
      <4>1. th'[t].conn = e
        BY <2>1, <3>1, <3>4 DEF Kinds, Looks, Makes, Puts, Deletes, Here, Moves, SameCall
      <4>2. rooms'[q] = th'[t].obj
        <5>1. ASSUME NEW o \in Objs, Looks(t, o) \/ Makes(t, o) PROVE rooms'[q] = th'[t].obj
          BY <3>1, <5>1 DEF Looks, Makes
        <5>2. ASSUME NEW o \in Objs, NEW d \in Conns, Puts(t, o, d) \/ Deletes(t, o, d)
              PROVE  rooms'[q] = th'[t].obj
          BY <3>2, <5>2 DEF Puts, Deletes, Here
        <5>3. CASE Moves(t)
          BY <3>2, <5>3 DEF Moves, NoObjSteps
        <5> QED
          BY <2>1, <3>4, <5>1, <5>2, <5>3 DEF Kinds
      <4> QED
        BY <2>2, <2>3, <4>1, <4>2 DEF Doing
    <3> QED
      BY <3>3, <3>4
  <2>4. CASE Doing(e).conn = e /\ LoopOf[e] # t
    <3>1. Doing(e)' = Doing(e)
      BY <1>0, <2>1, <2>4 DEF Onward, Doing
    <3>2. Doing(e).pc # "get" => rooms'[q] = Doing(e).obj
      <4> SUFFICES ASSUME Doing(e).pc # "get" PROVE rooms'[q] = Doing(e).obj
        OBVIOUS
      <4>1. rooms[q] = Doing(e).obj
        BY <2>2, <2>4 DEF Placing, JoinKept
      <4>2. Doing(e).obj # NULL
        <5>1. Doing(e).pc \in AddSteps
          BY <2>2, <2>4, DoingKind, NullAssumption DEF Core, Placing, Seats
        <5>2. Doing(e).pc \notin NoObjSteps
          BY <5>1 DEF AddSteps, NoObjSteps
        <5> QED
          BY <1>0, <5>2 DEF Core, Typed, TypeOK, Doing
      <4>3. rooms'[q] = rooms[q]
        BY <2>1, <2>2, <4>1, <4>2 DEF Kinds, Looks, Makes, Puts, Deletes, Here, Ends, Moves
      <4> QED
        BY <4>1, <4>3
    <3> QED
      BY <2>2, <2>4, <3>1, <3>2
  <2>5. CASE Doing(e).conn # e
    <3>1. Doing(e)'.conn # e
      BY <2>1, <2>5, DoingOn DEF Core
    <3>2. Lists(q, e)
      BY <2>2, <2>5 DEF Placing, JoinKept
    <3>3. SameLists => Lists(q, e)'
      BY <2>1, <2>2, <3>2 DEF SameLists, Lists
    <3>4. ASSUME NEW o \in Objs, NEW d \in Conns, Puts(t, o, d) \/ Deletes(t, o, d)
          PROVE  Lists(q, e)'
      <4>1. e # d
        BY <2>5, <3>4 DEF Puts, Deletes, Here, Doing
      <4> QED
        BY <2>2, <3>2, <3>4, <4>1, PutListed, DeleteListed DEF Core, Lists
    <3>5. Lists(q, e)'
      BY <2>1, <3>3, <3>4, MadeListed, SameListed DEF Core, Kinds, Looks, Ends, Moves
    <3> QED
      BY <3>1, <3>5
  <2> QED
    BY <2>3, <2>4, <2>5
<1> QED
  BY <1>2, <1>3, <1>4, <1>5, <1>6, <1>7, NextKinds DEF Core, Placing

LEMMA InitCore == Init => Core
BY InitTyped, InitOnLoop, InitColumns, InitRooms DEF Core

LEMMA NextCore == addOnLoop /\ Core /\ [Next]_vars => Core'
BY NextTyped, NextOnLoop, NextColumns, NextRooms DEF Core

LEMMA NextPlacing == addOnLoop /\ Core /\ Placing /\ [Next]_vars => Placing'
BY NextOneBucket, NextFetched, NextSwept, NextSeats, NextCollectable, NextJoinKept
   DEF Placing

\* What holds of either callers.
Kept == Typed /\ (addOnLoop => Core /\ Placing)

LEMMA InitKept == Init => Kept
BY InitTyped, InitCore, InitPlacing DEF Kept

LEMMA NextKept == Kept /\ [Next]_vars => Kept'
BY FlagKept, NextTyped, NextCore, NextPlacing DEF Kept

LEMMA PlacingListed == Core /\ Placing => JoinedIsListed
<1> SUFFICES ASSUME Core, Placing, NEW c \in Conns, seat[c] \in Rooms, ~BusyWith(c), c \notin orphaned
             PROVE  Listed(c)
  BY DEF JoinedIsListed, Settled
<1>1. Doing(c).conn # c
  BY BusyDoing DEF Core
<1> QED
  BY <1>1 DEF Placing, JoinKept, Lists, Has, Listed

\* Under the contract, a connection that was added and that no call is about is
\* found under its room, whatever the other calls and the cleaner did, unless the
\* cleaner collected the room during its last call (manager.go:142-174, 329-346).
THEOREM JoinedListed == Spec => []JoinedIsListed
<1>1. Init => Kept
  BY InitKept
<1>2. Kept /\ [Next]_vars => Kept'
  BY NextKept
<1>3. Kept => JoinedIsListed
  BY PlacingListed DEF JoinedIsListed, Kept
<1> QED
  BY <1>1, <1>2, <1>3, PTL DEF Spec

-----------------------------------------------------------------------------
(* The index is one atomic table: each step is a step of RoomIndex, or none   *)
(* of its variables changes.                                                  *)

SameBusy == \A c \in Conns, r \in Rooms : BusyIn(c, r)' <=> BusyIn(c, r)

OnlyBusy(c, r) ==
  \A d \in Conns, q \in Rooms : d # c \/ q # r => (BusyIn(d, q)' <=> BusyIn(d, q))

Contract == addOnLoop /\ addOnLoop'

Busy == {p \in Conns \X Rooms : BusyIn(p[1], p[2])}

IndexVars == <<[c \in Conns |-> RoomListing(c)], Busy>>

LEMMA InBusy == \A c \in Conns, r \in Rooms : <<c, r>> \in Busy <=> BusyIn(c, r)
BY DEF Busy

LEMMA InBusyNext == \A c \in Conns, r \in Rooms : <<c, r>> \in Busy' <=> BusyIn(c, r)'
BY DEF Busy

LEMMA BusyPairs == /\ \A p \in Busy : \E c \in Conns, r \in Rooms : p = <<c, r>>
                   /\ \A p \in Busy' : \E c \in Conns, r \in Rooms : p = <<c, r>>
BY DEF Busy

LEMMA BusySame == SameBusy => UNCHANGED Busy
BY DEF SameBusy, Busy

LEMMA ListingIs ==
  ASSUME Contract, NEW c \in Conns, NEW r \in Rooms
  PROVE  (r \in RoomListing(c) <=> Lists(r, c)) /\ (r \in RoomListing(c)' <=> Lists(r, c)')
BY DEF Contract, RoomListing, Lists, Has

LEMMA ListingRooms == \A c \in Conns : RoomListing(c) \subseteq Rooms /\ RoomListing(c)' \subseteq Rooms
BY DEF RoomListing

LEMMA ListingSame ==
  ASSUME Contract, NEW c \in Conns, \A r \in Rooms : Lists(r, c)' <=> Lists(r, c)
  PROVE  RoomListing(c)' = RoomListing(c)
BY ListingIs, ListingRooms

\* The abstract steps, in the terms of this module.
LEMMA IndexStutters ==
  ASSUME Contract, SameLists, SameBusy
  PROVE  UNCHANGED IndexVars
<1>1. ASSUME NEW c \in Conns PROVE RoomListing(c)' = RoomListing(c)
  BY ListingSame DEF SameLists
<1> QED
  BY <1>1, BusySame DEF IndexVars

LEMMA IndexBegins ==
  ASSUME Contract, SameLists, NEW c \in Conns, NEW r \in Rooms,
         ~BusyIn(c, r), BusyIn(c, r)', OnlyBusy(c, r)
  PROVE  Index!Begin(c, r)
<1>1. ASSUME NEW d \in Conns PROVE RoomListing(d)' = RoomListing(d)
  BY ListingSame DEF SameLists
<1>2. Busy' = Busy \cup {<<c, r>>} /\ <<c, r>> \notin Busy
  BY InBusy, InBusyNext, BusyPairs DEF OnlyBusy
<1> QED
  BY <1>1, <1>2 DEF Index!Begin, Busy

LEMMA IndexEnds ==
  ASSUME Contract, SameLists, NEW c \in Conns, NEW r \in Rooms,
         BusyIn(c, r), ~BusyIn(c, r)', OnlyBusy(c, r)
  PROVE  Index!End(c, r)
<1>1. ASSUME NEW d \in Conns PROVE RoomListing(d)' = RoomListing(d)
  BY ListingSame DEF SameLists
<1>2. Busy' = Busy \ {<<c, r>>} /\ <<c, r>> \in Busy
  BY InBusy, InBusyNext, BusyPairs DEF OnlyBusy
<1> QED
  BY <1>1, <1>2 DEF Index!End, Busy

LEMMA IndexEnters ==
  ASSUME Contract, NEW c \in Conns, NEW r \in Rooms, BusyIn(c, r), SameBusy, ~Lists(r, c),
         \A q \in Rooms, d \in Conns : Lists(q, d)' <=> Lists(q, d) \/ (d = c /\ q = r)
  PROVE  Index!Enter(c, r)
<1>1. RoomListing(c)' = RoomListing(c) \cup {r} /\ r \notin RoomListing(c)
  BY ListingIs, ListingRooms
<1>2. ASSUME NEW d \in Conns, d # c PROVE RoomListing(d)' = RoomListing(d)
  BY <1>2, ListingSame
<1>3. UNCHANGED Busy /\ <<c, r>> \in Busy
  BY InBusy, BusySame
<1> QED
  BY <1>1, <1>2, <1>3 DEF Index!Enter, Busy

LEMMA IndexLeaves ==
  ASSUME Contract, NEW c \in Conns, NEW r \in Rooms, BusyIn(c, r), SameBusy, Lists(r, c),
         \A q \in Rooms, d \in Conns : Lists(q, d)' <=> Lists(q, d) /\ ~(d = c /\ q = r)
  PROVE  Index!Leave(c, r)
<1>1. RoomListing(c)' = RoomListing(c) \ {r} /\ r \in RoomListing(c)
  BY ListingIs, ListingRooms
<1>2. ASSUME NEW d \in Conns, d # c PROVE RoomListing(d)' = RoomListing(d)
  BY <1>2, ListingSame
<1>3. UNCHANGED Busy /\ <<c, r>> \in Busy
  BY InBusy, BusySame
<1> QED
  BY <1>1, <1>2, <1>3 DEF Index!Leave, Busy

LEMMA IndexDrops ==
  ASSUME Contract, NEW r \in Rooms, SameBusy, \A c \in Conns : Lists(r, c) => BusyIn(c, r),
         \A q \in Rooms, c \in Conns : Lists(q, c)' <=> Lists(q, c) /\ q # r
  PROVE  Index!Drop(r)
<1>1. ASSUME NEW c \in Conns PROVE RoomListing(c)' = RoomListing(c) \ {r}
  BY ListingIs, ListingRooms
<1>2. ASSUME NEW c \in Conns, r \in RoomListing(c) PROVE <<c, r>> \in Busy
  BY <1>2, ListingIs, InBusy
<1>3. UNCHANGED Busy
  BY BusySame
<1> QED
  BY <1>1, <1>2, <1>3 DEF Index!Drop, Busy

BusyIs == \A c \in Conns, r \in Rooms : BusyIn(c, r) <=> Doing(c).conn = c /\ Doing(c).room = r

LEMMA CoreBusy == addOnLoop /\ Core => BusyIs
<1> SUFFICES ASSUME addOnLoop, Core, NEW c \in Conns, NEW r \in Rooms
             PROVE  BusyIn(c, r) <=> Doing(c).conn = c /\ Doing(c).room = r
  BY DEF BusyIs
<1>1. LoopOf[c] \in Threads /\ c # NULL
  BY LoopThread, NullAssumption
<1>2. ASSUME NEW t \in Threads, th[t].conn = c PROVE Doing(c) = th[t]
  <2>1. th[t] \in Call /\ CallSound(th[t]) /\ th[t].pc # "idle"
    BY <1>1, <1>2 DEF Core, Typed, TypeOK, CallsSound, CallSound, Idle
  <2>2. th[t].pc \in AddSteps \cup RemoveSteps
    BY <1>1, <1>2, <2>1 DEF Call, Steps, CallSound, AddSteps, RemoveSteps, RangeSteps
  <2>3. th[t].loop = t /\ th[t].loop = LoopOf[c]
    BY <1>2, <2>1, <2>2 DEF CallSound, Core, OnLoop
  <2> QED
    BY <2>3 DEF Doing
<1> QED
  BY <1>1, <1>2 DEF BusyIn, Doing

LEMMA BegunBusy ==
  ASSUME BusyIs, BusyIs', NEW c \in Conns, NEW r \in Rooms, NEW pc,
         Begun(LoopOf[c], pc, r, c, LoopOf[c])
  PROVE  ~BusyIn(c, r) /\ BusyIn(c, r)' /\ OnlyBusy(c, r)
<1>1. \A d \in Conns : LoopOf[d] \in Threads /\ d # NULL
  BY LoopThread, NullAssumption
<1>2. Doing(c) = Idle /\ Doing(c)'.conn = c /\ Doing(c)'.room = r
  BY DEF Begun, Doing
<1>3. ~BusyIn(c, r) /\ BusyIn(c, r)'
  BY <1>1, <1>2 DEF BusyIs, Idle, Doing
<1>4. ASSUME NEW d \in Conns, NEW q \in Rooms, d # c \/ q # r
      PROVE  BusyIn(d, q)' <=> BusyIn(d, q)
  <2>1. CASE LoopOf[d] = LoopOf[c]
    <3>1. Doing(d) = Idle /\ Doing(d)'.conn = c /\ Doing(d)'.room = r
      BY <1>2, <2>1 DEF Doing
    <3> QED
      BY <1>1, <1>4, <3>1 DEF BusyIs, Idle, Doing
  <2>2. CASE LoopOf[d] # LoopOf[c]
    <3>1. Doing(d)' = Doing(d)
      BY <1>1, <2>2 DEF Begun, Doing
    <3> QED
      BY <3>1 DEF BusyIs, Doing
  <2> QED
    BY <2>1, <2>2
<1> QED
  BY <1>3, <1>4 DEF OnlyBusy

LEMMA StepBusy ==
  ASSUME BusyIs, BusyIs', NEW t \in Threads, Onward(t), SameCall(t)
  PROVE  SameBusy
<1>1. ASSUME NEW d \in Conns PROVE Doing(d)'.conn = Doing(d).conn /\ Doing(d)'.room = Doing(d).room
  BY LoopThread DEF Onward, SameCall, Doing
<1> QED
  BY <1>1 DEF BusyIs, SameBusy, Doing

LEMMA CallsSameBusy ==
  ASSUME BusyIs, BusyIs', UNCHANGED th
  PROVE  SameBusy
BY DEF BusyIs, SameBusy, Doing

LEMMA HereBusy ==
  ASSUME BusyIs, NEW t \in Threads, NEW o \in Objs, NEW d \in Conns, Here(t, o, d)
  PROVE  BusyIn(d, th[t].room)
BY DEF BusyIs, Here, Doing

\* A connection enters its room where it is put into the shard, if the room is
\* still the one in the bucket.
LEMMA PutRefines ==
  ASSUME Contract, Core, Placing, BusyIs, SameBusy,
         NEW t \in Threads, NEW o \in Objs, NEW d \in Conns, Puts(t, o, d)
  PROVE  SameLists \/ \E r \in Rooms : Index!Enter(d, r)
<1>1. CASE \A r \in Rooms : rooms[r] # o
  BY <1>1, PutListed DEF SameLists, Core
<1>2. ASSUME NEW r \in Rooms, rooms[r] = o PROVE Index!Enter(d, r)
  <2>1. o # NULL /\ th[t].room = r
    BY <1>2, NullAssumption DEF Puts, Here, Placing, Fetched
  <2>2. BusyIn(d, r)
    BY <2>1, HereBusy DEF Puts
  <2>3. ~Lists(r, d)
    BY <1>2 DEF Puts, Lists
  <2>4. \A q \in Rooms : rooms[q] = o <=> q = r
    BY <1>2, <2>1 DEF Placing, OneBucket
  <2>5. \A q \in Rooms, e \in Conns : Lists(q, e)' <=> Lists(q, e) \/ (e = d /\ q = r)
    BY <2>4, PutListed DEF Core
  <2> QED
    BY <2>2, <2>3, <2>5, IndexEnters
<1> QED
  BY <1>1, <1>2

LEMMA DeleteRefines ==
  ASSUME Contract, Core, Placing, BusyIs, SameBusy,
         NEW t \in Threads, NEW o \in Objs, NEW d \in Conns, Deletes(t, o, d)
  PROVE  SameLists \/ \E r \in Rooms : Index!Leave(d, r)
<1>1. CASE \A r \in Rooms : rooms[r] # o
  BY <1>1, DeleteListed DEF SameLists, Core
<1>2. ASSUME NEW r \in Rooms, rooms[r] = o PROVE Index!Leave(d, r)
  <2>1. o # NULL /\ th[t].room = r
    BY <1>2, NullAssumption DEF Deletes, Here, Placing, Fetched
  <2>2. BusyIn(d, r)
    BY <2>1, HereBusy DEF Deletes
  <2>3. Lists(r, d)
    BY <1>2, <2>1 DEF Deletes, Lists
  <2>4. \A q \in Rooms : rooms[q] = o <=> q = r
    BY <1>2, <2>1 DEF Placing, OneBucket
  <2>5. \A q \in Rooms, e \in Conns : Lists(q, e)' <=> Lists(q, e) /\ ~(e = d /\ q = r)
    BY <2>4, DeleteListed DEF Core
  <2> QED
    BY <2>2, <2>3, <2>5, IndexLeaves
<1> QED
  BY <1>1, <1>2

LEMMA EndRefines ==
  ASSUME Contract, Core, BusyIs, BusyIs', NEW t \in Threads, Onward(t), th[t].pc # "idle", Ends(t)
  PROVE  SameLists /\ (SameBusy \/ \E c \in Conns, r \in Rooms : Index!End(c, r))
<1>1. SameLists
  BY SameListed DEF Ends, Core
<1>2. \A d \in Conns : LoopOf[d] \in Threads /\ d # NULL
  BY LoopThread, NullAssumption
<1>3. ASSUME NEW c \in Conns, th[t].conn = c PROVE \E r \in Rooms : Index!End(c, r)
  <2>1. th[t] \in Call /\ CallSound(th[t]) /\ th[t].loop = t
    BY DEF Core, Typed, TypeOK, CallsSound, OnLoop
  <2>2. th[t].pc \in AddSteps \cup RemoveSteps
    BY <1>2, <1>3, <2>1 DEF Call, Steps, CallSound, AddSteps, RemoveSteps, RangeSteps
  <2>3. LoopOf[c] = t /\ th[t].room \in Rooms
    BY <1>3, <2>1, <2>2 DEF CallSound
  <2>4. PICK r \in Rooms : th[t].room = r
    BY <2>3
  <2>5. BusyIn(c, r)
    BY <1>3, <2>3, <2>4 DEF BusyIs, Doing
  <2>6. Doing(c)' = Idle /\ Idle.conn = NULL
    BY <2>3 DEF Ends, Doing, Idle
  <2>7. ~BusyIn(c, r)'
    BY <1>2, <2>3, <2>6 DEF BusyIs, Doing
  <2>8. ASSUME NEW d \in Conns, NEW q \in Rooms, d # c \/ q # r
        PROVE  BusyIn(d, q)' <=> BusyIn(d, q)
    <3>1. CASE LoopOf[d] = t
      <4>1. Doing(d) = th[t] /\ Doing(d)' = Idle
        BY <3>1 DEF Ends, Doing
      <4> QED
        BY <1>2, <1>3, <2>6, <2>8, <2>4, <4>1 DEF BusyIs, Doing
    <3>2. CASE LoopOf[d] # t
      <4>1. Doing(d)' = Doing(d)
        BY <1>2, <3>2 DEF Onward, Doing
      <4> QED
        BY <4>1 DEF BusyIs, Doing
    <3> QED
      BY <3>1, <3>2
  <2>9. Index!End(c, r)
    BY <1>1, <2>5, <2>7, <2>8, IndexEnds DEF OnlyBusy
  <2> QED
    BY <2>9
<1>4. ASSUME th[t].conn \notin Conns PROVE SameBusy
  <2>1. ASSUME NEW d \in Conns PROVE (Doing(d).conn = d \/ Doing(d)'.conn = d) => Doing(d)' = Doing(d)
    BY <1>2, <1>4 DEF Onward, Ends, Idle, Doing
  <2> QED
    BY <2>1 DEF BusyIs, SameBusy, Doing
<1> QED
  BY <1>1, <1>3, <1>4

LEMMA StepRefines ==
  ASSUME Contract, Core, Placing, BusyIs, BusyIs', NEW t \in Threads, ThreadStep(t)
  PROVE  Index!Next \/ UNCHANGED IndexVars
<1>1. Kinds(t) /\ Onward(t) /\ th[t].pc # "idle"
  BY StepKinds DEF Core
<1>2. CASE Ends(t)
  BY <1>1, <1>2, EndRefines, IndexStutters DEF Index!Next
<1>3. CASE ~Ends(t)
  <2>1. SameBusy
    <3>1. SameCall(t)
      BY <1>1, <1>3 DEF Kinds, Looks, Makes, Puts, Deletes, Here, Moves
    <3> QED
      BY <1>1, <3>1, StepBusy
  <2>2. CASE SameLists
    BY <2>1, <2>2, IndexStutters
  <2>3. ASSUME NEW o \in Objs, NEW d \in Conns, Puts(t, o, d) \/ Deletes(t, o, d)
        PROVE  SameLists \/ \E r \in Rooms : Index!Leave(d, r) \/ Index!Enter(d, r)
    BY <2>1, <2>3, PutRefines, DeleteRefines
  <2>4. ASSUME NEW o \in Objs, Looks(t, o) \/ Makes(t, o) PROVE SameLists
    BY <2>4, SameListed, MadeListed DEF Looks, Core
  <2>5. Moves(t) => SameLists
    BY SameListed DEF Moves, Core
  <2> QED
    BY <1>1, <1>3, <2>2, <2>3, <2>4, <2>5 DEF Kinds, Index!Next
<1> QED
  BY <1>2, <1>3

LEMMA NextRefines ==
  ASSUME Contract, Core, Placing, BusyIs, BusyIs', [Next]_vars
  PROVE  Index!Next \/ UNCHANGED IndexVars
<1>1. ASSUME NEW c \in Conns, NEW r \in Rooms, Adds(c, r) PROVE Index!Begin(c, r)
  <2>1. SameLists
    BY <1>1, SameShards, SameListed DEF Adds, Core
  <2>2. Begun(LoopOf[c], "get", r, c, LoopOf[c])
    BY <1>1 DEF Adds
  <2> QED
    BY <2>1, <2>2, BegunBusy, IndexBegins
<1>2. ASSUME NEW c \in Conns, Removes(c) PROVE \E r \in Rooms : Index!Begin(c, r)
  <2>1. SameLists
    BY <1>2, SameShards, SameListed DEF Removes, Core
  <2>2. Begun(LoopOf[c], "find", seat[c], c, LoopOf[c]) /\ seat[c] \in Rooms
    BY <1>2 DEF Removes
  <2> QED
    BY <2>1, <2>2, BegunBusy, IndexBegins
<1>3. ASSUME NEW c \in Conns, Skips(c) PROVE UNCHANGED IndexVars
  <2>1. SameLists
    BY <1>3, SameShards, SameListed DEF Skips, Core
  <2> QED
    BY <1>3, <2>1, CallsSameBusy, IndexStutters DEF Skips
<1>4. ASSUME NEW r \in Rooms, Collects(r) PROVE Index!Drop(r)
  <2>1. SameBusy
    BY <1>4, CallsSameBusy DEF Collects
  <2>2. ASSUME NEW c \in Conns, Lists(r, c) PROVE BusyIn(c, r)
    <3>1. About(c, rooms[r], Counting)
      BY <1>4, <2>2 DEF Collects, Lists, Placing, Collectable
    <3>2. Doing(c).conn = c /\ Doing(c).room = r
      BY <1>4, <3>1, LoopThread DEF Collects, About, Doing, Placing, Fetched
    <3> QED
      BY <3>2 DEF BusyIs
  <2> QED
    BY <1>4, <2>1, <2>2, CollectListed, IndexDrops
<1>5. CASE Still
  <2>1. SameLists
    BY <1>5, SameShards, SameListed DEF Still, Core
  <2> QED
    BY <1>5, <2>1, CallsSameBusy, IndexStutters DEF Still
<1>6. Swept /\ Typed /\ OnLoop /\ addOnLoop
  BY DEF Core, Placing, Contract
<1> QED
  BY <1>1, <1>2, <1>3, <1>4, <1>5, <1>6, NextKinds, StepRefines DEF Index!Next

\* Without the contract the table is not claimed to be anything.
LEMMA FreeRefines == ~addOnLoop /\ ~addOnLoop' => UNCHANGED IndexVars
BY DEF IndexVars, Busy, BusyIn, RoomListing

LEMMA KeptRefines ==
  ASSUME Kept, Kept', [Next]_vars
  PROVE  Index!Next \/ UNCHANGED IndexVars
<1>1. addOnLoop' = addOnLoop
  BY FlagKept DEF Kept
<1>2. CASE addOnLoop
  <2>1. Contract /\ Core /\ Placing /\ BusyIs /\ BusyIs'
    <3>1. BusyIs
      BY <1>2, CoreBusy DEF Kept
    <3>2. (addOnLoop /\ Core => BusyIs)'
      BY CoreBusy, PTL
    <3>3. BusyIs'
      BY <1>1, <1>2, <3>2 DEF Kept
    <3> QED
      BY <1>1, <1>2, <3>1, <3>3 DEF Kept, Contract
  <2> QED
    BY <2>1, NextRefines
<1>3. CASE ~addOnLoop
  BY <1>1, <1>3, FreeRefines
<1> QED
  BY <1>2, <1>3

LEMMA InitRefines == Init => Index!Init
<1> SUFFICES ASSUME Init PROVE /\ \A c \in Conns : RoomListing(c) = {}
                               /\ \A c \in Conns, r \in Rooms : ~BusyIn(c, r)
  BY InBusy, BusyPairs DEF Index!Init, Busy
<1>1. \A c \in Conns : c # NULL
  BY NullAssumption
<1> QED
  BY <1>1 DEF Init, RoomListing, BusyIn, Idle

\* Under the contract the manager's steps, seen from its callers, are those of one
\* atomic table of connections and rooms: the maps, counters, bits and locks of the
\* loops implement module RoomIndex (manager.go:142-216, 329-346).
THEOREM IndexImplemented == Spec => ImplementsIndex
<1>1. Init => Kept
  BY InitKept
<1>2. Kept /\ [Next]_vars => Kept'
  BY NextKept
<1>3. Kept /\ Kept' /\ [Next]_vars
        => [Index!Next]_<<[c \in Conns |-> RoomListing(c)],
                          {p \in Conns \X Rooms : BusyIn(p[1], p[2])}>>
  BY KeptRefines DEF IndexVars, Busy
<1> QED
  BY <1>1, <1>2, <1>3, InitRefines, PTL DEF Spec, ImplementsIndex, Index!Spec

-----------------------------------------------------------------------------
(* Sums.  FoldFunction is a recursive function on the subsets of the        *)
(* domain; SumsDefined says that there is one, by induction on their size.  *)

LEMMA LeastNat ==
  ASSUME NEW T \in SUBSET Nat, T # {}
  PROVE  \E x \in T : \A y \in T : x <= y
<1>1. IsWellFoundedOn(OpToRel(<, Nat), Nat)
  BY NatLessThanWellFounded
<1>2. PICK x \in T : \A y \in T : ~ (<<y, x>> \in OpToRel(<, Nat))
  BY <1>1, WFMin
<1>3. \A y \in T : <<y, x>> \in OpToRel(<, Nat) <=> y < x
  BY DEF OpToRel
<1>4. \A y \in T : ~(y < x) /\ y \in Nat /\ x \in Nat
  BY <1>2, <1>3
<1>5. \A y \in T : x <= y
  BY <1>4, SMT
<1> QED
  BY <1>5

LEMMA CountInduction ==
  ASSUME NEW N, 0 \in N, \A n \in Nat : n \in N => n + 1 \in N
  PROVE  Nat \subseteq N
<1> SUFFICES ASSUME Nat \ N # {} PROVE FALSE
  OBVIOUS
<1>1. PICK x \in Nat \ N : \A y \in Nat \ N : x <= y
  BY LeastNat
<1>2. x - 1 \in Nat /\ x - 1 \notin Nat \ N
  BY <1>1
<1> QED
  BY <1>1, <1>2

\* What holds of a finite set when it holds of the set with any element less.
LEMMA SubsetInduction ==
  ASSUME NEW S, IsFiniteSet(S), NEW F, {} \in F,
         \A T \in SUBSET S : T # {} /\ (\A x \in T : T \ {x} \in F) => T \in F
  PROVE  SUBSET S \subseteq F
<1>1. \A T \in SUBSET S : IsFiniteSet(T) /\ Cardinality(T) \in Nat
  BY FS_Subset, FS_CardinalityType
<1>2. PICK N : N = {n \in Nat : \A T \in SUBSET S : Cardinality(T) = n => T \in F}
  OBVIOUS
<1>3. 0 \in N
  BY <1>1, <1>2, FS_EmptySet
<1>4. ASSUME NEW n \in Nat, n \in N PROVE n + 1 \in N
  <2>1. ASSUME NEW T \in SUBSET S, Cardinality(T) = n + 1 PROVE T \in F
    <3>1. T # {}
      <4>1. Cardinality(T) = 0 <=> T = {}
        BY <1>1, FS_EmptySet
      <4> QED
        BY <2>1, <4>1
    <3>2. ASSUME NEW x \in T PROVE T \ {x} \in F
      <4>1. Cardinality(T \ {x}) = n /\ T \ {x} \in SUBSET S
        BY <1>1, <2>1, FS_RemoveElement
      <4> QED
        BY <1>2, <1>4, <4>1
    <3> QED
      BY <3>1, <3>2
  <2> QED
    BY <1>2, <2>1
<1>5. Nat \subseteq N
  BY <1>3, <1>4, CountInduction
<1> QED
  BY <1>1, <1>2, <1>5

SumOf(f) == FoldFunction(+, 0, f)
First(s) == CHOOSE x \in s : TRUE

Sums(S, f, g) ==
  g = [s \in SUBSET S |-> IF s = {} THEN 0 ELSE f[First(s)] + g[s \ {First(s)}]]

LEMMA SumsExist ==
  ASSUME NEW S, IsFiniteSet(S), NEW f \in [S -> Int]
  PROVE  \E g \in [SUBSET S -> Int] : Sums(S, f, g)
<1>1. \A T \in SUBSET S : IsFiniteSet(T) /\ Cardinality(T) \in Nat
  BY FS_Subset, FS_CardinalityType
<1>2. \A s \in SUBSET S : s # {} =>
        /\ First(s) \in s /\ f[First(s)] \in Int /\ s \ {First(s)} \in SUBSET S
        /\ Cardinality(s \ {First(s)}) = Cardinality(s) - 1
  BY <1>1, FS_RemoveElement DEF First
<1> DEFINE Next1(g) == [s \in SUBSET S |-> IF s = {} THEN 0 ELSE f[First(s)] + g[s \ {First(s)}]]
           UpTo(n, g) == \A s \in SUBSET S : Cardinality(s) <= n => g[s] = Next1(g)[s]
<1>3. ASSUME NEW g \in [SUBSET S -> Int] PROVE Next1(g) \in [SUBSET S -> Int]
  <2>1. ASSUME NEW s \in SUBSET S, s # {} PROVE f[First(s)] + g[s \ {First(s)}] \in Int
    <3>1. g[s \ {First(s)}] \in Int /\ f[First(s)] \in Int
      BY <1>2, <2>1
    <3> QED
      BY <3>1
  <2> QED
    BY <2>1
<1>4. PICK N : N = {n \in Nat : \E g \in [SUBSET S -> Int] : UpTo(n, g)}
  OBVIOUS
<1>5. 0 \in N
  <2>1. PICK g : g = [s \in SUBSET S |-> 0]
    OBVIOUS
  <2>2. \A s \in SUBSET S : Cardinality(s) <= 0 => s = {}
    BY <1>1, FS_EmptySet
  <2>3. g \in [SUBSET S -> Int] /\ UpTo(0, g)
    BY <2>1, <2>2
  <2> QED
    BY <1>4, <2>3
<1>6. ASSUME NEW n \in Nat, n \in N PROVE n + 1 \in N
  <2>1. PICK g \in [SUBSET S -> Int] : UpTo(n, g)
    BY <1>4, <1>6
  <2>2. PICK h : h = Next1(g)
    OBVIOUS
  <2>3. h \in [SUBSET S -> Int]
    BY <1>3, <2>2
  <2>4. ASSUME NEW s \in SUBSET S, Cardinality(s) <= n + 1 PROVE h[s] = Next1(h)[s]
    <3>1. CASE s = {}
      BY <2>2, <3>1
    <3>2. CASE s # {}
      <4>1. PICK t \in SUBSET S : t = s \ {First(s)}
        OBVIOUS
      <4>2. Cardinality(t) = Cardinality(s) - 1 /\ Cardinality(s) \in Nat
        BY <1>1, <1>2, <3>2, <4>1
      <4>3. Cardinality(t) <= n
        BY <2>4, <4>2
      <4>4. g[t] = h[t]
        BY <2>1, <2>2, <4>3
      <4> QED
        BY <2>2, <3>2, <4>1, <4>4
    <3> QED
      BY <3>1, <3>2
  <2>5. UpTo(n + 1, h)
    BY <2>4
  <2>6. n + 1 \in Nat
    OBVIOUS
  <2> HIDE DEF UpTo
  <2> QED
    BY <1>4, <2>3, <2>5, <2>6
<1>7. Cardinality(S) \in N
  BY <1>1, <1>5, <1>6, CountInduction
<1>8. PICK g \in [SUBSET S -> Int] : UpTo(Cardinality(S), g)
  BY <1>4, <1>7
<1>9. \A s \in SUBSET S : Cardinality(s) <= Cardinality(S)
  BY FS_Subset
<1>10. \A s \in SUBSET S : g[s] = Next1(g)[s]
  BY <1>8, <1>9
<1>11. g = Next1(g)
  BY <1>3, <1>8, <1>10
<1> QED
  BY <1>8, <1>11 DEF Sums

Summing(S, f, g) ==
  /\ g \in [SUBSET S -> Int] /\ SumOf(f) = g[S] /\ g[{}] = 0
  /\ \A s \in SUBSET S : s # {} =>
       First(s) \in s /\ g[s] = f[First(s)] + g[s \ {First(s)}]

LEMMA SumsDefined ==
  ASSUME NEW S, IsFiniteSet(S), NEW f \in [S -> Int]
  PROVE  \E g : Summing(S, f, g)
<1>1. PICK g : g = CHOOSE h : Sums(S, f, h)
  OBVIOUS
<1>2. Sums(S, f, g)
  BY <1>1, SumsExist
<1>3. SumOf(f) = g[S]
  BY <1>1 DEF SumOf, FoldFunction, FoldFunctionOnSet, MapThenFoldSet, Sums, First
<1>4. /\ g[{}] = 0
      /\ \A s \in SUBSET S : s # {} => g[s] = f[First(s)] + g[s \ {First(s)}]
  BY <1>2 DEF Sums
<1>5. \A s \in SUBSET S : s # {} => First(s) \in s
  BY DEF First
<1>6. PICK F : F = {s \in SUBSET S : g[s] \in Int}
  OBVIOUS
<1>7. ASSUME NEW T \in SUBSET S, T # {}, \A x \in T : T \ {x} \in F PROVE T \in F
  <2>1. First(T) \in T /\ f[First(T)] \in Int
    BY <1>5, <1>7
  <2>2. T \ {First(T)} \in F
    BY <1>7, <2>1
  <2>3. g[T \ {First(T)}] \in Int
    BY <1>6, <2>2
  <2>4. g[T] = f[First(T)] + g[T \ {First(T)}]
    BY <1>4, <1>7
  <2>5. g[T] \in Int
    BY <2>1, <2>3, <2>4
  <2> QED
    BY <1>6, <2>5
<1>8. {} \in F
  BY <1>4, <1>6
<1>9. SUBSET S \subseteq F
  BY <1>7, <1>8, SubsetInduction
<1>10. g \in [SUBSET S -> Int]
  BY <1>2, <1>6, <1>9 DEF Sums
<1> QED
  BY <1>3, <1>4, <1>5, <1>10 DEF Summing

LEMMA SumZero ==
  ASSUME NEW S, IsFiniteSet(S) PROVE SumOf([x \in S |-> 0]) = 0
<1>1. PICK f : f = [x \in S |-> 0]
  OBVIOUS
<1> f \in [S -> Int]
  BY <1>1
<1>2. PICK g : Summing(S, f, g)
  BY SumsDefined
<1> USE <1>2 DEF Summing
<1>3. PICK F : F = {s \in SUBSET S : g[s] = 0}
  OBVIOUS
<1>4. ASSUME NEW T \in SUBSET S, T # {}, \A x \in T : T \ {x} \in F PROVE T \in F
  <2>1. f[First(T)] = 0 /\ T \ {First(T)} \in F
    BY <1>1, <1>2, <1>4
  <2> QED
    BY <1>2, <1>3, <1>4, <2>1
<1>5. {} \in F
  BY <1>3
<1>6. SUBSET S \subseteq F
  BY <1>4, <1>5, SubsetInduction
<1> QED
  BY <1>1, <1>3, <1>6

LEMMA SumTyped ==
  ASSUME NEW S, IsFiniteSet(S), NEW f \in [S -> Int] PROVE SumOf(f) \in Int
<1>1. PICK g : Summing(S, f, g)
  BY SumsDefined
<1>2. S \in SUBSET S
  OBVIOUS
<1> QED
  BY <1>1, <1>2 DEF Summing

\* A sum changes by as much as one of its terms.
LEMMA SumChanged ==
  ASSUME NEW S, IsFiniteSet(S), NEW f \in [S -> Int], NEW k \in [S -> Int],
         NEW l \in S, NEW d \in Int, k[l] = f[l] + d, \A x \in S \ {l} : k[x] = f[x]
  PROVE  SumOf(f) \in Int /\ SumOf(k) = SumOf(f) + d
<1>1. PICK g : Summing(S, f, g)
  BY SumsDefined
<1>2. PICK h : Summing(S, k, h)
  BY SumsDefined
<1> USE <1>1, <1>2 DEF Summing
<1>3. PICK F : F = {s \in SUBSET S : h[s] = g[s] + (IF l \in s THEN d ELSE 0)}
  OBVIOUS
<1>4. ASSUME NEW T \in SUBSET S, T # {}, \A x \in T : T \ {x} \in F PROVE T \in F
  <2>1. PICK x \in T, U \in SUBSET S : x = First(T) /\ U = T \ {x} /\ U \in F
    BY <1>1, <1>4
  <2>2. h[T] = k[x] + h[U] /\ g[T] = f[x] + g[U]
    BY <1>1, <1>2, <1>4, <2>1
  <2>3. h[U] = g[U] + (IF l \in U THEN d ELSE 0)
    BY <1>3, <2>1
  <2>4. /\ g[T] \in Int /\ g[U] \in Int /\ f[x] \in Int
        /\ x = l => k[x] = f[x] + d
        /\ x # l => k[x] = f[x]
    OBVIOUS
  <2>5. CASE x = l
    <3>1. l \notin U /\ l \in T
      BY <2>1, <2>5
    <3> QED
      BY <1>3, <2>2, <2>3, <2>4, <2>5, <3>1
  <2>6. CASE x # l
    <3>1. l \in U <=> l \in T
      BY <2>1, <2>6
    <3> QED
      BY <1>3, <2>2, <2>3, <2>4, <2>6, <3>1
  <2> QED
    BY <2>5, <2>6
<1>5. {} \in F
  BY <1>1, <1>2, <1>3
<1>6. SUBSET S \subseteq F
  BY <1>4, <1>5, SubsetInduction
<1>7. h[S] = g[S] + d /\ g[S] \in Int
  BY <1>3, <1>6
<1> QED
  BY <1>7

-----------------------------------------------------------------------------
(* The two counters.  Between the atomic adds of a call they differ, so     *)
(* CountersAgree needs Summed, which counts the calls in between.           *)

Stands(o, pc) == {t \in Threads : th[t].pc = pc /\ th[t].obj = o}

Summed(o) ==
  LocalConnCount[o] + Cardinality(Stands(o, "unshard"))
    = SumOf(ShardConnCount[o]) + Cardinality(Stands(o, "shard"))

CountersSummed == \A o \in Objs : Summed(o)

LEMMA StandsFinite ==
  ASSUME NEW o, NEW pc
  PROVE  /\ IsFiniteSet(Stands(o, pc)) /\ IsFiniteSet(Stands(o, pc)')
         /\ Cardinality(Stands(o, pc)) \in Nat
<1>1. IsFiniteSet(Threads)
  BY FiniteAssumption, FS_Union DEF Threads
<1>2. Stands(o, pc) \in SUBSET Threads /\ Stands(o, pc)' \in SUBSET Threads
  BY DEF Stands
<1> QED
  BY <1>1, <1>2, FS_Subset, FS_CardinalityType

LEMMA SumNow ==
  ASSUME NEW o \in Objs, NEW f, ShardConnCount'[o] = f
  PROVE  SumOf(ShardConnCount[o])' = SumOf(f)
BY DEF SumOf, FoldFunction, FoldFunctionOnSet, MapThenFoldSet

LEMMA SummedKept ==
  ASSUME NEW o \in Objs, Summed(o),
         LocalConnCount'[o] = LocalConnCount[o], ShardConnCount'[o] = ShardConnCount[o],
         Stands(o, "shard")' = Stands(o, "shard"), Stands(o, "unshard")' = Stands(o, "unshard")
  PROVE  Summed(o)'
<1>1. PICK f : f = ShardConnCount[o]
  OBVIOUS
<1>2. SumOf(ShardConnCount[o])' = SumOf(f)
  BY <1>1, SumNow
<1>3. SumOf(ShardConnCount[o]) = SumOf(f)
  BY <1>1
<1> QED
  BY <1>2, <1>3 DEF Summed

\* A thread that is at neither add before and after its step.
LEMMA StandsKept ==
  ASSUME NEW t \in Threads, NEW o, NEW pc,
         \A s \in Threads \ {t} : th'[s] = th[s],
         th[t].pc # pc, th'[t].pc # pc
  PROVE  Stands(o, pc)' = Stands(o, pc)
BY DEF Stands

\* The first add of a call, then its second.
LEMMA StandsTaken ==
  ASSUME NEW t \in Threads, NEW o, NEW pc,
         \A s \in Threads \ {t} : th'[s] = th[s],
         th[t].pc # pc, th'[t].pc = pc, th'[t].obj = o
  PROVE  /\ Cardinality(Stands(o, pc)') = Cardinality(Stands(o, pc)) + 1
         /\ \A p : p # o => Stands(p, pc)' = Stands(p, pc)
<1>1. PICK S : S = Stands(o, pc)
  OBVIOUS
<1>2. Stands(o, pc)' = S \cup {t} /\ t \notin S
  BY <1>1 DEF Stands
<1>3. IsFiniteSet(S)
  BY <1>1, StandsFinite
<1>4. Cardinality(S \cup {t}) = Cardinality(S) + 1
  BY <1>2, <1>3, FS_AddElement
<1>5. \A p : p # o => Stands(p, pc)' = Stands(p, pc)
  BY DEF Stands
<1> QED
  BY <1>1, <1>2, <1>4, <1>5

LEMMA StandsLeft ==
  ASSUME NEW t \in Threads, NEW o, NEW pc,
         \A s \in Threads \ {t} : th'[s] = th[s],
         t \in Stands(o, pc), th'[t].pc # pc
  PROVE  /\ Cardinality(Stands(o, pc)') = Cardinality(Stands(o, pc)) - 1
         /\ \A p : p # o => Stands(p, pc)' = Stands(p, pc)
<1>1. PICK S : S = Stands(o, pc)
  OBVIOUS
<1>2. Stands(o, pc)' = S \ {t} /\ t \in S
  BY <1>1 DEF Stands
<1>3. IsFiniteSet(S)
  BY <1>1, StandsFinite
<1>4. Cardinality(S \ {t}) = Cardinality(S) - 1
  BY <1>2, <1>3, FS_RemoveElement
<1>5. \A p : p # o => Stands(p, pc)' = Stands(p, pc)
  BY DEF Stands
<1> QED
  BY <1>1, <1>2, <1>4, <1>5

\* LocalConnCount.Add: the room's counter moves, its shards' is still to follow.
LEMMA LocalSummed ==
  ASSUME Typed, CountersSummed, NEW t \in Threads, AddLocal(t) \/ RemoveLocal(t)
  PROVE  CountersSummed'
<1>1. th[t].obj \in Objs /\ th[t].pc \in {"local", "unlocal"}
  BY CallTyped DEF AddLocal, RemoveLocal, At, NoObjSteps
<1>2. /\ Onward(t) /\ th'[t].obj = th[t].obj
      /\ th[t].pc = "local" => th'[t].pc = "shard"
      /\ th[t].pc = "unlocal" => th'[t].pc = "unshard"
  BY GoToTable DEF AddLocal, RemoveLocal, At, Steps
<1>3. \A s \in Threads \ {t} : th'[s] = th[s]
  BY <1>2 DEF Onward
<1>4. PICK o \in Objs : o = th[t].obj
  BY <1>1
<1>5. /\ ShardConnCount' = ShardConnCount
      /\ \A p \in Objs : p # o => LocalConnCount'[p] = LocalConnCount[p]
  BY <1>4 DEF AddLocal, RemoveLocal, Typed, TypeOK
<1>6. SumOf(ShardConnCount[o]) \in Int /\ LocalConnCount[o] \in Int
  <2>1. ShardConnCount[o] \in [Loops -> Int] /\ LocalConnCount[o] \in Int
    BY DEF Typed, TypeOK
  <2> QED
    BY <2>1, SumTyped, FiniteAssumption
<1>7. PICK a \in Nat, b \in Nat :
        a = Cardinality(Stands(o, "shard")) /\ b = Cardinality(Stands(o, "unshard"))
  BY StandsFinite
<1>8. PICK x \in Int, y \in Int : x = LocalConnCount[o] /\ y = SumOf(ShardConnCount[o])
  BY <1>6
<1>9. x + b = y + a
  BY <1>7, <1>8 DEF CountersSummed, Summed
<1>10. SumOf(ShardConnCount[o])' = y
  <2>1. PICK f : f = ShardConnCount[o]
    OBVIOUS
  <2>2. SumOf(ShardConnCount[o])' = SumOf(f)
    BY <1>5, <2>1, SumNow
  <2> QED
    BY <1>8, <2>1, <2>2
<1>11. CASE th[t].pc = "local"
  <2>1. /\ Cardinality(Stands(o, "shard")') = a + 1
        /\ \A p : p # o => Stands(p, "shard")' = Stands(p, "shard")
    BY <1>1, <1>2, <1>3, <1>4, <1>7, <1>11, StandsTaken
  <2>2. \A p : Stands(p, "unshard")' = Stands(p, "unshard")
    BY <1>2, <1>3, <1>11, StandsKept
  <2>3. LocalConnCount'[o] = x + 1
    BY <1>4, <1>8, <1>11 DEF AddLocal, RemoveLocal, At, Typed, TypeOK
  <2>4. (x + 1) + b = y + (a + 1)
    BY <1>9
  <2>5. Summed(o)'
    BY <1>7, <1>10, <2>1, <2>2, <2>3, <2>4 DEF Summed
  <2> QED
    BY <1>5, <2>1, <2>2, <2>5, SummedKept DEF CountersSummed
<1>12. CASE th[t].pc = "unlocal"
  <2>1. /\ Cardinality(Stands(o, "unshard")') = b + 1
        /\ \A p : p # o => Stands(p, "unshard")' = Stands(p, "unshard")
    BY <1>1, <1>2, <1>3, <1>4, <1>7, <1>12, StandsTaken
  <2>2. \A p : Stands(p, "shard")' = Stands(p, "shard")
    BY <1>2, <1>3, <1>12, StandsKept
  <2>3. LocalConnCount'[o] = x - 1
    BY <1>4, <1>8, <1>12 DEF AddLocal, RemoveLocal, At, Typed, TypeOK
  <2>4. (x - 1) + (b + 1) = y + a
    BY <1>9
  <2>5. Summed(o)'
    BY <1>7, <1>10, <2>1, <2>2, <2>3, <2>4 DEF Summed
  <2> QED
    BY <1>5, <2>1, <2>2, <2>5, SummedKept DEF CountersSummed
<1> QED
  BY <1>1, <1>11, <1>12

\* ShardConnCount[loopIdx].Add: the sum follows.
LEMMA ShardSummed ==
  ASSUME Typed, CountersSummed, NEW t \in Threads, AddShard(t) \/ RemoveShard(t)
  PROVE  CountersSummed'
<1>1. th[t].obj \in Objs /\ th[t].loop \in Loops /\ th[t].pc \in {"shard", "unshard"}
  BY CallTyped DEF AddShard, RemoveShard, At, NoObjSteps, RangeSteps
<1>2. /\ Onward(t)
      /\ th'[t].pc \in {"or", "clear", "and", "test"}
  BY GoToTable DEF AddShard, RemoveShard, At, Steps
<1>3. \A s \in Threads \ {t} : th'[s] = th[s]
  BY <1>2 DEF Onward
<1>4. PICK o \in Objs, l \in Loops : o = th[t].obj /\ l = th[t].loop
  BY <1>1
<1>5. PICK f \in [Loops -> Int] : f = ShardConnCount[o]
  BY DEF Typed, TypeOK
<1>6. /\ LocalConnCount' = LocalConnCount
      /\ \A p \in Objs : p # o => ShardConnCount'[p] = ShardConnCount[p]
  BY <1>4 DEF AddShard, RemoveShard, Typed, TypeOK
<1>7. SumOf(f) \in Int /\ LocalConnCount[o] \in Int
  BY SumTyped, FiniteAssumption DEF Typed, TypeOK
<1>8. PICK a \in Nat, b \in Nat :
        a = Cardinality(Stands(o, "shard")) /\ b = Cardinality(Stands(o, "unshard"))
  BY StandsFinite
<1>9. PICK x \in Int, y \in Int : x = LocalConnCount[o] /\ y = SumOf(f)
  BY <1>7
<1>10. x + b = y + a
  BY <1>5, <1>8, <1>9 DEF CountersSummed, Summed
<1>11. ASSUME NEW d \in Int, ShardConnCount'[o] \in [Loops -> Int],
              ShardConnCount'[o][l] = f[l] + d,
              \A m \in Loops \ {l} : ShardConnCount'[o][m] = f[m]
       PROVE  SumOf(ShardConnCount[o])' = y + d
  <2>1. PICK g \in [Loops -> Int] : g = ShardConnCount'[o]
    BY <1>11
  <2>2. SumOf(g) = SumOf(f) + d
    BY <1>11, <2>1, SumChanged, FiniteAssumption
  <2> QED
    BY <1>9, <2>1, <2>2, SumNow
<1>12. CASE th[t].pc = "shard"
  <2>1. /\ Cardinality(Stands(o, "shard")') = a - 1
        /\ \A p : p # o => Stands(p, "shard")' = Stands(p, "shard")
    <3>1. th'[t].pc # "shard" /\ t \in Stands(o, "shard")
      BY <1>2, <1>4, <1>12 DEF Stands
    <3>2. /\ Cardinality(Stands(o, "shard")') = Cardinality(Stands(o, "shard")) - 1
          /\ \A p : p # o => Stands(p, "shard")' = Stands(p, "shard")
      BY <1>3, <3>1, StandsLeft
    <3> QED
      BY <1>8, <3>2
  <2>2. \A p : Stands(p, "unshard")' = Stands(p, "unshard")
    BY <1>2, <1>3, <1>12, StandsKept
  <2>3. /\ ShardConnCount'[o] \in [Loops -> Int] /\ ShardConnCount'[o][l] = f[l] + 1
        /\ \A m \in Loops \ {l} : ShardConnCount'[o][m] = f[m]
    <3>1. ShardConnCount' = [ShardConnCount EXCEPT ![o][l] = ShardConnCount[o][l] + 1]
      BY <1>4, <1>12 DEF AddShard, RemoveShard, At
    <3>2. PICK v \in Int : v = f[l] + 1 /\ v = ShardConnCount[o][l] + 1
      BY <1>5
    <3>3. ShardConnCount \in [Objs -> [Loops -> Int]]
      BY DEF Typed, TypeOK
    <3>4. /\ ShardConnCount' \in [Objs -> [Loops -> Int]] /\ ShardConnCount'[o][l] = v
          /\ \A m \in Loops \ {l} : ShardConnCount'[o][m] = ShardConnCount[o][m]
      BY <3>1, <3>2, <3>3, EntrySet
    <3> QED
      BY <1>5, <3>2, <3>4
  <2>4. SumOf(ShardConnCount[o])' = y + 1
    BY <1>11, <2>3
  <2>5. x + b = (y + 1) + (a - 1)
    BY <1>10
  <2>6. Summed(o)'
    BY <1>6, <1>8, <1>9, <2>1, <2>2, <2>4, <2>5 DEF Summed
  <2> QED
    BY <1>6, <2>1, <2>2, <2>6, SummedKept DEF CountersSummed
<1>13. CASE th[t].pc = "unshard"
  <2>1. /\ Cardinality(Stands(o, "unshard")') = b - 1
        /\ \A p : p # o => Stands(p, "unshard")' = Stands(p, "unshard")
    <3>1. th'[t].pc # "unshard" /\ t \in Stands(o, "unshard")
      BY <1>2, <1>4, <1>13 DEF Stands
    <3>2. /\ Cardinality(Stands(o, "unshard")') = Cardinality(Stands(o, "unshard")) - 1
          /\ \A p : p # o => Stands(p, "unshard")' = Stands(p, "unshard")
      BY <1>3, <3>1, StandsLeft
    <3> QED
      BY <1>8, <3>2
  <2>2. \A p : Stands(p, "shard")' = Stands(p, "shard")
    BY <1>2, <1>3, <1>13, StandsKept
  <2>3. /\ ShardConnCount'[o] \in [Loops -> Int] /\ ShardConnCount'[o][l] = f[l] + (-1)
        /\ \A m \in Loops \ {l} : ShardConnCount'[o][m] = f[m]
    <3>1. ShardConnCount' = [ShardConnCount EXCEPT ![o][l] = ShardConnCount[o][l] - 1]
      BY <1>4, <1>13 DEF AddShard, RemoveShard, At
    <3>2. PICK v \in Int : v = f[l] + (-1) /\ v = ShardConnCount[o][l] - 1
      BY <1>5
    <3>3. ShardConnCount \in [Objs -> [Loops -> Int]]
      BY DEF Typed, TypeOK
    <3>4. /\ ShardConnCount' \in [Objs -> [Loops -> Int]] /\ ShardConnCount'[o][l] = v
          /\ \A m \in Loops \ {l} : ShardConnCount'[o][m] = ShardConnCount[o][m]
      BY <3>1, <3>2, <3>3, EntrySet
    <3> QED
      BY <1>5, <3>2, <3>4
  <2>4. SumOf(ShardConnCount[o])' = y + (-1)
    BY <1>11, <2>3
  <2>5. x + (b - 1) = (y + (-1)) + a
    BY <1>10
  <2>6. Summed(o)'
    BY <1>6, <1>8, <1>9, <2>1, <2>2, <2>4, <2>5 DEF Summed
  <2> QED
    BY <1>6, <2>1, <2>2, <2>6, SummedKept DEF CountersSummed
<1> QED
  BY <1>1, <1>12, <1>13

\* A room made anew has counters of zero, and no call has reached it.
LEMMA FetchedSummed ==
  ASSUME Typed, CountersSummed, NEW t \in Threads, AddGetOrCreate(t)
  PROVE  CountersSummed'
<1>1. PICK o \in Objs :
        /\ Fetches(t, o) \/ Creates(t, o)
        /\ Onward(t) /\ th'[t].pc = "exists"
  BY GetOrCreateGives
<1>2. \A p, pc : pc \in {"shard", "unshard"} => Stands(p, pc)' = Stands(p, pc)
  <2>1. \A s \in Threads \ {t} : th'[s] = th[s]
    BY <1>1 DEF Onward
  <2>2. th[t].pc = "get"
    BY DEF AddGetOrCreate, At
  <2> QED
    BY <1>1, <2>1, <2>2, StandsKept
<1>3. ASSUME NEW p \in Objs, p # o \/ Fetches(t, o) PROVE Summed(p)'
  <2>1. LocalConnCount'[p] = LocalConnCount[p] /\ ShardConnCount'[p] = ShardConnCount[p]
    BY <1>1, <1>3 DEF Fetches, Creates, counters, Typed, TypeOK
  <2> QED
    BY <1>2, <2>1, SummedKept DEF CountersSummed
<1>4. ASSUME Creates(t, o) PROVE Summed(o)'
  <2>1. LocalConnCount'[o] = 0 /\ ShardConnCount'[o] = [l \in Loops |-> 0]
    BY <1>4 DEF Creates, Typed, TypeOK
  <2>2. SumOf(ShardConnCount[o])' = 0
    <3>1. PICK f : f = [l \in Loops |-> 0]
      OBVIOUS
    <3>2. SumOf(ShardConnCount[o])' = SumOf(f)
      BY <2>1, <3>1, SumNow
    <3> QED
      BY <3>1, <3>2, SumZero, FiniteAssumption
  <2>3. Stands(o, "shard") = {} /\ Stands(o, "unshard") = {}
    BY <1>4 DEF Creates, Free, Stands
  <2>4. Cardinality(Stands(o, "shard")') = 0 /\ Cardinality(Stands(o, "unshard")') = 0
    BY <1>2, <2>3, FS_EmptySet
  <2> QED
    BY <2>1, <2>2, <2>4 DEF Summed
<1> QED
  BY <1>1, <1>3, <1>4 DEF CountersSummed

\* The other steps of a call leave the counters alone.
LEMMA OtherSummed ==
  ASSUME Typed, CountersSummed, NEW t \in Threads,
         UNCHANGED <<LocalConnCount, ShardConnCount>>,
         \A s \in Threads \ {t} : th'[s] = th[s],
         th[t].pc \notin {"shard", "unshard"}, th'[t].pc \notin {"shard", "unshard"}
  PROVE  CountersSummed'
<1>1. \A o, pc : pc \in {"shard", "unshard"} => Stands(o, pc)' = Stands(o, pc)
  BY StandsKept
<1> QED
  BY <1>1, SummedKept DEF CountersSummed

LEMMA NextSummed == Typed /\ CountersSummed /\ [Next]_vars => CountersSummed'
<1> SUFFICES ASSUME Typed, CountersSummed, [Next]_vars PROVE CountersSummed'
  OBVIOUS
<1>1. ASSUME NEW t \in Threads, ThreadStep(t) PROVE CountersSummed'
  <2>1. CASE AddGetOrCreate(t) \/ AddLocal(t) \/ RemoveLocal(t) \/ AddShard(t) \/ RemoveShard(t)
    BY <2>1, FetchedSummed, LocalSummed, ShardSummed
  <2>2. CASE \/ AddExists(t) \/ AddReplace(t) \/ AddPut(t) \/ AddOr(t) \/ AddClear(t)
             \/ RemoveFind(t) \/ RemoveHas(t) \/ RemoveDelete(t) \/ RemoveAnd(t)
             \/ RemoveTest(t) \/ RemoveMark(t) \/ RangeLookup(t) \/ RangeDone(t)
    <3>1. \A s \in Threads \ {t} : th'[s] = th[s]
      BY <1>1, StepOnward DEF Onward
    <3>2. UNCHANGED <<LocalConnCount, ShardConnCount>> /\ th[t].pc \notin {"shard", "unshard"}
      BY <2>2 DEF AddExists, AddReplace, AddPut, AddOr, AddClear, RemoveFind, RemoveHas,
         RemoveDelete, RemoveAnd, RemoveTest, RemoveMark, RangeLookup, RangeDone, At, counters
    <3>3. th[t] \in Call /\ th \in [Threads -> Call]
      BY DEF Typed, TypeOK
    <3>4. th'[t].pc \notin {"shard", "unshard"}
      BY <2>2, <3>3 DEF AddExists, AddReplace, AddPut, AddOr, AddClear, RemoveFind, RemoveHas,
         RemoveDelete, RemoveAnd, RemoveTest, RemoveMark, RangeLookup, RangeDone, GoTo,
         Return, Idle, Call
    <3> QED
      BY <3>1, <3>2, <3>4, OtherSummed
  <2> QED
    BY <1>1, <2>1, <2>2 DEF ThreadStep
<1>2. ASSUME NEW t \in Threads, NEW r, NEW c, NEW l, NEW pc \in {"get", "find", "lookup"},
             Begun(t, pc, r, c, l), UNCHANGED counters
      PROVE  CountersSummed'
  BY <1>2, OtherSummed DEF Begun, Idle, counters
<1>3. ASSUME NEW t \in Threads, NEW r \in Rooms, NEW c \in Conns, AddConnInLoop(t, r, c)
      PROVE  CountersSummed'
  BY <1>2, <1>3, AddBegins DEF AddConnInLoop
<1>4. ASSUME NEW c \in Conns, RemoveConnInLoop(c) PROVE CountersSummed'
  BY <1>2, <1>4, RemoveBegins, LoopThread DEF RemoveConnInLoop
<1>5. ASSUME NEW t \in Threads, NEW r \in Rooms, NEW l \in Loops, RangeLoopConns(t, r, l)
      PROVE  CountersSummed'
  BY <1>2, <1>5, RangeBegins DEF RangeLoopConns
<1>6. CASE \/ CleanerStep \/ (\E o \in Objs : Age(o)) \/ (\E t \in Threads : Fatal(t))
           \/ (\E c \in Conns : CloseUnjoined(c)) \/ UNCHANGED vars
  <2>1. UNCHANGED <<th, LocalConnCount, ShardConnCount>>
    BY <1>6, CleanerTyped, CloseTyped DEF Fatal, vars, counters
  <2> QED
    BY <2>1, SummedKept DEF CountersSummed, Stands
<1> QED
  BY <1>1, <1>3, <1>4, <1>5, <1>6 DEF Next

\* With no call in progress a room's counter is the sum of its shards' counters,
\* whichever threads call and whatever their races do to the maps
\* (manager.go:164-166, 204-206).
THEOREM CountersSafe == Spec => []CountersAgree
<1>1. Init => CountersSummed
  <2> SUFFICES ASSUME Init, NEW o \in Objs PROVE Summed(o)
    BY DEF CountersSummed
  <2>1. LocalConnCount[o] = 0 /\ ShardConnCount[o] = [l \in Loops |-> 0]
    BY DEF Init
  <2>2. SumOf(ShardConnCount[o]) = 0
    BY <2>1, SumZero, FiniteAssumption
  <2>3. Stands(o, "shard") = {} /\ Stands(o, "unshard") = {}
    BY DEF Init, Idle, Stands
  <2> QED
    BY <2>1, <2>2, <2>3, FS_EmptySet DEF Summed
<1>2. Typed /\ CountersSummed => CountersAgree
  <2> SUFFICES ASSUME Typed, CountersSummed, Quiet, NEW o \in Objs
               PROVE  LocalConnCount[o] = SumOf(ShardConnCount[o])
    BY DEF CountersAgree, SumOf
  <2>1. Stands(o, "shard") = {} /\ Stands(o, "unshard") = {}
    BY DEF Quiet, Stands
  <2>2. SumOf(ShardConnCount[o]) \in Int /\ LocalConnCount[o] \in Int
    <3>1. ShardConnCount[o] \in [Loops -> Int] /\ LocalConnCount[o] \in Int
      BY DEF Typed, TypeOK
    <3> QED
      BY <3>1, SumTyped, FiniteAssumption
  <2> QED
    BY <2>1, <2>2, FS_EmptySet DEF CountersSummed, Summed
<1> QED
  BY <1>1, <1>2, InitTyped, NextTyped, NextSummed, PTL DEF Spec
=============================================================================
