---------------------------- MODULE RoomManager ----------------------------
(***************************************************************************)
(* The room index of a node (internal/room/manager.go), one step per map   *)
(* access, atomic operation or critical section.                           *)
(*                                                                         *)
(* A room is an object: GetOrCreate and RemoveConnInLoop fetch it under    *)
(* the bucket lock and go on using it after the unlock, while cleanBucket, *)
(* holding the lock, may take it out of the bucket.  The shard maps have   *)
(* no lock at all: AddConnInLoop and RemoveConnInLoop ask their callers to *)
(* be on the event-loop that owns the shard (manager.go:143-145).          *)
(* addOnLoop says whether the callers do: TRUE is the documented contract, *)
(* FALSE is what handleJoinRoom and BroadcastLocal do, which run on        *)
(* goroutines of the worker pool.  In both a connection may be asked into  *)
(* room after room, and still be added after its OnClose has run.          *)
(*                                                                         *)
(* Two threads at conflicting accesses of one map are a data race; the Go  *)
(* runtime then stops the process, or the write takes effect, or is lost.  *)
(*                                                                         *)
(* Abstracted: each room has a bucket of its own; a time is "none" (0),    *)
(* "recent" or "expired" (more than idleSeconds ago).                      *)
(***************************************************************************)
EXTENDS Integers, FiniteSets, Functions

CONSTANTS
  Rooms, Conns, Loops, Workers,
  LoopOf,       \* the event-loop of a connection, its shard in every room
  Objs,         \* bound: Room objects in memory at a time
  Joins,        \* bound: AddConnInLoop calls there may be into the rooms, by addOnLoop
  NULL,
  GONE          \* the seat of a connection that was closed

ASSUME LoopOfAssumption == LoopOf \in [Conns -> Loops]
ASSUME FiniteAssumption ==
  IsFiniteSet(Conns) /\ IsFiniteSet(Loops) /\ IsFiniteSet(Workers)
ASSUME ThreadsAssumption == Loops \cap Workers = {}
ASSUME JoinsAssumption == Joins \in [BOOLEAN -> SUBSET [Rooms -> Nat]]
ASSUME NullAssumption ==
  /\ NULL \notin Rooms \cup Conns \cup Objs \cup Loops \cup {GONE}
  /\ GONE \notin Rooms

Threads == Loops \cup Workers

VARIABLES
  rooms,           \* bucket.rooms: the object of a room, NULL if absent
  Shards,          \* Room.Shards: the connections in each shard of an object
  ShardConnCount,  \* Room.ShardConnCount
  LocalConnCount,  \* Room.LocalConnCount
  ActiveLoops,     \* Room.ActiveLoops: the loops whose bit is set
  LastEmptyTime,   \* Room.LastEmptyTime
  addOnLoop,       \* the documented calling contract is respected
  th,              \* the call each thread is in
  sweep,           \* the room cleanBucket has locked, and its next step
  seat,            \* the room a connection was last asked into, NULL before
  joins,           \* the AddConnInLoop calls made into each room
  orphaned,        \* observer: its room was collected during its last call
  crashed          \* the Go runtime found a concurrent map access

vars == <<rooms, Shards, ShardConnCount, LocalConnCount, ActiveLoops,
          LastEmptyTime, addOnLoop, th, sweep, seat, joins, orphaned, crashed>>
counters == <<ShardConnCount, LocalConnCount, ActiveLoops, LastEmptyTime>>

Steps == {"idle",
          "get", "exists", "replace", "put", "local", "shard", "or", "clear",
          "find", "has", "delete", "unlocal", "unshard", "and", "test", "mark",
          "lookup", "range"}
Times == {"none", "recent", "expired"}
Call == [pc : Steps, room : Rooms \cup {NULL}, conn : Conns \cup {NULL},
         obj : Objs \cup {NULL}, loop : Loops \cup {NULL}]
Idle == [pc |-> "idle", room |-> NULL, conn |-> NULL, obj |-> NULL, loop |-> NULL]
NoSweep == [pc |-> "idle", room |-> NULL]

Init ==
  /\ rooms = [r \in Rooms |-> NULL]
  /\ Shards = [o \in Objs |-> [l \in Loops |-> {}]]
  /\ ShardConnCount = [o \in Objs |-> [l \in Loops |-> 0]]
  /\ LocalConnCount = [o \in Objs |-> 0]
  /\ ActiveLoops = [o \in Objs |-> {}]
  /\ LastEmptyTime = [o \in Objs |-> "none"]
  /\ addOnLoop \in BOOLEAN
  /\ th = [t \in Threads |-> Idle]
  /\ sweep = NoSweep
  /\ seat = [c \in Conns |-> NULL]
  /\ joins = [r \in Rooms |-> 0]
  /\ orphaned = {}
  /\ crashed = FALSE

-----------------------------------------------------------------------------
(* Threads and shard maps. *)

At(t, pc) == ~crashed /\ th[t].pc = pc
GoTo(t, pc) == th' = [th EXCEPT ![t].pc = pc]
Return(t) == th' = [th EXCEPT ![t] = Idle]

BusyWith(c) == \E t \in Threads : th[t].pc # "idle" /\ th[t].conn = c
Quiet == \A t \in Threads : th[t].pc = "idle"

Writing(t) == th[t].pc \in {"replace", "put", "delete"}
Accessing(t) == Writing(t) \/ th[t].pc \in {"exists", "has", "range"}

Conflict(s, t) ==
  /\ s # t
  /\ Accessing(s) /\ Accessing(t)
  /\ Writing(s) \/ Writing(t)
  /\ th[s].obj = th[t].obj /\ th[s].loop = th[t].loop

Racing(t) == \E s \in Threads : Conflict(s, t)

\* "fatal error: concurrent map writes" and its relatives end the process.
Fatal(t) ==
  /\ ~crashed
  /\ Racing(t)
  /\ crashed' = TRUE
  /\ UNCHANGED <<rooms, Shards, counters, th, sweep, seat, joins, orphaned, addOnLoop>>

\* A write of thread t to the shard of its call; lost at worst in a race.
MapWrite(t, conns) ==
  LET o == th[t].obj
      l == th[t].loop IN
  \/ Shards' = [Shards EXCEPT ![o][l] = conns]
  \/ Racing(t) /\ UNCHANGED Shards

ShardOf(t) == Shards[th[t].obj][th[t].loop]

-----------------------------------------------------------------------------
(* AddConnInLoop: for any room, again for another one, twice at the same time *)
(* on two pool goroutines, or behind the connection's OnClose.                *)

Adders(l) == IF addOnLoop THEN {l} ELSE Workers

AddConnInLoop(t, r, c) ==
  /\ At(t, "idle")
  /\ t \in Adders(LoopOf[c])
  /\ joins' = [joins EXCEPT ![r] = @ + 1]
  /\ joins' \in Joins[addOnLoop]
  /\ seat' = [seat EXCEPT ![c] = IF @ = GONE THEN GONE ELSE r]
  /\ th' = [th EXCEPT ![t] = [pc |-> "get", room |-> r, conn |-> c,
                             obj |-> NULL, loop |-> LoopOf[c]]]
  /\ orphaned' = orphaned \ {c}
  /\ UNCHANGED <<rooms, Shards, counters, sweep, crashed, addOnLoop>>

Locked(r) == sweep.pc # "idle" /\ sweep.room = r

\* An object no bucket and no thread refers to.
Free(o) ==
  /\ \A r \in Rooms : rooms[r] # o
  /\ \A t \in Threads : th[t].obj # o

\* Variant: the room is created without looking again under the lock.
AddCreateBlindly(t) ==
  LET r == th[t].room IN
  /\ At(t, "get")
  /\ \E o \in Objs : Free(o)
  /\ LET o == CHOOSE x \in Objs : Free(x) IN
       /\ rooms' = [rooms EXCEPT ![r] = o]
       /\ Shards' = [Shards EXCEPT ![o] = [l \in Loops |-> {}]]
       /\ ShardConnCount' = [ShardConnCount EXCEPT ![o] = [l \in Loops |-> 0]]
       /\ LocalConnCount' = [LocalConnCount EXCEPT ![o] = 0]
       /\ ActiveLoops' = [ActiveLoops EXCEPT ![o] = {}]
       /\ LastEmptyTime' = [LastEmptyTime EXCEPT ![o] = "none"]
       /\ th' = [th EXCEPT ![t].obj = o, ![t].pc = "exists"]
  /\ UNCHANGED <<sweep, seat, joins, orphaned, crashed, addOnLoop>>

\* GetOrCreate, one critical section: the object there is, or a fresh one.
AddGetOrCreate(t) ==
  LET r == th[t].room IN
  /\ At(t, "get")
  /\ ~Locked(r)
  /\ \/ /\ rooms[r] # NULL
        /\ th' = [th EXCEPT ![t].obj = rooms[r], ![t].pc = "exists"]
        /\ UNCHANGED <<rooms, Shards, counters>>
     \/ /\ rooms[r] = NULL
        /\ \E o \in Objs : Free(o)
        /\ LET o == CHOOSE x \in Objs : Free(x) IN
             /\ rooms' = [rooms EXCEPT ![r] = o]
             /\ Shards' = [Shards EXCEPT ![o] = [l \in Loops |-> {}]]
             /\ ShardConnCount' =
                  [ShardConnCount EXCEPT ![o] = [l \in Loops |-> 0]]
             /\ LocalConnCount' = [LocalConnCount EXCEPT ![o] = 0]
             /\ ActiveLoops' = [ActiveLoops EXCEPT ![o] = {}]
             /\ LastEmptyTime' = [LastEmptyTime EXCEPT ![o] = "none"]
             /\ th' = [th EXCEPT ![t].obj = o, ![t].pc = "exists"]
  /\ UNCHANGED <<sweep, seat, joins, orphaned, crashed, addOnLoop>>

AddExists(t) ==
  /\ At(t, "exists")
  /\ GoTo(t, IF th[t].conn \in ShardOf(t) THEN "replace" ELSE "put")
  /\ UNCHANGED <<rooms, Shards, counters, sweep, seat, joins, orphaned, crashed, addOnLoop>>

\* Variant: a connection already there is counted again.
AddReplaceCount(t) ==
  /\ At(t, "replace")
  /\ MapWrite(t, ShardOf(t) \cup {th[t].conn})
  /\ GoTo(t, "local")
  /\ UNCHANGED <<rooms, counters, sweep, seat, joins, orphaned, crashed, addOnLoop>>

\* The reference is renewed, nothing is counted.
AddReplace(t) ==
  /\ At(t, "replace")
  /\ MapWrite(t, ShardOf(t) \cup {th[t].conn})
  /\ Return(t)
  /\ UNCHANGED <<rooms, counters, sweep, seat, joins, orphaned, crashed, addOnLoop>>

AddPut(t) ==
  /\ At(t, "put")
  /\ MapWrite(t, ShardOf(t) \cup {th[t].conn})
  /\ GoTo(t, "local")
  /\ UNCHANGED <<rooms, counters, sweep, seat, joins, orphaned, crashed, addOnLoop>>

\* Variant: the room's counter is set instead of added to.
AddLocalOne(t) ==
  /\ At(t, "local")
  /\ LocalConnCount' = [LocalConnCount EXCEPT ![th[t].obj] = 1]
  /\ GoTo(t, "shard")
  /\ UNCHANGED <<rooms, Shards, ShardConnCount, ActiveLoops, LastEmptyTime,
                 sweep, seat, joins, orphaned, crashed, addOnLoop>>

AddLocal(t) ==
  /\ At(t, "local")
  /\ LocalConnCount' = [LocalConnCount EXCEPT ![th[t].obj] = @ + 1]
  /\ GoTo(t, "shard")
  /\ UNCHANGED <<rooms, Shards, ShardConnCount, ActiveLoops, LastEmptyTime,
                 sweep, seat, joins, orphaned, crashed, addOnLoop>>

AddShard(t) ==
  LET o == th[t].obj
      l == th[t].loop IN
  /\ At(t, "shard")
  /\ ShardConnCount' = [ShardConnCount EXCEPT ![o][l] = @ + 1]
  /\ GoTo(t, IF ShardConnCount'[o][l] = 1 THEN "or" ELSE "clear")
  /\ UNCHANGED <<rooms, Shards, LocalConnCount, ActiveLoops, LastEmptyTime,
                 sweep, seat, joins, orphaned, crashed, addOnLoop>>

AddOr(t) ==
  /\ At(t, "or")
  /\ ActiveLoops' = [ActiveLoops EXCEPT ![th[t].obj] = @ \cup {th[t].loop}]
  /\ GoTo(t, "clear")
  /\ UNCHANGED <<rooms, Shards, ShardConnCount, LocalConnCount, LastEmptyTime,
                 sweep, seat, joins, orphaned, crashed, addOnLoop>>

AddClear(t) ==
  /\ At(t, "clear")
  /\ LastEmptyTime' = [LastEmptyTime EXCEPT ![th[t].obj] = "none"]
  /\ Return(t)
  /\ UNCHANGED <<rooms, Shards, ShardConnCount, LocalConnCount, ActiveLoops,
                 sweep, seat, joins, orphaned, crashed, addOnLoop>>

-----------------------------------------------------------------------------
(* RemoveConnInLoop: called by OnClose, once, on the connection's loop, for   *)
(* the room of its last JOIN; no later connection has the same ConnID         *)
(* (conn_id.go:13-16).                                                        *)

RemoveConnInLoop(c) ==
  LET t == LoopOf[c] IN
  /\ At(t, "idle")
  /\ seat[c] \in Rooms
  /\ seat' = [seat EXCEPT ![c] = GONE]
  /\ th' = [th EXCEPT ![t] = [pc |-> "find", room |-> seat[c], conn |-> c,
                             obj |-> NULL, loop |-> LoopOf[c]]]
  /\ UNCHANGED <<rooms, Shards, counters, sweep, joins, orphaned, crashed, addOnLoop>>

\* OnClose of a connection that no JOIN came from has no room to remove it from.
CloseUnjoined(c) ==
  /\ At(LoopOf[c], "idle")
  /\ seat[c] = NULL
  /\ seat' = [seat EXCEPT ![c] = GONE]
  /\ UNCHANGED <<rooms, Shards, counters, th, sweep, joins, orphaned, crashed, addOnLoop>>

\* The lookup under the read lock.
RemoveFind(t) ==
  LET r == th[t].room IN
  /\ At(t, "find")
  /\ ~Locked(r)
  /\ IF rooms[r] = NULL
     THEN Return(t)
     ELSE th' = [th EXCEPT ![t].obj = rooms[r], ![t].pc = "has"]
  /\ UNCHANGED <<rooms, Shards, counters, sweep, seat, joins, orphaned, crashed, addOnLoop>>

RemoveHas(t) ==
  /\ At(t, "has")
  /\ IF th[t].conn \in ShardOf(t) THEN GoTo(t, "delete") ELSE Return(t)
  /\ UNCHANGED <<rooms, Shards, counters, sweep, seat, joins, orphaned, crashed, addOnLoop>>

RemoveDelete(t) ==
  /\ At(t, "delete")
  /\ MapWrite(t, ShardOf(t) \ {th[t].conn})
  /\ GoTo(t, "unlocal")
  /\ UNCHANGED <<rooms, counters, sweep, seat, joins, orphaned, crashed, addOnLoop>>

RemoveLocal(t) ==
  /\ At(t, "unlocal")
  /\ LocalConnCount' = [LocalConnCount EXCEPT ![th[t].obj] = @ - 1]
  /\ GoTo(t, "unshard")
  /\ UNCHANGED <<rooms, Shards, ShardConnCount, ActiveLoops, LastEmptyTime,
                 sweep, seat, joins, orphaned, crashed, addOnLoop>>

\* Variant: the bit goes when one connection is left.
RemoveShardEarly(t) ==
  LET o == th[t].obj
      l == th[t].loop IN
  /\ At(t, "unshard")
  /\ ShardConnCount' = [ShardConnCount EXCEPT ![o][l] = @ - 1]
  /\ GoTo(t, IF ShardConnCount'[o][l] <= 1 THEN "and" ELSE "test")
  /\ UNCHANGED <<rooms, Shards, LocalConnCount, ActiveLoops, LastEmptyTime,
                 sweep, seat, joins, orphaned, crashed, addOnLoop>>

RemoveShard(t) ==
  LET o == th[t].obj
      l == th[t].loop IN
  /\ At(t, "unshard")
  /\ ShardConnCount' = [ShardConnCount EXCEPT ![o][l] = @ - 1]
  /\ GoTo(t, IF ShardConnCount'[o][l] = 0 THEN "and" ELSE "test")
  /\ UNCHANGED <<rooms, Shards, LocalConnCount, ActiveLoops, LastEmptyTime,
                 sweep, seat, joins, orphaned, crashed, addOnLoop>>

RemoveAnd(t) ==
  /\ At(t, "and")
  /\ ActiveLoops' = [ActiveLoops EXCEPT ![th[t].obj] = @ \ {th[t].loop}]
  /\ GoTo(t, "test")
  /\ UNCHANGED <<rooms, Shards, ShardConnCount, LocalConnCount, LastEmptyTime,
                 sweep, seat, joins, orphaned, crashed, addOnLoop>>

\* Variant: the test is made for the count before the removal.
RemoveTestLate(t) ==
  /\ At(t, "test")
  /\ IF LocalConnCount[th[t].obj] = 1 THEN GoTo(t, "mark") ELSE Return(t)
  /\ UNCHANGED <<rooms, Shards, counters, sweep, seat, joins, orphaned, crashed, addOnLoop>>

RemoveTest(t) ==
  /\ At(t, "test")
  /\ IF LocalConnCount[th[t].obj] = 0 THEN GoTo(t, "mark") ELSE Return(t)
  /\ UNCHANGED <<rooms, Shards, counters, sweep, seat, joins, orphaned, crashed, addOnLoop>>

RemoveMark(t) ==
  /\ At(t, "mark")
  /\ LastEmptyTime' = [LastEmptyTime EXCEPT ![th[t].obj] = "recent"]
  /\ Return(t)
  /\ UNCHANGED <<rooms, Shards, ShardConnCount, LocalConnCount, ActiveLoops,
                 sweep, seat, joins, orphaned, crashed, addOnLoop>>

-----------------------------------------------------------------------------
(* RangeLoopConns: BroadcastLocal, on a pool goroutine, goes through the      *)
(* shards of a room it has looked up.  RangeShardInLoop has no caller.        *)

RangeLoopConns(t, r, l) ==
  /\ At(t, "idle")
  /\ ~addOnLoop /\ t \in Workers
  /\ th' = [th EXCEPT ![t] = [pc |-> "lookup", room |-> r, conn |-> NULL,
                             obj |-> NULL, loop |-> l]]
  /\ UNCHANGED <<rooms, Shards, counters, sweep, seat, joins, orphaned, crashed, addOnLoop>>

RangeLookup(t) ==
  LET r == th[t].room IN
  /\ At(t, "lookup")
  /\ ~Locked(r)
  /\ IF rooms[r] = NULL
     THEN Return(t)
     ELSE th' = [th EXCEPT ![t].obj = rooms[r], ![t].pc = "range"]
  /\ UNCHANGED <<rooms, Shards, counters, sweep, seat, joins, orphaned, crashed, addOnLoop>>

RangeDone(t) ==
  /\ At(t, "range")
  /\ Return(t)
  /\ UNCHANGED <<rooms, Shards, counters, sweep, seat, joins, orphaned, crashed, addOnLoop>>

-----------------------------------------------------------------------------
(* The cleaner, and time. *)

CleanLock(r) ==
  /\ ~crashed
  /\ sweep = NoSweep
  /\ rooms[r] # NULL
  /\ sweep' = [pc |-> "count", room |-> r]
  /\ UNCHANGED <<rooms, Shards, counters, th, seat, joins, orphaned, crashed, addOnLoop>>

\* Variant: the mark alone decides, connections in the room or not.
CleanCountSkipped ==
  /\ ~crashed
  /\ sweep.pc = "count"
  /\ sweep' = [sweep EXCEPT !.pc = "time"]
  /\ UNCHANGED <<rooms, Shards, counters, th, seat, joins, orphaned, crashed, addOnLoop>>

CleanCount ==
  /\ ~crashed
  /\ sweep.pc = "count"
  /\ sweep' = IF LocalConnCount[rooms[sweep.room]] = 0
              THEN [sweep EXCEPT !.pc = "time"] ELSE NoSweep
  /\ UNCHANGED <<rooms, Shards, counters, th, seat, joins, orphaned, crashed, addOnLoop>>

\* The room leaves its bucket, under a call that has fetched it perhaps.
Collect ==
  LET r == sweep.room IN
  /\ rooms' = [rooms EXCEPT ![r] = NULL]
  /\ orphaned' = orphaned \cup
       {c \in Conns : \E t \in Threads : th[t].conn = c /\ th[t].obj = rooms[r]}

CleanDelete ==
  /\ ~crashed
  /\ sweep.pc = "time"
  /\ IF LastEmptyTime[rooms[sweep.room]] = "expired"
     THEN Collect ELSE UNCHANGED <<rooms, orphaned>>
  /\ sweep' = NoSweep
  /\ UNCHANGED <<Shards, counters, th, seat, joins, crashed, addOnLoop>>

\* idleSeconds pass.  No call on the room and no sweep of it takes that long.
Age(o) ==
  /\ ~crashed
  /\ LastEmptyTime[o] = "recent"
  /\ \A t \in Threads : th[t].obj # o
  /\ sweep.pc # "idle" => rooms[sweep.room] # o
  /\ LastEmptyTime' = [LastEmptyTime EXCEPT ![o] = "expired"]
  /\ UNCHANGED <<rooms, Shards, ShardConnCount, LocalConnCount, ActiveLoops,
                 th, sweep, seat, joins, orphaned, crashed, addOnLoop>>

-----------------------------------------------------------------------------
ThreadStep(t) ==
  \/ AddGetOrCreate(t) \/ AddExists(t) \/ AddReplace(t) \/ AddPut(t)
  \/ AddLocal(t) \/ AddShard(t) \/ AddOr(t) \/ AddClear(t)
  \/ RemoveFind(t) \/ RemoveHas(t) \/ RemoveDelete(t) \/ RemoveLocal(t)
  \/ RemoveShard(t) \/ RemoveAnd(t) \/ RemoveTest(t) \/ RemoveMark(t)
  \/ RangeLookup(t) \/ RangeDone(t)

CleanerStep == (\E r \in Rooms : CleanLock(r)) \/ CleanCount \/ CleanDelete

Next ==
  \/ \E t \in Threads, r \in Rooms, c \in Conns : AddConnInLoop(t, r, c)
  \/ \E c \in Conns : RemoveConnInLoop(c) \/ CloseUnjoined(c)
  \/ \E t \in Threads, r \in Rooms, l \in Loops : RangeLoopConns(t, r, l)
  \/ \E t \in Threads : ThreadStep(t) \/ Fatal(t)
  \/ CleanerStep
  \/ \E o \in Objs : Age(o)

Spec == Init /\ [][Next]_vars

\* A call that began goes on; the ticker sweeps every room again and again;
\* the clock advances, between two sweeps if not during one.
Fairness ==
  /\ \A t \in Threads : WF_vars(ThreadStep(t))
  /\ \A r \in Rooms : SF_vars(CleanLock(r))
  /\ WF_vars(CleanCount \/ CleanDelete)
  /\ \A o \in Objs : SF_vars(Age(o))

FairSpec == Spec /\ Fairness

-----------------------------------------------------------------------------
(* Properties. *)

NoObjSteps == {"idle", "get", "find", "lookup"}

\* The state is well typed; past the lookup a call holds a room, so a nil Room is
\* never dereferenced (manager.go:189-201).
TypeOK ==
  /\ rooms \in [Rooms -> Objs \cup {NULL}]
  /\ Shards \in [Objs -> [Loops -> SUBSET Conns]]
  /\ ShardConnCount \in [Objs -> [Loops -> Int]]
  /\ LocalConnCount \in [Objs -> Int]
  /\ ActiveLoops \in [Objs -> SUBSET Loops]
  /\ LastEmptyTime \in [Objs -> Times]
  /\ th \in [Threads -> Call]
  /\ \A t \in Threads : th[t].pc \notin NoObjSteps => th[t].obj # NULL
  /\ sweep \in [pc : {"idle", "count", "time"}, room : Rooms \cup {NULL}]
  /\ seat \in [Conns -> Rooms \cup {NULL, GONE}]
  /\ joins \in [Rooms -> Nat]
  /\ addOnLoop \in BOOLEAN
  /\ orphaned \subseteq Conns
  /\ crashed \in BOOLEAN

Members(o) == {c \in Conns : c \in Shards[o][LoopOf[c]]}

\* RangeLoopConns says it is thread-safe and cannot panic (manager.go:290-291):
\* no shard map is ever accessed by two threads, one of them writing.
RaceFree == \A t \in Threads : ~Racing(t)

\* Under the contract, while a loop's thread is in no call, the counter and the bit
\* of its shard agree with the map, whatever the other loops are doing to the same
\* room (manager.go:25-33, 163-170, 203-210).
ShardIndexExact ==
  addOnLoop => \A l \in Loops, o \in Objs :
    th[l].pc = "idle" =>
      /\ ShardConnCount[o][l] = Cardinality(Shards[o][l])
      /\ l \in ActiveLoops[o] <=> Shards[o][l] # {}

\* Under the contract, with no call in progress, ConnCount and HasLocalRoom tell the
\* truth: the room's counter is the number of its connections over all shards.
LocalCountExact ==
  addOnLoop /\ Quiet => \A o \in Objs : LocalConnCount[o] = Cardinality(Members(o))

\* Whatever the races do to the maps, the room's counter and its shards' counters
\* move together: with no call in progress, HasLocalRoom and the shard counters
\* do not contradict each other (manager.go:164-166, 204-206).
CountersAgree ==
  Quiet => \A o \in Objs :
    LocalConnCount[o] = FoldFunction(+, 0, ShardConnCount[o])

\* Under the contract, a connection that was added, and that no call is about, is
\* found under the room it was last asked into: broadcasts reach it.  The cleaner
\* alone can undo that, by collecting the room between the call's GetOrCreate and
\* its count (manager.go:142-174, 329-346, broadcaster.go:37-49).
Listed(c) ==
  LET o == rooms[seat[c]] IN o # NULL /\ c \in Shards[o][LoopOf[c]]
Settled(c) == seat[c] \in Rooms /\ ~BusyWith(c)

JoinedIsListed ==
  addOnLoop => \A c \in Conns : Settled(c) => Listed(c) \/ c \in orphaned

\* Under the contract, the index as one atomic table of rooms and connections
\* (module RoomIndex): a connection enters or leaves a room during a call about the
\* two, one entry at a time, and the cleaner takes a room only while a call about
\* the room is in progress for each of its connections (manager.go:142-216, 329-346).
RoomListing(c) ==
  {r \in Rooms : addOnLoop /\ rooms[r] # NULL /\ c \in Shards[rooms[r]][LoopOf[c]]}
BusyIn(c, r) ==
  addOnLoop /\ \E t \in Threads : th[t].conn = c /\ th[t].room = r
Index == INSTANCE RoomIndex WITH
  member <- [c \in Conns |-> RoomListing(c)],
  busy <- {p \in Conns \X Rooms : BusyIn(p[1], p[2])}
ImplementsIndex == Index!Spec

\* Under the contract, once the calls stop, the cleaner gets rid of every empty room.
EmptyRoomsCollected ==
  addOnLoop /\ <>[]Quiet => <>[](\A r \in Rooms :
                      rooms[r] # NULL => LocalConnCount[rooms[r]] > 0)
=============================================================================
