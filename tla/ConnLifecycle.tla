--------------------------- MODULE ConnLifecycle ---------------------------
(***************************************************************************)
(* The life of the WebSocket connections of one node: gnet's callbacks     *)
(* (OnOpen, OnTraffic, OnClose in internal/server), which run one at a     *)
(* time per event-loop, the join requests that OnTraffic hands to the      *)
(* worker pool (HandleInbound and handleJoinRoom in internal/app) and the  *)
(* heartbeat goroutine that closes silent connections.                     *)
(*                                                                         *)
(* These threads share the connection counter CurrConnCount, the table     *)
(* AllConns, the per-user counter userConnCount, the room index and, with  *)
(* no lock at all, the fields of ConnContext.  An action is one access to  *)
(* that state, or one call that holds a lock throughout.                   *)
(*                                                                         *)
(* Abstracted: the bytes of a frame; the chat and heartbeat requests,      *)
(* which write nothing here; the index of a loop, which is the loop itself *)
(* (Loop0 is the one whose index is 0, the value LoopIdx has before a      *)
(* join); the room manager, a set of entries changed atomically (module    *)
(* RoomManager has its steps).                                             *)
(***************************************************************************)
EXTENDS Integers, FiniteSets

CONSTANTS
  Conns,            \* connections the listener may accept
  Loops,            \* event-loops
  Workers,          \* goroutines of the ants pool (WorkerPoolSize)
  Users, Rooms,     \* acceptable ids
  Banned,           \* Config.BannedUsers
  LoopOf,           \* the event-loop gnet gives a connection to
  Loop0,            \* the loop whose logical index is 0
  MaxConns,         \* Config.MaxConns
  MaxConnsPerUser,  \* Config.MaxConnsPerUser
  MaxJoins,         \* bound: JOIN frames each connection sends
  NULL              \* an id that is not positive, a nil context

ASSUME ConnsAssumption == IsFiniteSet(Conns) /\ IsFiniteSet(Workers)
ASSUME ThreadsAssumption == Conns \cap Workers = {}
ASSUME LoopsAssumption == LoopOf \in [Conns -> Loops] /\ Loop0 \in Loops
ASSUME LimitsAssumption ==
  MaxConns \in Nat /\ MaxConnsPerUser \in Nat /\ MaxJoins \in [Conns -> Nat]
ASSUME BannedAssumption == Banned \subseteq Users
ASSUME NullAssumption == NULL \notin Conns \cup Users \cup Rooms

VARIABLES
  phase,          \* where the callbacks of each connection stand
  ctx,            \* ConnContext of each connection
  silent,         \* LastActiveTime is more than 90 seconds old
  closeReq,       \* conn.Close() was called, OnClose has not run yet
  joins,          \* JOIN frames received so far
  hurried,        \* observer: connections that ended while a worker held a frame
  CurrConnCount,  \* App.CurrConnCount
  AllConns,       \* keys of App.AllConns
  userConnCount,  \* App.userConnCount, 0 for an absent user
  index,          \* <<room, loop, conn>> entries of the room manager
  job,            \* the task each pool goroutine is running
  reaping         \* the connection the heartbeat goroutine is about to close

vars == <<phase, ctx, silent, closeReq, joins, hurried, CurrConnCount,
          AllConns, userConnCount, index, job, reaping>>

Phases == {"idle", "overflow", "refused", "opening", "open",
           "closing", "unindexing", "releasing", "closed"}
JobSteps == {"idle", "check", "count", "user", "room", "loop", "index"}

Ctx == [HandshakeDone : BOOLEAN, UserID : Users \cup {NULL},
        RoomID : Rooms \cup {NULL}, LoopIdx : Loops]
Job == [pc : JobSteps, conn : Conns \cup {NULL},
        user : Users \cup {NULL}, room : Rooms \cup {NULL}]

NewCtx == [HandshakeDone |-> FALSE, UserID |-> NULL, RoomID |-> NULL,
           LoopIdx |-> Loop0]
NoJob == [pc |-> "idle", conn |-> NULL, user |-> NULL, room |-> NULL]

Init ==
  /\ phase = [c \in Conns |-> "idle"]
  /\ ctx = [c \in Conns |-> NewCtx]
  /\ silent = [c \in Conns |-> FALSE]
  /\ closeReq = [c \in Conns |-> FALSE]
  /\ joins = [c \in Conns |-> 0]
  /\ hurried = {}
  /\ CurrConnCount = 0
  /\ AllConns = {}
  /\ userConnCount = [u \in Users |-> 0]
  /\ index = {}
  /\ job = [w \in Workers |-> NoJob]
  /\ reaping = NULL

-----------------------------------------------------------------------------
(* Event-loops: one callback at a time. *)

InCallback(c) ==
  phase[c] \in {"overflow", "opening", "closing", "unindexing", "releasing"}
LoopFree(l) == \A c \in Conns : LoopOf[c] = l => ~InCallback(c)

Held(c) == \E w \in Workers : job[w].pc # "idle" /\ job[w].conn = c

\* Variant: the limit is compared with the counter before the add.
OnOpenCountLate(c) ==
  /\ phase[c] = "idle"
  /\ LoopFree(LoopOf[c])
  /\ CurrConnCount' = CurrConnCount + 1
  /\ phase' = [phase EXCEPT ![c] = IF CurrConnCount > MaxConns
                                   THEN "overflow" ELSE "opening"]
  /\ UNCHANGED <<ctx, silent, closeReq, joins, hurried, AllConns,
                 userConnCount, index, job, reaping>>

\* OnOpen takes a slot with one atomic add and compares what it returned.
OnOpenCount(c) ==
  /\ phase[c] = "idle"
  /\ LoopFree(LoopOf[c])
  /\ CurrConnCount' = CurrConnCount + 1
  /\ phase' = [phase EXCEPT ![c] = IF CurrConnCount' > MaxConns
                                   THEN "overflow" ELSE "opening"]
  /\ UNCHANGED <<ctx, silent, closeReq, joins, hurried, AllConns,
                 userConnCount, index, job, reaping>>

\* Variant: the refusal keeps the slot it took.
OnOpenRefuseLeak(c) ==
  /\ phase[c] = "overflow"
  /\ phase' = [phase EXCEPT ![c] = "refused"]
  /\ UNCHANGED <<ctx, silent, closeReq, joins, hurried, CurrConnCount,
                 AllConns, userConnCount, index, job, reaping>>

\* The slot above the limit is given back, the connection gets no context.
OnOpenRefuse(c) ==
  /\ phase[c] = "overflow"
  /\ CurrConnCount' = CurrConnCount - 1
  /\ phase' = [phase EXCEPT ![c] = "refused"]
  /\ UNCHANGED <<ctx, silent, closeReq, joins, hurried, AllConns,
                 userConnCount, index, job, reaping>>

\* The rest of OnOpen: the context is set, the connection is registered.
OnOpenRegister(c) ==
  /\ phase[c] = "opening"
  /\ ctx' = [ctx EXCEPT ![c] = NewCtx]
  /\ silent' = [silent EXCEPT ![c] = FALSE]
  /\ AllConns' = AllConns \cup {c}
  /\ phase' = [phase EXCEPT ![c] = "open"]
  /\ UNCHANGED <<closeReq, joins, hurried, CurrConnCount, userConnCount, index,
                 job, reaping>>

Reads(c) == phase[c] = "open" /\ LoopFree(LoopOf[c])

\* OnTraffic before the handshake: the header is complete, or more is awaited.
OnTrafficHandshake(c) ==
  /\ Reads(c)
  /\ ~ctx[c].HandshakeDone
  /\ silent' = [silent EXCEPT ![c] = FALSE]
  /\ \/ ctx' = [ctx EXCEPT ![c].HandshakeDone = TRUE]
     \/ UNCHANGED ctx
  /\ UNCHANGED <<phase, closeReq, joins, hurried, CurrConnCount, AllConns,
                 userConnCount, index, job, reaping>>

\* A binary frame with a JOIN for user u and room r is given to an idle pool
\* goroutine; Submit never blocks, and with none idle the frame is dropped.
OnTrafficJoin(c, u, r) ==
  /\ Reads(c)
  /\ ctx[c].HandshakeDone
  /\ joins[c] < MaxJoins[c]
  /\ joins' = [joins EXCEPT ![c] = @ + 1]
  /\ silent' = [silent EXCEPT ![c] = FALSE]
  /\ \/ \E w \in Workers :
          /\ job[w].pc = "idle"
          /\ job' = [job EXCEPT ![w] =
               [pc |-> "check", conn |-> c, user |-> u, room |-> r]]
     \/ /\ \A w \in Workers : job[w].pc # "idle"
        /\ UNCHANGED job
  /\ UNCHANGED <<phase, ctx, hurried, closeReq, CurrConnCount, AllConns,
                 userConnCount, index, reaping>>

\* Variant: OnClose leaves the entry of AllConns behind.
OnCloseKeepEntry(c) ==
  /\ Reads(c)
  /\ hurried' = IF Held(c) THEN hurried \cup {c} ELSE hurried
  /\ CurrConnCount' = CurrConnCount - 1
  /\ phase' = [phase EXCEPT ![c] = "closing"]
  /\ UNCHANGED <<ctx, silent, closeReq, joins, AllConns, userConnCount, index,
                 job, reaping>>

\* OnClose, whatever ended the connection (the peer, a bad frame that made
\* OnTraffic return Close, conn.Close()): it leaves AllConns and its slot.
OnCloseUnregister(c) ==
  /\ Reads(c)
  /\ hurried' = IF Held(c) THEN hurried \cup {c} ELSE hurried
  /\ AllConns' = AllConns \ {c}
  /\ CurrConnCount' = CurrConnCount - 1
  /\ phase' = [phase EXCEPT ![c] = "closing"]
  /\ UNCHANGED <<ctx, silent, closeReq, joins, userConnCount, index, job,
                 reaping>>

\* A refused connection has no context: OnClose returns at once.
OnCloseRefused(c) ==
  /\ phase[c] = "refused"
  /\ LoopFree(LoopOf[c])
  /\ phase' = [phase EXCEPT ![c] = "closed"]
  /\ UNCHANGED <<ctx, silent, closeReq, joins, hurried, CurrConnCount,
                 AllConns, userConnCount, index, job, reaping>>

Joined(c) == ctx[c].RoomID # NULL /\ ctx[c].UserID # NULL

OnCloseCheck(c) ==
  /\ phase[c] = "closing"
  /\ phase' = [phase EXCEPT ![c] = IF Joined(c) THEN "unindexing"
                                   ELSE "closed"]
  /\ UNCHANGED <<ctx, silent, closeReq, joins, hurried, CurrConnCount,
                 AllConns, userConnCount, index, job, reaping>>

\* Variant: the entry is looked up on loop 0 instead of the connection's loop.
OnCloseUnindexLoop0(c) ==
  /\ phase[c] = "unindexing"
  /\ index' = index \ {<<ctx[c].RoomID, Loop0, c>>}
  /\ phase' = [phase EXCEPT ![c] = "releasing"]
  /\ UNCHANGED <<ctx, silent, closeReq, joins, hurried, CurrConnCount,
                 AllConns, userConnCount, job, reaping>>

\* RemoveConnInLoop with what the context holds now.
OnCloseUnindex(c) ==
  /\ phase[c] = "unindexing"
  /\ index' = index \ {<<ctx[c].RoomID, ctx[c].LoopIdx, c>>}
  /\ phase' = [phase EXCEPT ![c] = "releasing"]
  /\ UNCHANGED <<ctx, silent, closeReq, joins, hurried, CurrConnCount,
                 AllConns, userConnCount, job, reaping>>

RemoveUserConn(u) ==
  userConnCount' = [userConnCount EXCEPT ![u] = IF @ - 1 > 0 THEN @ - 1 ELSE 0]

\* Variant: OnClose forgets the user.
OnCloseNoRelease(c) ==
  /\ phase[c] = "releasing"
  /\ phase' = [phase EXCEPT ![c] = "closed"]
  /\ UNCHANGED <<ctx, silent, closeReq, joins, hurried, CurrConnCount,
                 AllConns, userConnCount, index, job, reaping>>

OnCloseRelease(c) ==
  /\ phase[c] = "releasing"
  /\ RemoveUserConn(ctx[c].UserID)
  /\ phase' = [phase EXCEPT ![c] = "closed"]
  /\ UNCHANGED <<ctx, silent, closeReq, joins, hurried, CurrConnCount,
                 AllConns, index, job, reaping>>

-----------------------------------------------------------------------------
(* handleJoinRoom, on a pool goroutine. *)

GoTo(w, pc) == job' = [job EXCEPT ![w].pc = pc]
Return(w) == job' = [job EXCEPT ![w] = NoJob]

Acceptable(w) == job[w].user \in Users \ Banned /\ job[w].room \in Rooms

\* The checks of the request: 401, 403 and 404 answers change nothing.
JoinCheck(w) ==
  /\ job[w].pc = "check"
  /\ IF Acceptable(w) THEN GoTo(w, "count") ELSE Return(w)
  /\ UNCHANGED <<phase, ctx, silent, closeReq, joins, hurried, CurrConnCount,
                 AllConns, userConnCount, index, reaping>>

\* Variant: the limit is compared with the count before this connection.
JoinCountLate(w) ==
  LET u == job[w].user IN
  /\ job[w].pc = "count"
  /\ \/ /\ userConnCount[u] > MaxConnsPerUser
        /\ Return(w)
        /\ UNCHANGED userConnCount
     \/ /\ userConnCount[u] <= MaxConnsPerUser
        /\ userConnCount' = [userConnCount EXCEPT ![u] = @ + 1]
        /\ GoTo(w, "user")
  /\ UNCHANGED <<phase, ctx, silent, closeReq, joins, hurried, CurrConnCount,
                 AllConns, index, reaping>>

\* addUserConn, under userConnMu; above the limit the answer is 429.
JoinCount(w) ==
  LET u == job[w].user IN
  /\ job[w].pc = "count"
  /\ \/ /\ userConnCount[u] + 1 > MaxConnsPerUser
        /\ Return(w)
        /\ UNCHANGED userConnCount
     \/ /\ userConnCount[u] + 1 <= MaxConnsPerUser
        /\ userConnCount' = [userConnCount EXCEPT ![u] = @ + 1]
        /\ GoTo(w, "user")
  /\ UNCHANGED <<phase, ctx, silent, closeReq, joins, hurried, CurrConnCount,
                 AllConns, index, reaping>>

SetCtx(w, pc, next, newCtx) ==
  /\ job[w].pc = pc
  /\ ctx' = [ctx EXCEPT ![job[w].conn] = newCtx]
  /\ GoTo(w, next)
  /\ UNCHANGED <<phase, silent, closeReq, joins, hurried, CurrConnCount,
                 AllConns, userConnCount, index, reaping>>

CtxOf(w) == ctx[job[w].conn]

JoinSetUser(w) ==
  SetCtx(w, "user", "room", [CtxOf(w) EXCEPT !.UserID = job[w].user])
JoinSetRoom(w) ==
  SetCtx(w, "room", "loop", [CtxOf(w) EXCEPT !.RoomID = job[w].room])
JoinSetLoop(w) ==
  SetCtx(w, "loop", "index", [CtxOf(w) EXCEPT !.LoopIdx = LoopOf[job[w].conn]])

\* AddConnInLoop with what the context holds now.
JoinIndex(w) ==
  LET c == job[w].conn IN
  /\ job[w].pc = "index"
  /\ index' = index \cup {<<ctx[c].RoomID, ctx[c].LoopIdx, c>>}
  /\ Return(w)
  /\ UNCHANGED <<phase, ctx, silent, closeReq, joins, hurried, CurrConnCount,
                 AllConns, userConnCount, reaping>>

-----------------------------------------------------------------------------
(* Time and the heartbeat goroutine. *)

\* Ninety seconds pass without traffic.
FallSilent(c) ==
  /\ phase[c] = "open"
  /\ silent' = [silent EXCEPT ![c] = TRUE]
  /\ UNCHANGED <<phase, ctx, closeReq, joins, hurried, CurrConnCount, AllConns,
                 userConnCount, index, job, reaping>>

\* Variant: the heartbeat gives the slot back as well, and OnClose again.
HeartbeatUncount(c) ==
  /\ reaping = NULL
  /\ c \in AllConns
  /\ silent[c]
  /\ AllConns' = AllConns \ {c}
  /\ CurrConnCount' = CurrConnCount - 1
  /\ reaping' = c
  /\ UNCHANGED <<phase, ctx, silent, closeReq, joins, hurried, userConnCount,
                 index, job>>

\* StartHeartbeatCheck meets a silent connection and takes it off the table.
HeartbeatUnregister(c) ==
  /\ reaping = NULL
  /\ c \in AllConns
  /\ silent[c]
  /\ AllConns' = AllConns \ {c}
  /\ reaping' = c
  /\ UNCHANGED <<phase, ctx, silent, closeReq, joins, hurried, CurrConnCount,
                 userConnCount, index, job>>

\* Variant: the connection is only taken off the table.
HeartbeatForget ==
  /\ reaping # NULL
  /\ reaping' = NULL
  /\ UNCHANGED <<phase, ctx, silent, closeReq, joins, hurried, CurrConnCount,
                 AllConns, userConnCount, index, job>>

\* Then conn.Close(), which has no effect on a connection already closed.
HeartbeatClose ==
  /\ reaping # NULL
  /\ closeReq' = [closeReq EXCEPT ![reaping] = TRUE]
  /\ reaping' = NULL
  /\ UNCHANGED <<phase, ctx, silent, joins, hurried, CurrConnCount, AllConns,
                 userConnCount, index, job>>

-----------------------------------------------------------------------------
ConnStep(c) ==
  \/ OnOpenCount(c) \/ OnOpenRefuse(c) \/ OnOpenRegister(c)
  \/ OnTrafficHandshake(c)
  \/ \E u \in Users \cup {NULL}, r \in Rooms \cup {NULL} : OnTrafficJoin(c, u, r)
  \/ OnCloseUnregister(c) \/ OnCloseRefused(c) \/ OnCloseCheck(c)
  \/ OnCloseUnindex(c) \/ OnCloseRelease(c)
  \/ FallSilent(c) \/ HeartbeatUnregister(c)

WorkerStep(w) ==
  \/ JoinCheck(w) \/ JoinCount(w) \/ JoinSetUser(w) \/ JoinSetRoom(w)
  \/ JoinSetLoop(w) \/ JoinIndex(w)

Next ==
  \/ \E c \in Conns : ConnStep(c)
  \/ \E w \in Workers : WorkerStep(w)
  \/ HeartbeatClose

Spec == Init /\ [][Next]_vars

\* What the runtime keeps running: a callback that started, the OnClose of a
\* connection whose Close was requested, the heartbeat goroutine, the pool.
\* Clients and the clock owe nothing.
Fairness ==
  /\ \A c \in Conns :
       /\ WF_vars(OnOpenRefuse(c) \/ OnOpenRegister(c) \/ OnCloseCheck(c)
                    \/ OnCloseUnindex(c) \/ OnCloseRelease(c))
       /\ SF_vars(closeReq[c] /\ OnCloseUnregister(c))
       /\ WF_vars(HeartbeatUnregister(c))
  /\ \A w \in Workers : WF_vars(WorkerStep(w))
  /\ WF_vars(HeartbeatClose)

FairSpec == Spec /\ Fairness

-----------------------------------------------------------------------------
(* Properties. *)

\* The state is well typed: CurrConnCount and userConnCount never go below zero
\* (event_handler.go:46-50, 92-100, app.go:153-163).
TypeOK ==
  /\ phase \in [Conns -> Phases]
  /\ ctx \in [Conns -> Ctx]
  /\ silent \in [Conns -> BOOLEAN]
  /\ closeReq \in [Conns -> BOOLEAN]
  /\ joins \in [Conns -> Nat]
  /\ hurried \subseteq Conns
  /\ CurrConnCount \in Nat
  /\ AllConns \subseteq Conns
  /\ userConnCount \in [Users -> Nat]
  /\ index \subseteq (Rooms \cup {NULL}) \X Loops \X Conns
  /\ job \in [Workers -> Job]
  /\ reaping \in Conns \cup {NULL}

\* The connections the node has let in and not yet begun to close.
Admitted == {c \in Conns : phase[c] \in {"opening", "open"}}

\* The connections that hold a slot of CurrConnCount at this instant: those of
\* OnOpen calls that are about to give theirs back count too.
Counted == Admitted \cup {c \in Conns : phase[c] = "overflow"}

\* However many event-loops race through OnOpen's add, compare and take-back
\* (event_handler.go:46-48), the node never serves more than MaxConns.
AdmissionLimit == Cardinality(Admitted) <= MaxConns

\* Every path that takes a slot gives it back exactly once: the counter is the
\* number of holders, so it never drifts and never goes below zero.
SlotsConserved == CurrConnCount = Cardinality(Counted)

\* The connections whose OnClose has yet to release the user they carry.
Owners(u) ==
  {c \in Conns : /\ phase[c] \notin {"idle", "closed"}
                 /\ ctx[c].UserID = u}

\* One user has at most MaxConnsPerUser connections joined under his id,
\* whatever joins, repeated joins and closes overlap (app.go:141-163, 393-401).
UserLimit == \A u \in Users : Cardinality(Owners(u)) <= MaxConnsPerUser

\* A connection that is being served can be found in AllConns, so KickConn and
\* BroadcastGlobalSystemMsg reach it, unless the heartbeat is closing it.
ReachableWhileOpen ==
  \A c \in Conns :
    phase[c] = "open" => c \in AllConns \/ reaping = c \/ closeReq[c]

\* Nothing of a connection is left in AllConns once OnClose has begun.
UnregisteredWhenClosed ==
  \A c \in AllConns : phase[c] = "open"

Settled(c) == phase[c] = "closed" /\ ~Held(c)

\* One join, and no worker in it when the connection ended.
Patient(c) == c \notin hurried /\ joins[c] <= 1

\* When a patient connection is closed no room lists it, whatever impatient
\* connections do to the shared state meanwhile (event_handler.go:102-106).
RoomIndexReleased ==
  \A c \in Conns : Settled(c) /\ Patient(c) => \A e \in index : e[3] # c

\* The JOIN frames of some connections.
JoinsOf(S) == UNION {{c} \X (1..joins[c]) : c \in S}

\* OnClose gives back what the joins charged.  A user is never charged for
\* less than the connections he has, and what he is charged beyond them is left
\* over from impatient connections, a charge for a join at most (app.go:141-163,
\* 394, event_handler.go:102-106).
UserCountReleased ==
  (\A w \in Workers : job[w].pc = "idle") =>
    \A u \in Users :
      /\ Cardinality(Owners(u)) <= userConnCount[u]
      /\ userConnCount[u] <= Cardinality(Owners(u))
           + Cardinality(JoinsOf({c \in Conns : ~Patient(c)}))

\* A connection that stays silent is closed in the end (app.go:297-333).
SilentClosed ==
  \A c \in Conns :
    (phase[c] = "open" /\ silent[c]) ~> (phase[c] = "closed" \/ ~silent[c])
=============================================================================
