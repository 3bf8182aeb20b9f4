---------------------------- MODULE LoopRouting ----------------------------
(***************************************************************************)
(* How work finds a connection's event-loop: LoopRegistry numbers the      *)
(* loops as connections join (internal/app/loop_registry.go),              *)
(* LoopDispatcher sends a task to a numbered loop (loop_dispatcher.go),    *)
(* and KickConn, KickUser and BroadcastGlobalSystemMsg (app.go) use both.  *)
(*                                                                         *)
(* Joins run on pool goroutines, one step at a time, a connection's own    *)
(* joins at once too; an administrator's call runs on a goroutine of its   *)
(* own and visits AllConns one connection at a time.  A call and a         *)
(* connection, <<n, c>>, name what the n-th call has for c.                *)
(***************************************************************************)
EXTENDS Naturals, FiniteSets, Sequences, Functions

CONSTANTS
  Loops, Conns, Users,
  NoUser,    \* UserID 0
  Pool,      \* the goroutines that run joins
  LoopOf,    \* the event-loop of each connection
  MaxJoins,  \* bound: JOINs
  MaxCalls   \* bound: calls of the administrator

ASSUME RoutingAssumption ==
  /\ IsFiniteSet(Loops) /\ LoopOf \in [Conns -> Loops]
  /\ MaxJoins \in Nat /\ MaxCalls \in Nat
  /\ NoUser \notin Users

Free == [at |-> "free"]
Idle == [op |-> "none", todo |-> {}]

VARIABLES
  indexByLoop, nextIdx,  \* LoopRegistry
  loops,                 \* LoopDispatcher.loops
  listed,                \* AllConns
  closed,                \* the connections whose OnClose has run
  work,                  \* what each pool goroutine joins, and where it is
  joined,                \* observer: the connections with a join that is complete
  UserID, LoopIdx,       \* ConnContext
  queue,                 \* per event-loop: tasks to run
  call,                  \* the administrator's call
  owed,                  \* observer: what the calls promise
  kicks,                 \* observer: the calls that kick
  lost,                  \* observer: what an error that nobody handles has lost
  writes,                \* observer: how often each <<n, c>> was written
  joins, calls

registry == <<indexByLoop, nextIdx, loops>>
joining == <<work, joined, UserID, LoopIdx, joins>>
admin == <<call, calls>>
seen == <<owed, kicks, lost, writes>>
vars == <<registry, listed, closed, joining, queue, admin, seen>>

Init ==
  /\ indexByLoop = <<>> /\ nextIdx = 0 /\ loops = <<>>
  /\ listed = {} /\ closed = {}
  /\ work = [g \in Pool |-> Free] /\ joined = {} /\ joins = 0
  /\ UserID = [c \in Conns |-> NoUser] /\ LoopIdx = [c \in Conns |-> 0]
  /\ queue = [l \in Loops |-> <<>>]
  /\ call = Idle /\ calls = 0
  /\ owed = {} /\ kicks = {} /\ lost = {} /\ writes = [e \in (1..MaxCalls) \X Conns |-> 0]

-----------------------------------------------------------------------------
(* Connections and joins. *)

\* sync.Map's Range may visit what is stored while it runs.
OnOpen(c) ==
  /\ c \notin listed \cup closed
  /\ listed' = listed \cup {c}
  /\ \/ UNCHANGED call
     \/ call.op \in {"kickUser", "global"} /\ call' = [call EXCEPT !.todo = @ \cup {c}]
  /\ UNCHANGED <<registry, closed, joining, queue, calls, seen>>

\* handleJoinRoom writes the user first.  A KickUser that has yet to look at the
\* connection owes it nothing any more when the user is another one.
JoinSetUser(g, c, u) ==
  /\ work[g] = Free /\ joins < MaxJoins /\ c \in listed
  /\ joins' = joins + 1
  /\ UserID' = [UserID EXCEPT ![c] = u]
  /\ work' = [work EXCEPT ![g] = [at |-> "assign", conn |-> c, idx |-> 0]]
  /\ owed' = IF call.op = "kickUser" /\ c \in call.todo /\ call.user # u
             THEN owed \ {<<calls, c>>} ELSE owed
  /\ UNCHANGED <<registry, listed, closed, joined, LoopIdx, queue, admin,
                 kicks, lost, writes>>

With(f, k, v) == [x \in DOMAIN f \cup {k} |-> IF x = k THEN v ELSE f[x]]

Joining(g, at) == work[g].at = at

\* Variant: the number is not counted up.
GetOrAssignSame(g) ==
  LET l == LoopOf[work[g].conn] IN
  /\ Joining(g, "assign")
  /\ indexByLoop' = With(indexByLoop, l, nextIdx)
  /\ work' = [work EXCEPT ![g] = [@ EXCEPT !.at = "bind", !.idx = nextIdx]]
  /\ UNCHANGED <<nextIdx, loops, listed, closed, joined, UserID, LoopIdx, joins,
                 queue, admin, seen>>

\* Under the registry's lock.
GetOrAssign(g) ==
  LET l == LoopOf[work[g].conn] IN
  /\ Joining(g, "assign")
  /\ IF l \in DOMAIN indexByLoop
     THEN UNCHANGED <<indexByLoop, nextIdx>>
     ELSE indexByLoop' = With(indexByLoop, l, nextIdx) /\ nextIdx' = nextIdx + 1
  /\ work' = [work EXCEPT ![g] = [@ EXCEPT !.at = "bind", !.idx = indexByLoop'[l]]]
  /\ UNCHANGED <<loops, listed, closed, joined, UserID, LoopIdx, joins, queue, admin, seen>>

\* Variant: a loop that is bound once is not bound under another number.
BindFirst(g) ==
  /\ Joining(g, "bind")
  /\ loops' = IF Cardinality(DOMAIN loops) > 0 THEN loops
              ELSE With(loops, work[g].idx, LoopOf[work[g].conn])
  /\ work' = [work EXCEPT ![g] = [@ EXCEPT !.at = "setLoop"]]
  /\ UNCHANGED <<indexByLoop, nextIdx, listed, closed, joined, UserID, LoopIdx, joins,
                 queue, admin, seen>>

\* Under the dispatcher's lock.
Bind(g) ==
  /\ Joining(g, "bind")
  /\ loops' = With(loops, work[g].idx, LoopOf[work[g].conn])
  /\ work' = [work EXCEPT ![g] = [@ EXCEPT !.at = "setLoop"]]
  /\ UNCHANGED <<indexByLoop, nextIdx, listed, closed, joined, UserID, LoopIdx, joins,
                 queue, admin, seen>>

JoinSetLoop(g) ==
  LET c == work[g].conn IN
  /\ Joining(g, "setLoop")
  /\ LoopIdx' = [LoopIdx EXCEPT ![c] = work[g].idx]
  /\ joined' = joined \cup {c}
  /\ work' = [work EXCEPT ![g] = Free]
  /\ UNCHANGED <<registry, listed, closed, UserID, joins, queue, admin, seen>>

-----------------------------------------------------------------------------
(* The administrator's calls. *)

\* A call promises something to each of the connections it is for.
Begin(record, promised) ==
  /\ call = Idle /\ calls < MaxCalls
  /\ call' = record /\ calls' = calls + 1
  /\ owed' = owed \cup ({calls + 1} \X promised)
  /\ kicks' = IF record.op = "global" THEN kicks ELSE kicks \cup {calls + 1}
  /\ UNCHANGED <<registry, listed, closed, joining, queue, lost, writes>>

KickConn(c) ==
  c \in listed /\ Begin([op |-> "kickConn", todo |-> {c}], {c})

KickUser(u) ==
  Begin([op |-> "kickUser", user |-> u, todo |-> listed], {c \in listed : UserID[c] = u})

BroadcastGlobalSystemMsg ==
  Begin([op |-> "global", todo |-> listed], listed)

\* Under the dispatcher's lock.  The callers ignore the errors: of a loop that is
\* not bound, and of an Execute that fails.  The number of a connection that has
\* joined is bound; another one has number 0.
Dispatch(c, task) ==
  IF LoopIdx[c] \notin DOMAIN loops
  THEN UNCHANGED queue /\ lost' = lost \cup ({<<calls, c>>} \ ({calls} \X joined))
  ELSE \/ /\ queue' = [queue EXCEPT ![loops[LoopIdx[c]]] = Append(@, task)]
          /\ UNCHANGED lost
       \/ UNCHANGED queue /\ lost' = lost \cup {<<calls, c>>}

\* What is sent to a connection that is still there, and of the user.
Send(c) ==
  IF c \in listed /\ (call.op = "kickUser" => UserID[c] = call.user)
  THEN Dispatch(c, [do |-> "task", what |-> IF call.op = "global" THEN "global" ELSE "kick",
                    call |-> calls, conn |-> c])
  ELSE UNCHANGED <<queue, lost>>

\* Variant: Range ends with the first connection (the callback returns false).
VisitOne(c) ==
  /\ c \in call.todo
  /\ call' = Idle
  /\ Send(c)
  /\ UNCHANGED <<registry, listed, closed, joining, owed, kicks, writes, calls>>

\* One connection of AllConns.
Visit(c) ==
  /\ c \in call.todo
  /\ call' = [call EXCEPT !.todo = @ \ {c}]
  /\ Send(c)
  /\ UNCHANGED <<registry, listed, closed, joining, owed, kicks, writes, calls>>

CallEnds ==
  /\ call # Idle /\ call.todo = {}
  /\ call' = Idle
  /\ UNCHANGED <<registry, listed, closed, joining, queue, seen, calls>>

-----------------------------------------------------------------------------
(* Event-loops. *)

Rest(l) == [queue EXCEPT ![l] = Tail(@)]

\* A task calls AsyncWrite, which queues the write on the connection's own
\* loop, or fails, which the task ignores.
RunTask(l) ==
  /\ queue[l] # <<>> /\ Head(queue[l]).do = "task"
  /\ LET t == Head(queue[l]) IN
     \/ /\ queue' = [Rest(l) EXCEPT ![LoopOf[t.conn]] = Append(@, [t EXCEPT !.do = "write"])]
        /\ UNCHANGED lost
     \/ queue' = Rest(l) /\ lost' = lost \cup {<<t.call, t.conn>>}
  /\ UNCHANGED <<registry, listed, closed, joining, admin, owed, kicks, writes>>

\* Variant: the close is left to the peer.
RunWriteNoClose(l) ==
  /\ queue[l] # <<>> /\ Head(queue[l]).do = "write"
  /\ queue' = Rest(l)
  /\ LET t == Head(queue[l]) IN
     writes' = IF t.conn \in closed THEN writes
               ELSE [writes EXCEPT ![<<t.call, t.conn>>] = @ + 1]
  /\ UNCHANGED <<registry, listed, closed, joining, admin, owed, kicks, lost>>

\* The write of a kick closes the connection in its callback, and OnClose takes
\* it out of AllConns.  Nothing is written to a closed one.
RunWrite(l) ==
  /\ queue[l] # <<>> /\ Head(queue[l]).do = "write"
  /\ queue' = Rest(l)
  /\ LET t == Head(queue[l]) IN
     /\ writes' = IF t.conn \in closed THEN writes
                  ELSE [writes EXCEPT ![<<t.call, t.conn>>] = @ + 1]
     /\ IF t.what = "kick"
        THEN closed' = closed \cup {t.conn} /\ listed' = listed \ {t.conn}
        ELSE UNCHANGED <<closed, listed>>
  /\ UNCHANGED <<registry, joining, admin, owed, kicks, lost>>

PeerCloses(c) ==
  /\ c \in listed
  /\ closed' = closed \cup {c} /\ listed' = listed \ {c}
  /\ UNCHANGED <<registry, joining, queue, admin, seen>>

Next ==
  \/ \E c \in Conns :
       OnOpen(c) \/ PeerCloses(c) \/ KickConn(c) \/ Visit(c)
  \/ \E g \in Pool :
       \/ \E c \in Conns, u \in Users : JoinSetUser(g, c, u)
       \/ GetOrAssign(g) \/ Bind(g) \/ JoinSetLoop(g)
  \/ \E u \in Users : KickUser(u)
  \/ BroadcastGlobalSystemMsg \/ CallEnds
  \/ \E l \in Loops : RunTask(l) \/ RunWrite(l)

Spec == Init /\ [][Next]_vars

-----------------------------------------------------------------------------
(* Properties. *)

\* Two loops never share a number, every number fits the rooms' shard arrays,
\* and the dispatcher knows each number as the loop the registry gave it to,
\* although joins interleave between the two locks (loop_registry.go:29-45,
\* loop_dispatcher.go:53-62).
NumbersAgree ==
  /\ \A k, l \in DOMAIN indexByLoop : indexByLoop[k] = indexByLoop[l] => k = l
  /\ \A l \in DOMAIN indexByLoop : indexByLoop[l] < Cardinality(Loops)
  /\ \A i \in DOMAIN loops :
       loops[i] \in DOMAIN indexByLoop /\ indexByLoop[loops[i]] = i

\* The index a connection has joined with leads to its own loop, also while it
\* joins again (app.go:547-561).
JoinedIsRouted ==
  \A c \in joined : LoopIdx[c] \in DOMAIN loops /\ loops[LoopIdx[c]] = LoopOf[c]

Quiet == call = Idle /\ \A l \in Loops : queue[l] = <<>>

\* When a kick and all it queued have run, each connection it was for is closed,
\* unless an ignored error lost it: an Execute or AsyncWrite that failed, or, of a
\* connection that has not joined, the number 0 that is not bound.  A connection
\* that joins as another user before KickUser comes to it keeps that user
\* (app.go:590-653).
KickComplete ==
  Quiet => \A e \in owed \ lost : e[1] \in kicks => e[2] \in closed

\* When global messages and all they queued have run, each connection that was
\* there when one began has it or is closed, unless an ignored error lost it, and
\* no connection gets one message twice (app.go:705-738).
GlobalComplete ==
  /\ Quiet => \A e \in owed \ lost : writes[e] > 0 \/ e[2] \in closed
  /\ \A e \in DOMAIN writes : writes[e] <= 1
=============================================================================
