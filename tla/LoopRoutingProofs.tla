------------------------- MODULE LoopRoutingProofs -------------------------
(***************************************************************************)
(* Proofs about LoopRouting: for any number of loops, connections, joins   *)
(* and calls, numbers and loops agree, a connection that has joined is     *)
(* routed to its own loop, and kicks and global messages reach each        *)
(* connection they are for, once, unless an ignored error loses them.      *)
(*                                                                         *)
(* NumbersAgree needs Counted: the next number is how many loops have one. *)
(* JoinedIsRouted needs Resolved, which says what a join that is under way *)
(* may rely on: a number, once given, stays the loop's own, and once it is *)
(* bound, the dispatcher keeps it.  KickComplete and GlobalComplete need   *)
(* Comes, which follows what a call owes a connection through the visit,   *)
(* the task, and the write on the connection's loop.                       *)
(***************************************************************************)
EXTENDS LoopRouting, FiniteSetTheorems, FunctionTheorems, SequenceTheorems, TLAPS

Counted ==
  /\ DOMAIN indexByLoop \subseteq Loops
  /\ nextIdx \in Nat /\ nextIdx = Cardinality(DOMAIN indexByLoop)
  /\ \A l \in DOMAIN indexByLoop : indexByLoop[l] \in 0..(nextIdx - 1)

JoinTyped ==
  /\ work \in [Pool -> {Free} \cup
                 [at : {"assign", "bind", "setLoop"}, conn : Conns, idx : Nat]]
  /\ DOMAIN LoopIdx = Conns /\ joined \subseteq Conns

Resolved ==
  \A g \in Pool : work[g].at \in {"bind", "setLoop"} =>
    /\ LoopOf[work[g].conn] \in DOMAIN indexByLoop
    /\ work[g].idx = indexByLoop[LoopOf[work[g].conn]]
    /\ work[g].at = "setLoop" => work[g].idx \in DOMAIN loops

IInv == Counted /\ JoinTyped /\ NumbersAgree /\ Resolved /\ JoinedIsRouted

-----------------------------------------------------------------------------
LEMMA InitHolds == Init => IInv
<1> SUFFICES ASSUME Init PROVE IInv
  OBVIOUS
<1>1. DOMAIN indexByLoop = {} /\ DOMAIN loops = {}
  BY DEF Init
<1>2. Counted
  BY <1>1, FS_EmptySet DEF Init, Counted
<1> QED
  BY <1>1, <1>2 DEF Init, IInv, JoinTyped, NumbersAgree, Resolved, JoinedIsRouted, Free

-----------------------------------------------------------------------------
(* The steps of a join. *)

\* A loop that had no number gets the next one.
LEMMA NewNumberHolds ==
  ASSUME IInv, NEW l \in Loops, l \notin DOMAIN indexByLoop,
         indexByLoop' = With(indexByLoop, l, nextIdx),
         nextIdx' = nextIdx + 1, loops' = loops
  PROVE  /\ Counted' /\ NumbersAgree'
         /\ \A k \in DOMAIN indexByLoop :
              k \in DOMAIN indexByLoop' /\ indexByLoop'[k] = indexByLoop[k]
         /\ l \in DOMAIN indexByLoop'
<1>1. /\ DOMAIN indexByLoop' = DOMAIN indexByLoop \cup {l}
      /\ indexByLoop'[l] = nextIdx
      /\ \A k \in DOMAIN indexByLoop : indexByLoop'[k] = indexByLoop[k]
  BY DEF With
<1>2. /\ IsFiniteSet(DOMAIN indexByLoop) /\ DOMAIN indexByLoop \subseteq Loops
      /\ nextIdx \in Nat /\ nextIdx = Cardinality(DOMAIN indexByLoop)
  BY RoutingAssumption, FS_Subset DEF IInv, Counted
<1>3. Cardinality(DOMAIN indexByLoop') = nextIdx + 1
  BY <1>1, <1>2, FS_AddElement
<1>4. Counted'
  BY <1>1, <1>2, <1>3 DEF IInv, Counted
<1>5. nextIdx + 1 <= Cardinality(Loops)
  BY <1>1, <1>2, <1>3, RoutingAssumption, FS_Subset, FS_CardinalityType
<1>6. NumbersAgree'
  <2>1. ASSUME NEW j \in DOMAIN indexByLoop', NEW k \in DOMAIN indexByLoop',
               indexByLoop'[j] = indexByLoop'[k]
        PROVE  j = k
    BY <1>1, <1>2, <2>1 DEF IInv, Counted, NumbersAgree
  <2>2. ASSUME NEW k \in DOMAIN indexByLoop'
        PROVE  indexByLoop'[k] < Cardinality(Loops)
    BY <1>1, <1>2, <1>5, <2>2, RoutingAssumption, FS_CardinalityType DEF IInv, Counted
  <2>3. ASSUME NEW i \in DOMAIN loops
        PROVE  loops[i] \in DOMAIN indexByLoop' /\ indexByLoop'[loops[i]] = i
    BY <1>1, <2>3 DEF IInv, NumbersAgree
  <2> QED
    BY <2>1, <2>2, <2>3 DEF NumbersAgree
<1> QED
  BY <1>1, <1>4, <1>6

\* What a goroutine does is a join of a connection.
LEMMA AtJoin ==
  ASSUME IInv, NEW g \in Pool, work[g].at # "free"
  PROVE  /\ work[g] \in [at : {"assign", "bind", "setLoop"}, conn : Conns, idx : Nat]
         /\ LoopOf[work[g].conn] \in Loops
BY RoutingAssumption DEF IInv, JoinTyped, Free

LEMMA GetOrAssignHolds ==
  ASSUME IInv, NEW g \in Pool, GetOrAssign(g)
  PROVE  IInv'
<1> DEFINE l == LoopOf[work[g].conn]
<1>1. /\ work[g] \in [at : {"assign", "bind", "setLoop"}, conn : Conns, idx : Nat]
      /\ l \in Loops
  BY AtJoin DEF GetOrAssign, Joining
<1>2. /\ UNCHANGED <<loops, LoopIdx, joined>>
      /\ work' = [work EXCEPT ![g] = [@ EXCEPT !.at = "bind", !.idx = indexByLoop'[l]]]
      /\ IF l \in DOMAIN indexByLoop
         THEN UNCHANGED <<indexByLoop, nextIdx>>
         ELSE indexByLoop' = With(indexByLoop, l, nextIdx) /\ nextIdx' = nextIdx + 1
  BY DEF GetOrAssign
<1> HIDE DEF l
<1>3. /\ Counted' /\ NumbersAgree'
      /\ \A k \in DOMAIN indexByLoop :
           k \in DOMAIN indexByLoop' /\ indexByLoop'[k] = indexByLoop[k]
      /\ l \in DOMAIN indexByLoop'
  <2>1. CASE l \in DOMAIN indexByLoop
    BY <1>2, <2>1 DEF IInv, Counted, NumbersAgree
  <2>2. CASE l \notin DOMAIN indexByLoop
    BY <1>1, <1>2, <2>2, NewNumberHolds
  <2> QED
    BY <2>1, <2>2
<1>4. indexByLoop'[l] \in Nat
  BY <1>3 DEF Counted
<1>5. work'[g] = [at |-> "bind", conn |-> work[g].conn, idx |-> indexByLoop'[l]]
      /\ \A h \in Pool : h # g => work'[h] = work[h]
  BY <1>1, <1>2 DEF IInv, JoinTyped
<1>6. JoinTyped'
  BY <1>1, <1>2, <1>4, <1>5 DEF IInv, JoinTyped
<1>7. Resolved'
  BY <1>2, <1>3, <1>5 DEF IInv, Resolved, l
<1>8. JoinedIsRouted'
  BY <1>2 DEF IInv, JoinedIsRouted
<1> QED
  BY <1>3, <1>6, <1>7, <1>8 DEF IInv

\* A number that is bound again is bound to the loop it was bound to.
LEMMA BindHolds ==
  ASSUME IInv, NEW g \in Pool, Bind(g)
  PROVE  IInv'
<1>1. /\ work[g] \in [at : {"assign", "bind", "setLoop"}, conn : Conns, idx : Nat]
      /\ work[g].at = "bind"
  BY AtJoin DEF Bind, Joining
<1>2. /\ UNCHANGED <<indexByLoop, nextIdx, LoopIdx, joined>>
      /\ work' = [work EXCEPT ![g] = [@ EXCEPT !.at = "setLoop"]]
      /\ loops' = With(loops, work[g].idx, LoopOf[work[g].conn])
  BY DEF Bind
<1>3. /\ DOMAIN loops' = DOMAIN loops \cup {work[g].idx}
      /\ loops'[work[g].idx] = LoopOf[work[g].conn]
      /\ \A i \in DOMAIN loops : i # work[g].idx => loops'[i] = loops[i]
  BY <1>2 DEF With
<1>4. LoopOf[work[g].conn] \in DOMAIN indexByLoop
      /\ work[g].idx = indexByLoop[LoopOf[work[g].conn]]
  BY <1>1 DEF IInv, Resolved
<1>5. \A i \in DOMAIN loops : loops'[i] = loops[i]
  BY <1>3, <1>4 DEF IInv, NumbersAgree
<1>6. work'[g] = [at |-> "setLoop", conn |-> work[g].conn, idx |-> work[g].idx]
      /\ \A h \in Pool : h # g => work'[h] = work[h]
  BY <1>1, <1>2 DEF IInv, JoinTyped
<1>7. Counted' /\ JoinTyped'
  BY <1>1, <1>2, <1>6 DEF IInv, Counted, JoinTyped
<1>8. NumbersAgree'
  <2>1. ASSUME NEW i \in DOMAIN loops'
        PROVE  loops'[i] \in DOMAIN indexByLoop /\ indexByLoop[loops'[i]] = i
    <3>1. CASE i \in DOMAIN loops
      BY <1>5, <3>1 DEF IInv, NumbersAgree
    <3>2. CASE i = work[g].idx
      BY <1>3, <1>4, <3>2
    <3> QED
      BY <1>3, <3>1, <3>2
  <2>2. /\ \A k, l \in DOMAIN indexByLoop : indexByLoop[k] = indexByLoop[l] => k = l
        /\ \A l \in DOMAIN indexByLoop : indexByLoop[l] < Cardinality(Loops)
    BY DEF IInv, NumbersAgree
  <2> QED
    BY <1>2, <2>1, <2>2 DEF NumbersAgree
<1>9. Resolved'
  BY <1>2, <1>3, <1>4, <1>6 DEF IInv, Resolved
<1>10. JoinedIsRouted'
  BY <1>2, <1>3, <1>5 DEF IInv, JoinedIsRouted
<1> QED
  BY <1>7, <1>8, <1>9, <1>10 DEF IInv

LEMMA JoinSetLoopHolds ==
  ASSUME IInv, NEW g \in Pool, JoinSetLoop(g)
  PROVE  IInv'
<1>1. /\ work[g] \in [at : {"assign", "bind", "setLoop"}, conn : Conns, idx : Nat]
      /\ work[g].at = "setLoop"
  BY AtJoin DEF JoinSetLoop, Joining
<1>2. /\ UNCHANGED <<indexByLoop, nextIdx, loops>>
      /\ work' = [work EXCEPT ![g] = Free]
      /\ LoopIdx' = [LoopIdx EXCEPT ![work[g].conn] = work[g].idx]
      /\ joined' = joined \cup {work[g].conn}
  BY DEF JoinSetLoop, registry
<1>3. work'[g] = Free /\ \A h \in Pool : h # g => work'[h] = work[h]
  BY <1>2 DEF IInv, JoinTyped
<1>4. Counted' /\ JoinTyped' /\ NumbersAgree'
  BY <1>1, <1>2, <1>3 DEF IInv, Counted, JoinTyped, NumbersAgree
<1>5. Resolved'
  BY <1>2, <1>3 DEF IInv, Resolved, Free
<1>6. work[g].idx \in DOMAIN loops /\ loops[work[g].idx] = LoopOf[work[g].conn]
  BY <1>1 DEF IInv, Resolved, NumbersAgree
<1>7. JoinedIsRouted'
  BY <1>1, <1>2, <1>6 DEF IInv, JoinTyped, JoinedIsRouted
<1> QED
  BY <1>4, <1>5, <1>7 DEF IInv

LEMMA JoinSetUserHolds ==
  ASSUME IInv, NEW g \in Pool, NEW c \in Conns, NEW u \in Users, JoinSetUser(g, c, u)
  PROVE  IInv'
<1>1. /\ UNCHANGED <<indexByLoop, nextIdx, loops, LoopIdx, joined>>
      /\ work' = [work EXCEPT ![g] = [at |-> "assign", conn |-> c, idx |-> 0]]
  BY DEF JoinSetUser, registry
<1>2. 0 \in Nat
  OBVIOUS
<1>3. JoinTyped'
  BY <1>1, <1>2 DEF IInv, JoinTyped
<1>4. Resolved'
  BY <1>1 DEF IInv, JoinTyped, Resolved
<1> QED
  BY <1>1, <1>3, <1>4 DEF IInv, Counted, NumbersAgree, JoinedIsRouted

-----------------------------------------------------------------------------
\* The other steps leave numbers, bindings and joins alone.
LEMMA OtherHolds ==
  ASSUME IInv, UNCHANGED <<indexByLoop, nextIdx, loops, work, joined, LoopIdx>>
  PROVE  IInv'
  BY DEF IInv, Counted, JoinTyped, NumbersAgree, Resolved, JoinedIsRouted

LEMMA NextHolds == IInv /\ [Next]_vars => IInv'
<1> SUFFICES ASSUME IInv, [Next]_vars PROVE IInv'
  OBVIOUS
<1>1. ASSUME NEW g \in Pool,
             \/ \E c \in Conns, u \in Users : JoinSetUser(g, c, u)
             \/ GetOrAssign(g) \/ Bind(g) \/ JoinSetLoop(g)
      PROVE  IInv'
  BY <1>1, JoinSetUserHolds, GetOrAssignHolds, BindHolds, JoinSetLoopHolds
<1>2. ASSUME NEW c \in Conns, OnOpen(c) \/ PeerCloses(c) \/ KickConn(c) \/ Visit(c)
      PROVE  IInv'
  BY <1>2, OtherHolds DEF OnOpen, PeerCloses, KickConn, Begin, Visit, registry, joining
<1>3. ASSUME NEW u \in Users, KickUser(u) PROVE IInv'
  BY <1>3, OtherHolds DEF KickUser, Begin, registry, joining
<1>4. CASE BroadcastGlobalSystemMsg \/ CallEnds
  BY <1>4, OtherHolds DEF BroadcastGlobalSystemMsg, Begin, CallEnds, registry, joining
<1>5. ASSUME NEW l \in Loops, RunTask(l) \/ RunWrite(l) PROVE IInv'
  BY <1>5, OtherHolds DEF RunTask, RunWrite, registry, joining
<1>6. CASE UNCHANGED vars
  BY <1>6, OtherHolds DEF vars, registry, joining
<1> QED
  BY <1>1, <1>2, <1>3, <1>4, <1>5, <1>6 DEF Next

\* For any number of loops and of joins that run at once: two loops never share a
\* number, none is too large for the rooms' shard arrays, and the dispatcher
\* binds each number to the loop it was given to (loop_registry.go:29-45,
\* loop_dispatcher.go:53-62).
THEOREM NumbersSafe == Spec => []NumbersAgree
<1>1. IInv => NumbersAgree
  BY DEF IInv
<1> QED
  BY InitHolds, NextHolds, <1>1, PTL DEF Spec

\* The number a connection has joined with leads to its own loop, whichever
\* joins of it and of others came between its steps (app.go:547-561).
THEOREM RoutingSafe == Spec => []JoinedIsRouted
<1>1. IInv => JoinedIsRouted
  BY DEF IInv
<1> QED
  BY InitHolds, NextHolds, <1>1, PTL DEF Spec

-----------------------------------------------------------------------------
(* What a call owes a connection.  For each <<n, c>>, the write that was     *)
(* made, the tasks and writes in the queues, and the visit that is to come   *)
(* are together at most one, and one while it is owed and not lost and the   *)
(* connection is open.                                                       *)

Pairs == (1..MaxCalls) \X Conns

\* The tasks of the first n calls, of which those in K kick.
Task(n, K) ==
  {t \in [do : {"task", "write"}, what : {"kick", "global"}, call : 1..n, conn : Conns] :
     t.what = "kick" <=> t.call \in K}

IsFor(t, e) == t.call = e[1] /\ t.conn = e[2]

\* The places in the queues that hold a task or write for e.
Held(q, e) ==
  {x \in Loops \X (Nat \ {0}) : x[2] <= Len(q[x[1]]) /\ IsFor(q[x[1]][x[2]], e)}
Queued(q, e) == Cardinality(Held(q, e))

ToVisit(e) == IF e[1] = calls /\ e[2] \in call.todo THEN 1 ELSE 0

Sum(e) == writes[e] + Queued(queue, e) + ToVisit(e)

Comes(e) ==
  /\ IsFiniteSet(Held(queue, e))
  /\ Sum(e) <= 1
  /\ e \in owed \ lost /\ e[2] \notin closed =>
       /\ Sum(e) = 1 /\ e[2] \in listed
       /\ ToVisit(e) = 1 /\ call.op = "kickUser" => UserID[e[2]] = call.user
  /\ e[2] \notin listed \cup closed => Sum(e) = 0 /\ e \notin owed
  /\ e[1] > calls => writes[e] = 0 /\ e \notin owed
  /\ writes[e] > 0 /\ e[1] \in kicks => e[2] \in closed

CallTyped ==
  /\ call \in {Idle} \cup [op : {"kickConn", "global"}, todo : SUBSET Conns]
               \cup [op : {"kickUser"}, user : Users, todo : SUBSET Conns]
  /\ call # Idle => calls # 0 /\ (call.op = "global" <=> calls \notin kicks)

DTyped ==
  /\ calls \in 0..MaxCalls /\ kicks \subseteq 1..calls
  /\ queue \in [Loops -> Seq(Task(calls, kicks))]
  /\ writes \in [Pairs -> Nat] /\ owed \subseteq Pairs
  /\ listed \subseteq Conns /\ DOMAIN UserID = Conns

DInv == IInv /\ DTyped /\ CallTyped /\ \A e \in Pairs : Comes(e)

Put(q, l, t) == [q EXCEPT ![l] = Append(@, t)]
Take(q, l) == [q EXCEPT ![l] = Tail(@)]

\* What is put on a loop is held once more, if it is for the connection.
LEMMA PutCounts ==
  ASSUME NEW T, NEW q \in [Loops -> Seq(T)], NEW l \in Loops, NEW t \in T,
         NEW e, IsFiniteSet(Held(q, e))
  PROVE  /\ IsFiniteSet(Held(Put(q, l, t), e))
         /\ Queued(Put(q, l, t), e) = Queued(q, e) + (IF IsFor(t, e) THEN 1 ELSE 0)
<1> DEFINE p == Put(q, l, t)
<1>1. q[l] \in Seq(T) /\ Len(q[l]) \in Nat /\ Queued(q, e) \in Nat
  BY FS_CardinalityType DEF Queued
<1> PICK n \in Nat : n = Len(q[l])
  BY <1>1
<1>2. p[l] = Append(q[l], t) /\ \A m \in Loops : m # l => p[m] = q[m]
  BY DEF Put
<1> HIDE DEF p
<1>3. /\ Len(p[l]) = n + 1 /\ p[l][n + 1] = t
      /\ \A i \in 1..n : p[l][i] = q[l][i]
  BY <1>1, <1>2
<1>4. \A x \in Loops \X (Nat \ {0}) :
        x \in Held(p, e) <=> x \in Held(q, e) \/ (x = <<l, n + 1>> /\ IsFor(t, e))
  <2> SUFFICES ASSUME NEW m \in Loops, NEW k \in Nat \ {0}
               PROVE  /\ k <= Len(p[m]) /\ IsFor(p[m][k], e)
                      <=> \/ k <= Len(q[m]) /\ IsFor(q[m][k], e)
                          \/ m = l /\ k = n + 1 /\ IsFor(t, e)
    BY DEF Held
  <2>1. CASE m # l
    BY <1>2, <2>1
  <2>2. CASE m = l /\ k \in 1..n
    BY <1>3, <2>2
  <2>3. CASE m = l /\ k > n
    <3>1. k <= n + 1 <=> k = n + 1
      BY <2>3
    <3> QED
      BY <1>3, <2>3, <3>1
  <2> QED
    BY <2>1, <2>2, <2>3
<1>5. Held(q, e) \subseteq Loops \X (Nat \ {0}) /\ Held(p, e) \subseteq Loops \X (Nat \ {0})
  BY DEF Held
<1>6. <<l, n + 1>> \in Loops \X (Nat \ {0}) /\ <<l, n + 1>> \notin Held(q, e)
  BY DEF Held
<1>7. CASE IsFor(t, e)
  <2>1. Held(p, e) = Held(q, e) \cup {<<l, n + 1>>}
    BY <1>4, <1>5, <1>6, <1>7
  <2> DEFINE x == <<l, n + 1>>
             H == Held(q, e)
             G == Held(p, e)
  <2>2. IsFiniteSet(H) /\ x \notin H /\ G = H \cup {x}
    BY <1>6, <2>1
  <2> HIDE DEF x, H, G
  <2>3. IsFiniteSet(G) /\ Cardinality(G) = Cardinality(H) + 1
    BY <2>2, FS_AddElement
  <2> QED
    BY <1>7, <2>3 DEF Queued, p, G, H
<1>8. CASE ~ IsFor(t, e)
  <2>1. Held(p, e) = Held(q, e)
    BY <1>4, <1>5, <1>8
  <2> QED
    BY <1>1, <1>8, <2>1 DEF Queued, p
<1> QED
  BY <1>7, <1>8

\* What a loop takes is held once less, and the others move up by one.
LEMMA TakeCounts ==
  ASSUME NEW T, NEW q \in [Loops -> Seq(T)], NEW l \in Loops, q[l] # <<>>,
         NEW e, IsFiniteSet(Held(q, e))
  PROVE  /\ IsFiniteSet(Held(Take(q, l), e))
         /\ Queued(q, e) = Queued(Take(q, l), e) + (IF IsFor(Head(q[l]), e) THEN 1 ELSE 0)
<1> DEFINE p == Take(q, l)
           h == Head(q[l])
           Later == Held(q, e) \ {<<l, 1>>}
           Up(x) == <<x[1], IF x[1] = l THEN x[2] - 1 ELSE x[2]>>
           up == [x \in Later |-> Up(x)]
<1>1. /\ q[l] \in Seq(T) /\ h = q[l][1] /\ Tail(q[l]) \in Seq(T)
      /\ Len(q[l]) \in Nat \ {0} /\ Len(Tail(q[l])) = Len(q[l]) - 1
      /\ \A i \in 1..(Len(q[l]) - 1) : Tail(q[l])[i] = q[l][i + 1]
  OBVIOUS
<1>2. p[l] = Tail(q[l]) /\ \A m \in Loops : m # l => p[m] = q[m]
  BY DEF Take
<1> HIDE DEF p, h
<1> PICK n \in Nat \ {0} : n = Len(q[l])
  BY <1>1
<1>3. Len(p[l]) = n - 1 /\ \A i \in 1..(n - 1) : p[l][i] = q[l][i + 1]
  BY <1>1, <1>2
<1>4. Later \subseteq Loops \X (Nat \ {0}) /\ Held(p, e) \subseteq Loops \X (Nat \ {0})
  BY DEF Held
<1>5. ASSUME NEW x \in Later
      PROVE  Up(x) \in Held(p, e)
  <2>1. PICK m \in Loops, k \in Nat \ {0} : x = <<m, k>>
    BY <1>4
  <2>2. k <= Len(q[m]) /\ IsFor(q[m][k], e) /\ (m = l => k # 1)
    BY <2>1 DEF Held
  <2>3. CASE m = l
    <3>1. k - 1 \in Nat \ {0} /\ k - 1 \in 1..(n - 1) /\ (k - 1) + 1 = k
      BY <2>2, <2>3
    <3>2. p[l][k - 1] = q[l][k] /\ k - 1 <= Len(p[l])
      BY <1>3, <3>1
    <3> QED
      BY <2>1, <2>2, <2>3, <3>1, <3>2 DEF Held
  <2>4. CASE m # l
    BY <1>2, <2>1, <2>2, <2>4 DEF Held
  <2> QED
    BY <2>3, <2>4
<1>6. ASSUME NEW y \in Held(p, e)
      PROVE  \E x \in Later : Up(x) = y
  <2>1. PICK m \in Loops, k \in Nat \ {0} : y = <<m, k>>
    BY <1>4
  <2>2. k <= Len(p[m]) /\ IsFor(p[m][k], e)
    BY <2>1 DEF Held
  <2>3. CASE m = l
    <3>1. k \in 1..(n - 1) /\ k + 1 \in Nat \ {0} /\ k + 1 # 1 /\ k + 1 <= n /\ (k + 1) - 1 = k
      BY <1>3, <2>2, <2>3
    <3>2. <<l, k + 1>> \in Later
      BY <1>3, <2>2, <2>3, <3>1 DEF Held
    <3>3. Up(<<l, k + 1>>) = y
      BY <2>1, <2>3, <3>1
    <3> QED
      BY <3>2, <3>3
  <2>4. CASE m # l
    <3>1. y \in Later
      BY <1>2, <2>1, <2>2, <2>4 DEF Held
    <3>2. Up(y) = y
      BY <2>1, <2>4
    <3> QED
      BY <3>1, <3>2
  <2> QED
    BY <2>3, <2>4
<1>7. \A x, y \in Later : Up(x) = Up(y) => x = y
  <2> SUFFICES ASSUME NEW x \in Later, NEW y \in Later, Up(x) = Up(y) PROVE x = y
    OBVIOUS
  <2>1. PICK m \in Loops, k \in Nat \ {0} : x = <<m, k>>
    BY <1>4
  <2>2. PICK j \in Loops, i \in Nat \ {0} : y = <<j, i>>
    BY <1>4
  <2> QED
    BY <2>1, <2>2
<1>8. up \in Bijection(Later, Held(p, e))
  <2> DEFINE H == Held(p, e)
  <2>1. /\ up \in [Later -> H] /\ \A x, y \in Later : up[x] = up[y] => x = y
        /\ \A y \in H : \E x \in Later : up[x] = y
    BY <1>5, <1>6, <1>7
  <2> HIDE DEF H, Later, up
  <2>2. up \in Bijection(Later, H)
    BY <2>1, Fun_IsBij
  <2> QED
    BY <2>2 DEF H
<1>9. IsFiniteSet(Later) /\ Cardinality(Later) \in Nat
  BY FS_Subset, FS_CardinalityType
<1>10. IsFiniteSet(Held(p, e)) /\ Cardinality(Held(p, e)) = Cardinality(Later)
  <2> HIDE DEF Later, up
  <2>1. ExistsBijection(Later, Held(p, e))
    BY <1>8 DEF ExistsBijection
  <2> QED
    BY <1>9, <2>1, FS_Bijection
<1>11. <<l, 1>> \in Held(q, e) <=> IsFor(h, e)
  BY <1>1 DEF Held
<1>12. CASE IsFor(h, e)
  <2>1. Held(q, e) = Later \cup {<<l, 1>>} /\ <<l, 1>> \notin Later
    BY <1>11, <1>12
  <2> HIDE DEF Later
  <2>2. Cardinality(Held(q, e)) = Cardinality(Later) + 1
    BY <1>9, <2>1, FS_AddElement
  <2> QED
    BY <1>10, <1>12, <2>2 DEF Queued, p, h
<1>13. CASE ~ IsFor(h, e)
  <2>1. Held(q, e) = Later
    BY <1>11, <1>13
  <2> HIDE DEF Later
  <2>2. Cardinality(Held(q, e)) = Cardinality(Held(p, e)) + 0
    BY <1>9, <1>10, <2>1
  <2> QED
    BY <1>10, <1>13, <2>2 DEF Queued, p, h
<1> QED
  BY <1>12, <1>13

\* The numbers the sum is made of.
LEMMA Counts ==
  ASSUME DInv, NEW e \in Pairs
  PROVE  /\ Comes(e) /\ writes[e] \in Nat /\ calls \in Nat
         /\ Queued(queue, e) \in Nat /\ ToVisit(e) \in {0, 1}
<1>1. Comes(e) /\ writes[e] \in Nat /\ calls \in Nat
  BY RoutingAssumption DEF DInv, DTyped
<1>2. Queued(queue, e) \in Nat
  BY <1>1, FS_CardinalityType DEF Comes, Queued
<1> QED
  BY <1>1, <1>2 DEF ToVisit

LEMMA DInit == Init => DInv
<1> SUFFICES ASSUME Init PROVE DInv
  OBVIOUS
<1>1. \A e : Held(queue, e) = {}
  BY DEF Init, Held
<1>2. calls = 0 /\ kicks = {} /\ owed = {} /\ call = Idle
      /\ writes = [e \in Pairs |-> 0]
  BY DEF Init, Pairs
<1>3. ASSUME NEW e \in Pairs PROVE Comes(e)
  <2>1. IsFiniteSet(Held(queue, e)) /\ Queued(queue, e) = 0
    BY <1>1, FS_EmptySet DEF Queued
  <2>2. writes[e] = 0 /\ ToVisit(e) = 0
    BY <1>2 DEF Idle, ToVisit
  <2>3. Sum(e) = 0
    BY <2>1, <2>2 DEF Sum
  <2> QED
    BY <1>2, <2>1, <2>2, <2>3 DEF Comes
<1>4. DTyped
  <2>1. queue \in [Loops -> Seq(Task(calls, kicks))]
    BY DEF Init
  <2> QED
    BY <1>2, <2>1, RoutingAssumption DEF Init, DTyped
<1>5. CallTyped
  BY <1>2 DEF CallTyped
<1> QED
  BY <1>3, <1>4, <1>5, InitHolds DEF DInv

\* The calls and their tasks stay well typed when a call begins.
LEMMA TaskGrows ==
  ASSUME NEW n \in Nat, NEW K \in SUBSET (1..n), NEW L, L \in {K, K \cup {n + 1}}
  PROVE  Task(n, K) \subseteq Task(n + 1, L) /\ L \subseteq 1..(n + 1)
BY DEF Task

LEMMA PutTyped ==
  ASSUME NEW T, NEW q \in [Loops -> Seq(T)], NEW l \in Loops, NEW t \in T
  PROVE  Put(q, l, t) \in [Loops -> Seq(T)]
<1>1. Append(q[l], t) \in Seq(T)
  OBVIOUS
<1> QED
  BY <1>1 DEF Put

LEMMA TakeTyped ==
  ASSUME NEW T, NEW q \in [Loops -> Seq(T)], NEW l \in Loops, q[l] # <<>>
  PROVE  Take(q, l) \in [Loops -> Seq(T)] /\ Head(q[l]) \in T
<1>1. Tail(q[l]) \in Seq(T) /\ Head(q[l]) \in T
  OBVIOUS
<1> QED
  BY <1>1 DEF Take

\* A queue whose tasks are all in a larger set.
LEMMA QueueGrows ==
  ASSUME NEW S, NEW T, S \subseteq T, NEW q \in [Loops -> Seq(S)]
  PROVE  q \in [Loops -> Seq(T)]
<1>1. \A s \in Seq(S) : s \in Seq(T)
  BY SeqMonotonic
<1> QED
  BY <1>1

-----------------------------------------------------------------------------
(* The steps. *)

\* A step that opens no connection, writes nothing, and leaves queues and the
\* call alone.
LEMMA QuietStep ==
  ASSUME DInv, IInv',
         UNCHANGED <<queue, call, calls, kicks, writes, lost>>,
         owed' \subseteq owed, closed \subseteq closed', listed' \subseteq listed,
         listed' \cup closed' = listed \cup closed, DOMAIN UserID' = Conns,
         \A e \in owed' : ToVisit(e) = 1 /\ call.op = "kickUser"
                            => UserID'[e[2]] = UserID[e[2]] \/ UserID'[e[2]] = call.user
  PROVE  DInv'
<1>1. DTyped' /\ CallTyped'
  BY DEF DInv, DTyped, CallTyped
<1>2. ASSUME NEW e \in Pairs PROVE Comes(e)'
  <2>1. Comes(e) /\ ToVisit(e)' = ToVisit(e) /\ Sum(e)' = Sum(e)
    BY DEF DInv, ToVisit, Sum
  <2>2. ASSUME e \in owed' \ lost', e[2] \notin closed'
        PROVE  /\ Sum(e)' = 1 /\ e[2] \in listed'
               /\ ToVisit(e)' = 1 /\ call'.op = "kickUser" => UserID'[e[2]] = call'.user
    BY <2>1, <2>2 DEF Comes
  <2> QED
    BY <2>1, <2>2 DEF Comes
<1> QED
  BY <1>1, <1>2 DEF DInv

LEMMA JoinDelivers ==
  ASSUME DInv, IInv', NEW g \in Pool,
         \/ \E c \in Conns, u \in Users : JoinSetUser(g, c, u)
         \/ GetOrAssign(g) \/ Bind(g) \/ JoinSetLoop(g)
  PROVE  DInv'
<1>1. ASSUME NEW c \in Conns, NEW u \in Users, JoinSetUser(g, c, u) PROVE DInv'
  <2>1. /\ UNCHANGED <<queue, call, calls, kicks, writes, lost, listed, closed>>
        /\ UserID' = [UserID EXCEPT ![c] = u]
        /\ owed' = IF call.op = "kickUser" /\ c \in call.todo /\ call.user # u
                    THEN owed \ {<<calls, c>>} ELSE owed
    BY <1>1 DEF JoinSetUser, admin
  <2>2. DOMAIN UserID' = Conns /\ DOMAIN UserID = Conns
    BY <2>1 DEF DInv, DTyped
  <2>3. ASSUME NEW e \in owed', ToVisit(e) = 1, call.op = "kickUser"
        PROVE  UserID'[e[2]] = UserID[e[2]] \/ UserID'[e[2]] = call.user
    <3>1. e \in owed /\ e \in Pairs
      BY <2>1, <2>3 DEF DInv, DTyped
    <3>2. e = <<e[1], e[2]>> /\ e[2] \in Conns
      BY <3>1 DEF Pairs
    <3>3. e[1] = calls /\ e[2] \in call.todo
      BY <2>3 DEF ToVisit
    <3> QED
      BY <2>1, <2>2, <2>3, <3>2, <3>3
  <2> QED
    BY <2>1, <2>2, <2>3, QuietStep
<1>2. ASSUME GetOrAssign(g) \/ Bind(g) \/ JoinSetLoop(g) PROVE DInv'
  <2>1. UNCHANGED <<queue, call, calls, owed, kicks, writes, lost, listed, closed, UserID>>
    BY <1>2 DEF GetOrAssign, Bind, JoinSetLoop, admin, seen
  <2>2. DOMAIN UserID' = Conns
    BY <2>1 DEF DInv, DTyped
  <2> QED
    BY <2>1, <2>2, QuietStep
<1> QED
  BY <1>1, <1>2

LEMMA PeerDelivers ==
  ASSUME DInv, IInv', NEW c \in Conns, PeerCloses(c)
  PROVE  DInv'
<1>1. /\ UNCHANGED <<queue, call, calls, owed, kicks, writes, lost, UserID>>
      /\ closed' = closed \cup {c} /\ listed' = listed \ {c} /\ c \in listed
  BY DEF PeerCloses, admin, seen, joining
<1>2. DOMAIN UserID' = Conns
  BY <1>1 DEF DInv, DTyped
<1> QED
  BY <1>1, <1>2, QuietStep

\* A connection that opens is owed nothing, and nothing is under way for it.
LEMMA OpenDelivers ==
  ASSUME DInv, IInv', NEW c \in Conns, OnOpen(c)
  PROVE  DInv'
<1>1. /\ UNCHANGED <<queue, calls, owed, kicks, writes, lost, closed, UserID>>
      /\ listed' = listed \cup {c} /\ c \notin listed \cup closed
      /\ \/ UNCHANGED call
         \/ call.op \in {"kickUser", "global"} /\ call' = [call EXCEPT !.todo = @ \cup {c}]
  BY DEF OnOpen, joining, seen
<1>2. DTyped'
  BY <1>1 DEF DInv, DTyped
<1>3. CallTyped' /\ call'.op = call.op
      /\ (call.op = "kickUser" => call'.user = call.user)
      /\ \A d \in Conns : d # c => (d \in call'.todo <=> d \in call.todo)
  BY <1>1 DEF DInv, CallTyped, Idle
<1>4. ASSUME NEW e \in Pairs PROVE Comes(e)'
  <2>1. /\ Comes(e) /\ writes[e] \in Nat /\ Queued(queue, e) \in Nat
        /\ ToVisit(e) \in {0, 1} /\ e[2] \in Conns
    BY Counts DEF Pairs
  <2>2. Queued(queue, e)' = Queued(queue, e) /\ Held(queue, e)' = Held(queue, e)
    BY <1>1
  <2>3. CASE e[2] = c
    <3>1. Sum(e) = 0 /\ e \notin owed
      BY <1>1, <2>1, <2>3 DEF Comes
    <3>2. writes[e] = 0 /\ Queued(queue, e) = 0
      BY <2>1, <3>1 DEF Sum
    <3>3. Sum(e)' <= 1
      BY <1>1, <2>2, <3>2 DEF Sum, ToVisit
    <3> QED
      BY <1>1, <2>1, <2>2, <2>3, <3>1, <3>2, <3>3 DEF Comes
  <2>4. CASE e[2] # c
    <3>1. ToVisit(e)' = ToVisit(e)
      BY <1>1, <1>3, <2>1, <2>4 DEF ToVisit
    <3>2. Sum(e)' = Sum(e)
      BY <1>1, <2>2, <3>1 DEF Sum
    <3> QED
      BY <1>1, <1>3, <2>1, <2>2, <2>4, <3>1, <3>2 DEF Comes
  <2> QED
    BY <2>3, <2>4
<1> QED
  BY <1>2, <1>3, <1>4 DEF DInv

\* What a call that begins promises, it has yet to visit.
LEMMA BeginDelivers ==
  ASSUME DInv, IInv', NEW record, NEW promised, Begin(record, promised),
         promised \subseteq record.todo, promised \subseteq listed,
         record.todo \subseteq listed,
         \/ record \in [op : {"kickConn", "global"}, todo : SUBSET Conns]
         \/ /\ record \in [op : {"kickUser"}, user : Users, todo : SUBSET Conns]
            /\ \A c \in promised : UserID[c] = record.user
  PROVE  DInv'
<1>1. /\ UNCHANGED <<queue, writes, lost, listed, closed, UserID>>
      /\ call = Idle /\ calls < MaxCalls /\ call' = record /\ calls' = calls + 1
      /\ owed' = owed \cup ({calls + 1} \X promised)
      /\ kicks' = IF record.op = "global" THEN kicks ELSE kicks \cup {calls + 1}
  BY DEF Begin, joining
<1>2. calls \in Nat /\ calls + 1 \in 1..MaxCalls /\ calls + 1 # 0 /\ calls + 1 \notin kicks
      /\ kicks \in SUBSET (1..calls) /\ calls + 1 \in 0..MaxCalls
  BY <1>1, RoutingAssumption DEF DInv, DTyped
<1>3. Task(calls, kicks) \subseteq Task(calls', kicks') /\ kicks' \subseteq 1..calls'
  BY <1>1, <1>2, TaskGrows
<1>4. DTyped'
  <2>1. queue' \in [Loops -> Seq(Task(calls', kicks'))]
    BY <1>1, <1>3, QueueGrows DEF DInv, DTyped
  <2>2. owed' \subseteq Pairs
    BY <1>1, <1>2 DEF DInv, DTyped, Pairs
  <2> QED
    BY <1>1, <1>2, <1>3, <2>1, <2>2 DEF DInv, DTyped
<1>5. CallTyped'
  BY <1>1, <1>2 DEF CallTyped
<1>6. ASSUME NEW e \in Pairs PROVE Comes(e)'
  <2>1. /\ Comes(e) /\ writes[e] \in Nat /\ Queued(queue, e) \in Nat
        /\ e[1] \in Nat /\ e = <<e[1], e[2]>>
    BY Counts DEF Pairs
  <2>2. Queued(queue, e)' = Queued(queue, e) /\ Held(queue, e)' = Held(queue, e)
    BY <1>1
  <2>3. ToVisit(e) = 0
    BY <1>1 DEF ToVisit, Idle
  <2>4. CASE e[1] = calls + 1
    <3>1. writes[e] = 0 /\ e \notin owed
      BY <1>2, <2>1, <2>4 DEF Comes
    <3>2. Held(queue, e) = {}
      <4> SUFFICES ASSUME NEW l \in Loops, NEW i \in Nat \ {0}, i <= Len(queue[l]),
                          IsFor(queue[l][i], e)
                   PROVE  FALSE
        BY DEF Held
      <4>1. queue[l] \in Seq(Task(calls, kicks))
        BY DEF DInv, DTyped
      <4>2. queue[l][i] \in Task(calls, kicks)
        BY <4>1, ElementOfSeq
      <4>3. queue[l][i].call \in 1..calls
        BY <4>2 DEF Task
      <4> QED
        BY <1>2, <2>4, <4>3 DEF IsFor
    <3>3. Queued(queue, e) = 0
      BY <3>2, FS_EmptySet DEF Queued
    <3>4. ToVisit(e)' = IF e[2] \in record.todo THEN 1 ELSE 0
      BY <1>1, <2>4 DEF ToVisit
    <3>5. Sum(e)' = IF e[2] \in record.todo THEN 1 ELSE 0
      BY <1>1, <2>2, <3>1, <3>3, <3>4 DEF Sum
    <3>6. e \in owed' => e[2] \in promised
      BY <1>1, <3>1, <2>1
    <3>7. ASSUME e \in owed'
          PROVE  /\ Sum(e)' = 1 /\ e[2] \in listed'
                 /\ call'.op = "kickUser" => UserID'[e[2]] = call'.user
      BY <1>1, <3>5, <3>6, <3>7
    <3> QED
      BY <1>1, <1>2, <2>1, <2>2, <2>4, <3>1, <3>5, <3>7 DEF Comes
  <2>5. CASE e[1] # calls + 1
    <3>1. ToVisit(e)' = 0
      BY <1>1, <2>5 DEF ToVisit
    <3>2. Sum(e)' = Sum(e) /\ (e \in owed' <=> e \in owed) /\ (e[1] \in kicks' <=> e[1] \in kicks)
      BY <1>1, <2>1, <2>2, <2>3, <2>5, <3>1 DEF Sum
    <3>3. e[1] > calls' => e[1] > calls
      BY <1>1, <1>2, <2>1
    <3> QED
      BY <1>1, <2>1, <2>2, <3>1, <3>2, <3>3 DEF Comes
  <2> QED
    BY <2>4, <2>5
<1> QED
  BY <1>4, <1>5, <1>6 DEF DInv

\* A call that has visited all ends.
LEMMA EndDelivers ==
  ASSUME DInv, IInv', CallEnds
  PROVE  DInv'
<1>1. /\ UNCHANGED <<queue, writes, lost, listed, closed, UserID, calls, owed, kicks>>
      /\ call.todo = {} /\ call' = Idle
  BY DEF CallEnds, joining, seen
<1>2. DTyped' /\ CallTyped'
  BY <1>1 DEF DInv, DTyped, CallTyped
<1>3. ASSUME NEW e \in Pairs PROVE Comes(e)'
  <2>1. Comes(e) /\ ToVisit(e)' = 0 /\ ToVisit(e) = 0
    BY <1>1 DEF DInv, ToVisit, Idle
  <2>2. Sum(e)' = Sum(e)
    BY <1>1, <2>1 DEF Sum
  <2> QED
    BY <1>1, <2>1, <2>2 DEF Comes
<1> QED
  BY <1>2, <1>3 DEF DInv

\* What a visit changes: it puts the task on a loop, or it is lost and the
\* connection is not one that has joined, or nothing is owed to it.
LEMMA VisitStep ==
  ASSUME DInv, NEW c \in Conns, Visit(c)
  PROVE  LET task == [do |-> "task", what |-> IF call.op = "global" THEN "global" ELSE "kick",
                      call |-> calls, conn |-> c] IN
         /\ task \in Task(calls, kicks) /\ <<calls, c>> \in Pairs
         /\ \/ UNCHANGED lost /\ \E l \in Loops : queue' = Put(queue, l, task)
            \/ queue' = queue /\ lost' = lost \cup {<<calls, c>>}
            \/ /\ UNCHANGED <<queue, lost>>
               /\ c \notin listed \/ (call.op = "kickUser" /\ UserID[c] # call.user)
<1> DEFINE task == [do |-> "task", what |-> IF call.op = "global" THEN "global" ELSE "kick",
                    call |-> calls, conn |-> c]
<1>1. call # Idle /\ c \in call.todo /\ Send(c)
  BY DEF Visit, Idle
<1>2. calls \in 1..MaxCalls /\ calls \in 1..calls
  BY <1>1, RoutingAssumption DEF DInv, DTyped, CallTyped
<1>3. task \in Task(calls, kicks)
  BY <1>1, <1>2 DEF DInv, CallTyped, Task
<1>4. <<calls, c>> \in Pairs
  BY <1>2 DEF Pairs
<1> HIDE DEF task
<1>5. CASE c \in listed /\ (call.op = "kickUser" => UserID[c] = call.user)
  <2>1. Dispatch(c, task)
    BY <1>1, <1>5 DEF Send, task
  <2>2. CASE LoopIdx[c] \notin DOMAIN loops
    <3>1. c \notin joined
      BY <2>2 DEF DInv, IInv, JoinedIsRouted
    <3>2. queue' = queue /\ lost' = lost \cup {<<calls, c>>}
      BY <2>1, <2>2, <3>1 DEF Dispatch
    <3> QED
      BY <1>3, <1>4, <3>2 DEF task
  <2>3. CASE LoopIdx[c] \in DOMAIN loops
    <3>1. loops[LoopIdx[c]] \in Loops
      BY <2>3 DEF DInv, IInv, NumbersAgree, Counted
    <3>2. \/ UNCHANGED lost /\ queue' = Put(queue, loops[LoopIdx[c]], task)
          \/ queue' = queue /\ lost' = lost \cup {<<calls, c>>}
      BY <2>1, <2>3 DEF Dispatch, Put
    <3> QED
      BY <1>3, <1>4, <3>1, <3>2 DEF task
  <2> QED
    BY <2>2, <2>3
<1>6. CASE ~ (c \in listed /\ (call.op = "kickUser" => UserID[c] = call.user))
  <2>1. UNCHANGED <<queue, lost>>
    BY <1>1, <1>6 DEF Send
  <2> QED
    BY <1>3, <1>4, <1>6, <2>1 DEF task
<1> QED
  BY <1>5, <1>6

\* A visit's pair moves from the visit to a queue, or nothing is owed any more.
LEMMA VisitDelivers ==
  ASSUME DInv, IInv', NEW c \in Conns, Visit(c)
  PROVE  DInv'
<1> DEFINE task == [do |-> "task", what |-> IF call.op = "global" THEN "global" ELSE "kick",
                    call |-> calls, conn |-> c]
<1>1. /\ UNCHANGED <<writes, listed, closed, UserID, calls, owed, kicks>>
      /\ c \in call.todo /\ call' = [call EXCEPT !.todo = @ \ {c}] /\ call # Idle
  BY DEF Visit, joining, Idle
<1>2. /\ task \in Task(calls, kicks)
      /\ \/ UNCHANGED lost /\ \E l \in Loops : queue' = Put(queue, l, task)
         \/ queue' = queue /\ lost' = lost \cup {<<calls, c>>}
         \/ /\ UNCHANGED <<queue, lost>>
            /\ c \notin listed \/ (call.op = "kickUser" /\ UserID[c] # call.user)
  BY VisitStep
<1>3. \A e \in Pairs : IsFor(task, e) <=> e = <<calls, c>>
  BY DEF IsFor, Pairs
<1> HIDE DEF task
<1>4. queue \in [Loops -> Seq(Task(calls, kicks))]
  BY DEF DInv, DTyped
<1>5. /\ call' \in [op : {"kickConn", "global"}, todo : SUBSET Conns]
                   \cup [op : {"kickUser"}, user : Users, todo : SUBSET Conns]
      /\ call'.op = call.op /\ call'.todo = call.todo \ {c}
      /\ (call.op = "kickUser" => call'.user = call.user)
  BY <1>1 DEF DInv, CallTyped
<1>6. CallTyped'
  BY <1>1, <1>5 DEF DInv, CallTyped
<1>7. queue' \in [Loops -> Seq(Task(calls, kicks))]
  BY <1>2, <1>4, PutTyped
<1>8. DTyped'
  BY <1>1, <1>7 DEF DInv, DTyped
<1>9. ASSUME NEW e \in Pairs PROVE Comes(e)'
  <2>1. /\ Comes(e) /\ writes[e] \in Nat /\ Queued(queue, e) \in Nat
        /\ ToVisit(e) \in {0, 1} /\ e = <<e[1], e[2]>>
    BY Counts DEF Pairs
  <2>2. CASE e = <<calls, c>>
    <3>1. ToVisit(e) = 1 /\ ToVisit(e)' = 0
      BY <1>1, <1>5, <2>2 DEF ToVisit
    <3>2. writes[e] = 0 /\ Queued(queue, e) = 0 /\ Sum(e) = 1
      BY <2>1, <3>1 DEF Comes, Sum
    <3>3. ASSUME UNCHANGED lost, NEW l \in Loops, queue' = Put(queue, l, task)
          PROVE  Comes(e)'
      <4>1. /\ IsFiniteSet(Held(queue', e))
            /\ Queued(queue', e) = Queued(queue, e) + (IF IsFor(task, e) THEN 1 ELSE 0)
        BY <1>2, <1>4, <2>1, <3>3, PutCounts DEF Comes
      <4>2. Sum(e)' = 1
        BY <1>1, <1>3, <2>2, <3>1, <3>2, <4>1 DEF Sum
      <4> QED
        BY <1>1, <2>1, <3>1, <3>2, <3>3, <4>1, <4>2 DEF Comes
    <3>4. ASSUME queue' = queue,
                 \/ lost' = lost \cup {<<calls, c>>}
                 \/ /\ lost' = lost
                    /\ c \notin listed \/ (call.op = "kickUser" /\ UserID[c] # call.user)
          PROVE  Comes(e)'
      <4>1. Sum(e)' = 0
        BY <1>1, <3>1, <3>2, <3>4 DEF Sum
      <4>2. e \notin owed' \ lost' \/ e[2] \in closed'
        BY <1>1, <2>1, <2>2, <3>1, <3>4 DEF Comes
      <4> QED
        BY <1>1, <2>1, <3>4, <4>1, <4>2 DEF Comes
    <3> QED
      BY <1>2, <3>3, <3>4
  <2>3. CASE e # <<calls, c>>
    <3>1. ToVisit(e)' = ToVisit(e)
      BY <1>1, <1>5, <2>1, <2>3 DEF ToVisit
    <3>2. IsFiniteSet(Held(queue', e)) /\ Queued(queue', e) = Queued(queue, e)
      <4>1. ASSUME NEW l \in Loops, queue' = Put(queue, l, task)
            PROVE  IsFiniteSet(Held(queue', e)) /\ Queued(queue', e) = Queued(queue, e)
        <5>1. /\ IsFiniteSet(Held(queue', e))
              /\ Queued(queue', e) = Queued(queue, e) + (IF IsFor(task, e) THEN 1 ELSE 0)
          BY <1>2, <1>4, <2>1, <4>1, PutCounts DEF Comes
        <5> QED
          BY <1>3, <2>1, <2>3, <5>1
      <4> QED
        BY <1>2, <2>1, <4>1 DEF Comes
    <3>3. Sum(e)' = Sum(e)
      BY <1>1, <3>1, <3>2 DEF Sum
    <3>4. e \in owed' \ lost' => e \in owed \ lost
      BY <1>1, <1>2
    <3> QED
      BY <1>1, <1>5, <2>1, <3>1, <3>2, <3>3, <3>4 DEF Comes
  <2> QED
    BY <2>2, <2>3
<1> QED
  BY <1>6, <1>8, <1>9 DEF DInv

\* A task's pair moves to the write on its connection's loop, or is lost.
LEMMA TaskDelivers ==
  ASSUME DInv, IInv', NEW l \in Loops, RunTask(l)
  PROVE  DInv'
<1> DEFINE t == Head(queue[l])
           w == [t EXCEPT !.do = "write"]
           rest == Take(queue, l)
           T == Task(calls, kicks)
<1>1. queue \in [Loops -> Seq(T)] /\ queue[l] # <<>>
  BY DEF DInv, DTyped, RunTask
<1>2. /\ UNCHANGED <<writes, listed, closed, UserID, calls, call, owed, kicks>>
      /\ \/ queue' = Put(rest, LoopOf[t.conn], w) /\ UNCHANGED lost
         \/ queue' = rest /\ lost' = lost \cup {<<t.call, t.conn>>}
  BY DEF RunTask, joining, admin, Put, Take, Rest
<1>3. t \in T /\ rest \in [Loops -> Seq(T)]
  BY <1>1, TakeTyped
<1>4. /\ w \in T /\ LoopOf[t.conn] \in Loops
      /\ \A e : IsFor(w, e) <=> IsFor(t, e)
  BY <1>3, RoutingAssumption DEF Task, IsFor
<1>5. \A e \in Pairs : IsFor(t, e) <=> e = <<t.call, t.conn>>
  BY DEF IsFor, Pairs
<1>6. \A e \in Pairs : IsFiniteSet(Held(queue, e)) =>
        /\ IsFiniteSet(Held(rest, e))
        /\ Queued(queue, e) = Queued(rest, e) + (IF IsFor(t, e) THEN 1 ELSE 0)
  BY <1>1, TakeCounts
<1> HIDE DEF t, w, rest, T
<1>7. queue' \in [Loops -> Seq(T)]
  BY <1>2, <1>3, <1>4, PutTyped
<1>8. DTyped' /\ CallTyped'
  BY <1>2, <1>7 DEF DInv, DTyped, CallTyped, T
<1>9. ASSUME NEW e \in Pairs PROVE Comes(e)'
  <2>1. /\ Comes(e) /\ writes[e] \in Nat /\ Queued(queue, e) \in Nat
        /\ ToVisit(e) \in {0, 1} /\ ToVisit(e)' = ToVisit(e)
    BY <1>2, Counts DEF ToVisit
  <2>2. /\ IsFiniteSet(Held(rest, e)) /\ Queued(rest, e) \in Nat
        /\ Queued(queue, e) = Queued(rest, e) + (IF IsFor(t, e) THEN 1 ELSE 0)
    BY <1>6, <2>1, FS_CardinalityType DEF Comes, Queued
  <2>3. ASSUME queue' = Put(rest, LoopOf[t.conn], w), lost' = lost
        PROVE  Comes(e)'
    <3>1. /\ IsFiniteSet(Held(queue', e))
          /\ Queued(queue', e) = Queued(rest, e) + (IF IsFor(w, e) THEN 1 ELSE 0)
      BY <1>3, <1>4, <2>2, <2>3, PutCounts
    <3>2. Sum(e)' = Sum(e)
      BY <1>2, <1>4, <2>1, <2>2, <3>1 DEF Sum
    <3> QED
      BY <1>2, <2>1, <2>3, <3>1, <3>2 DEF Comes
  <2>4. ASSUME queue' = rest, lost' = lost \cup {<<t.call, t.conn>>}
        PROVE  Comes(e)'
    <3>1. Sum(e)' = writes[e] + Queued(rest, e) + ToVisit(e)
      BY <1>2, <2>1, <2>4 DEF Sum
    <3>2. Sum(e) = writes[e] + Queued(queue, e) + ToVisit(e)
      BY DEF Sum
    <3>3. /\ Sum(e)' <= 1 /\ (Sum(e) = 0 => Sum(e)' = 0)
          /\ e \in owed' \ lost' => e \in owed \ lost /\ Sum(e)' = Sum(e)
      BY <1>2, <1>5, <2>1, <2>2, <2>4, <3>1, <3>2 DEF Comes
    <3>4. IsFiniteSet(Held(queue', e))
      BY <2>2, <2>4
    <3> QED
      BY <1>2, <2>1, <3>3, <3>4 DEF Comes
  <2> QED
    BY <1>2, <2>3, <2>4
<1> QED
  BY <1>8, <1>9 DEF DInv

\* A write to an open connection is made, and a kick's closes it.
LEMMA WriteDelivers ==
  ASSUME DInv, IInv', NEW l \in Loops, RunWrite(l)
  PROVE  DInv'
<1> DEFINE t == Head(queue[l])
           rest == Take(queue, l)
           T == Task(calls, kicks)
<1>1. queue \in [Loops -> Seq(T)] /\ queue[l] # <<>>
  BY DEF DInv, DTyped, RunWrite
<1>2. /\ UNCHANGED <<UserID, calls, call, owed, lost, kicks>> /\ queue' = rest
      /\ writes' = IF t.conn \in closed THEN writes
                   ELSE [writes EXCEPT ![<<t.call, t.conn>>] = @ + 1]
      /\ IF t.what = "kick"
         THEN closed' = closed \cup {t.conn} /\ listed' = listed \ {t.conn}
         ELSE UNCHANGED <<closed, listed>>
  BY DEF RunWrite, joining, admin, Take, Rest
<1>3. t \in T /\ rest \in [Loops -> Seq(T)]
  BY <1>1, TakeTyped
<1>4. /\ <<t.call, t.conn>> \in Pairs /\ (t.what = "kick" <=> t.call \in kicks)
      /\ \A e \in Pairs : e = <<e[1], e[2]>>
  BY <1>3, RoutingAssumption DEF Task, Pairs, DInv, DTyped
<1>5. \A e \in Pairs : IsFor(t, e) <=> e = <<t.call, t.conn>>
  BY DEF IsFor, Pairs
<1>6. \A e \in Pairs : IsFiniteSet(Held(queue, e)) =>
        /\ IsFiniteSet(Held(rest, e))
        /\ Queued(queue, e) = Queued(rest, e) + (IF IsFor(t, e) THEN 1 ELSE 0)
  BY <1>1, TakeCounts
<1> HIDE DEF t, rest, T
<1>7. writes \in [Pairs -> Nat]
  BY DEF DInv, DTyped
<1>8. writes' \in [Pairs -> Nat]
  BY <1>2, <1>4, <1>7
<1>9. listed' \subseteq listed /\ closed \subseteq closed' /\ listed \cup closed \subseteq listed' \cup closed'
  BY <1>2
<1>10. DTyped' /\ CallTyped'
  BY <1>2, <1>3, <1>8, <1>9 DEF DInv, DTyped, CallTyped, T
<1>11. ASSUME NEW e \in Pairs PROVE Comes(e)'
  <2>1. /\ Comes(e) /\ writes[e] \in Nat /\ Queued(queue, e) \in Nat
        /\ ToVisit(e) \in {0, 1} /\ ToVisit(e)' = ToVisit(e)
    BY <1>2, Counts DEF ToVisit
  <2>2. /\ IsFiniteSet(Held(rest, e)) /\ Queued(rest, e) \in Nat
        /\ Queued(queue, e) = Queued(rest, e) + (IF IsFor(t, e) THEN 1 ELSE 0)
    BY <1>6, <2>1, FS_CardinalityType DEF Comes, Queued
  <2>3. Sum(e)' = writes'[e] + Queued(rest, e) + ToVisit(e)
    BY <1>2, <2>1 DEF Sum
  <2>4. Sum(e) = writes[e] + Queued(queue, e) + ToVisit(e)
    BY DEF Sum
  <2>5. IsFiniteSet(Held(queue', e))
    BY <1>2, <2>2
  <2>6. CASE e # <<t.call, t.conn>>
    <3>1. writes'[e] = writes[e] /\ Sum(e)' = Sum(e)
      BY <1>2, <1>5, <1>7, <2>1, <2>2, <2>3, <2>4, <2>6
    <3>2. ASSUME e[2] \notin closed', e[2] \in listed PROVE e[2] \in listed'
      BY <1>2, <3>2
    <3> QED
      BY <1>2, <1>9, <2>1, <2>5, <3>1, <3>2 DEF Comes
  <2>7. CASE e = <<t.call, t.conn>> /\ t.conn \in closed
    <3>1. writes'[e] = writes[e] /\ Sum(e)' <= Sum(e) /\ e[2] \in closed'
      BY <1>2, <2>1, <2>2, <2>3, <2>4, <2>7
    <3>2. Sum(e)' <= 1
      BY <2>1, <2>2, <2>3, <2>4, <3>1 DEF Comes
    <3> QED
      BY <1>2, <2>1, <2>5, <3>1, <3>2 DEF Comes
  <2>8. CASE e = <<t.call, t.conn>> /\ t.conn \notin closed
    <3>1. writes'[e] = writes[e] + 1 /\ Sum(e)' = Sum(e)
      BY <1>2, <1>5, <1>7, <2>1, <2>2, <2>3, <2>4, <2>8
    <3>2. Sum(e) = 1 /\ e[2] \in listed
      <4>1. IsFor(t, e) /\ Sum(e) <= 1 /\ e[2] = t.conn
        BY <1>5, <2>1, <2>8 DEF Comes
      <4>2. Queued(queue, e) = Queued(rest, e) + 1
        BY <2>2, <4>1
      <4>3. Sum(e) = 1
        BY <2>1, <2>2, <2>4, <4>1, <4>2
      <4> QED
        BY <2>1, <2>8, <4>1, <4>3 DEF Comes
    <3>3. ToVisit(e)' = 0
      BY <2>1, <2>2, <2>3, <3>1, <3>2
    <3>4. e[1] <= calls
      <4>1. t.call \in 1..calls
        BY <1>3 DEF Task, T
      <4> QED
        BY <2>8, <4>1
    <3>5. calls \in Nat /\ e[1] \in Nat
      BY Counts DEF Pairs
    <3>6. e[1] \in kicks => e[2] \in closed'
      BY <1>2, <1>4, <2>8
    <3>7. e[2] \notin closed' => e[2] \in listed'
      BY <1>2, <3>2
    <3>8. e[2] \in listed' \cup closed'
      BY <1>9, <3>2
    <3> QED
      BY <1>2, <2>5, <3>1, <3>2, <3>3, <3>4, <3>5, <3>6, <3>7, <3>8 DEF Comes
  <2> QED
    BY <2>6, <2>7, <2>8
<1> QED
  BY <1>10, <1>11 DEF DInv

LEMMA DNext == DInv /\ [Next]_vars => DInv'
<1> SUFFICES ASSUME DInv, [Next]_vars PROVE DInv'
  OBVIOUS
<1>1. IInv'
  BY NextHolds DEF DInv
<1>2. listed \subseteq Conns
  BY DEF DInv, DTyped
<1>3. ASSUME NEW g \in Pool,
             \/ \E c \in Conns, u \in Users : JoinSetUser(g, c, u)
             \/ GetOrAssign(g) \/ Bind(g) \/ JoinSetLoop(g)
      PROVE  DInv'
  BY <1>1, <1>3, JoinDelivers
<1>4. ASSUME NEW c \in Conns, OnOpen(c) \/ PeerCloses(c) \/ Visit(c)
      PROVE  DInv'
  BY <1>1, <1>4, OpenDelivers, PeerDelivers, VisitDelivers
<1>5. ASSUME NEW c \in Conns, KickConn(c) PROVE DInv'
  <2>1. /\ c \in listed /\ Begin([op |-> "kickConn", todo |-> {c}], {c})
        /\ [op |-> "kickConn", todo |-> {c}] \in [op : {"kickConn", "global"}, todo : SUBSET Conns]
        /\ [op |-> "kickConn", todo |-> {c}].todo = {c}
    BY <1>5 DEF KickConn
  <2> QED
    BY <1>1, <2>1, BeginDelivers
<1>6. ASSUME NEW u \in Users, KickUser(u) PROVE DInv'
  <2> DEFINE r == [op |-> "kickUser", user |-> u, todo |-> listed]
             P == {c \in listed : UserID[c] = u}
  <2>1. /\ Begin(r, P) /\ r.todo = listed /\ r.user = u
        /\ r \in [op : {"kickUser"}, user : Users, todo : SUBSET Conns]
    BY <1>2, <1>6 DEF KickUser
  <2>2. P \subseteq listed /\ \A c \in P : UserID[c] = u
    OBVIOUS
  <2> HIDE DEF r, P
  <2> QED
    BY <1>1, <2>1, <2>2, BeginDelivers
<1>7. CASE BroadcastGlobalSystemMsg
  <2> DEFINE r == [op |-> "global", todo |-> listed]
  <2>1. /\ Begin(r, listed) /\ r.todo = listed
        /\ r \in [op : {"kickConn", "global"}, todo : SUBSET Conns]
    BY <1>2, <1>7 DEF BroadcastGlobalSystemMsg
  <2> HIDE DEF r
  <2> QED
    BY <1>1, <2>1, BeginDelivers
<1>8. CASE CallEnds
  BY <1>1, <1>8, EndDelivers
<1>9. ASSUME NEW l \in Loops, RunTask(l) \/ RunWrite(l) PROVE DInv'
  BY <1>1, <1>9, TaskDelivers, WriteDelivers
<1>10. CASE UNCHANGED vars
  <2>1. UNCHANGED <<listed, closed, UserID, queue, call, calls, owed, kicks, lost, writes>>
    BY <1>10 DEF vars, joining, admin, seen
  <2>2. DOMAIN UserID' = Conns
    BY <2>1 DEF DInv, DTyped
  <2> QED
    BY <1>1, <2>1, <2>2, QuietStep
<1> QED
  BY <1>3, <1>4, <1>5, <1>6, <1>7, <1>8, <1>9, <1>10 DEF Next

\* When nothing is under way, only what was written is left of the sum.
LEMMA QuietSum ==
  ASSUME DInv, Quiet, NEW e \in Pairs
  PROVE  Sum(e) = writes[e]
<1>1. Held(queue, e) = {}
  BY DEF Held, Quiet
<1>2. Queued(queue, e) = 0 /\ ToVisit(e) = 0
  BY <1>1, FS_EmptySet DEF Queued, ToVisit, Quiet, Idle
<1> QED
  BY <1>2, Counts DEF Sum

\* For any number of connections, joins, calls and queued tasks: when kicks and
\* all they queued have run, each connection they were for is closed, unless an
\* ignored error lost the kick (app.go:590-653).
THEOREM KickSafe == Spec => []KickComplete
<1>1. DInv => KickComplete
  <2> SUFFICES ASSUME DInv, Quiet, NEW e \in owed \ lost, e[1] \in kicks
               PROVE  e[2] \in closed
    BY DEF KickComplete
  <2>1. e \in Pairs
    BY DEF DInv, DTyped
  <2>2. Comes(e) /\ Sum(e) = writes[e]
    BY <2>1, QuietSum DEF DInv
  <2> QED
    BY <2>2 DEF Comes
<1> QED
  BY DInit, DNext, <1>1, PTL DEF Spec

\* Likewise each connection that was there when a global message began has it, is
\* closed, or lost it to an ignored error; and none is written one message twice
\* (app.go:705-738).
THEOREM GlobalSafe == Spec => []GlobalComplete
<1>1. DInv => GlobalComplete
  <2> SUFFICES ASSUME DInv PROVE GlobalComplete
    OBVIOUS
  <2>1. ASSUME Quiet, NEW e \in owed \ lost PROVE writes[e] > 0 \/ e[2] \in closed
    <3>1. e \in Pairs
      BY DEF DInv, DTyped
    <3>2. Comes(e) /\ Sum(e) = writes[e]
      BY <2>1, <3>1, QuietSum DEF DInv
    <3> QED
      BY <3>2 DEF Comes
  <2>2. ASSUME NEW e \in DOMAIN writes PROVE writes[e] <= 1
    <3>1. e \in Pairs
      BY DEF DInv, DTyped
    <3>2. /\ Comes(e) /\ writes[e] \in Nat /\ Queued(queue, e) \in Nat
          /\ ToVisit(e) \in {0, 1}
      BY <3>1, Counts
    <3> QED
      BY <3>2 DEF Comes, Sum
  <2> QED
    BY <2>1, <2>2 DEF GlobalComplete
<1> QED
  BY DInit, DNext, <1>1, PTL DEF Spec
=============================================================================
