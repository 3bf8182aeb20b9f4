------------------------ MODULE ConnLifecycleProofs ------------------------
(***************************************************************************)
(* The safety of ConnLifecycle for every number of connections, loops,     *)
(* workers and users, and every limit.                                     *)
(***************************************************************************)
EXTENDS ConnLifecycle, FiniteSetTheorems, TLAPS

Early == {"idle", "overflow", "opening", "refused"}

\* A running request has a connection that was opened and acceptable ids past
\* the checks; an early connection carries no user.
JobsSound ==
  \A w \in Workers :
    /\ job[w].pc # "idle" => /\ job[w].conn \in Conns
                             /\ phase[job[w].conn] \notin Early
    /\ job[w].pc \notin {"idle", "check"} => /\ job[w].user \in Users
                                             /\ job[w].room \in Rooms

CtxSound ==
  \A c \in Conns :
    /\ phase[c] \in Early => ctx[c].UserID = NULL
    /\ phase[c] \in {"unindexing", "releasing"} => ctx[c].UserID \in Users

\* What backs a unit of userConnCount[u]: a connection that carries u, or a
\* request counted by addUserConn that has not written UserID yet.
Pending(u) == {w \in Workers : job[w].pc = "user" /\ job[w].user = u}
Tokens(u) == Owners(u) \cup Pending(u)

UserBacked ==
  \A u \in Users : /\ Cardinality(Tokens(u)) <= userConnCount[u]
                   /\ userConnCount[u] <= MaxConnsPerUser

IInv ==
  /\ TypeOK
  /\ SlotsConserved
  /\ AdmissionLimit
  /\ UnregisteredWhenClosed
  /\ ReachableWhileOpen
  /\ JobsSound
  /\ CtxSound
  /\ UserBacked

-----------------------------------------------------------------------------
(* The type invariant.  CurrConnCount is a natural number because it counts *)
(* (SlotsStep below); the rest is local to each action.                     *)

TypeButCount ==
  /\ phase \in [Conns -> Phases]
  /\ ctx \in [Conns -> Ctx]
  /\ silent \in [Conns -> BOOLEAN]
  /\ closeReq \in [Conns -> BOOLEAN]
  /\ joins \in [Conns -> Nat]
  /\ hurried \subseteq Conns
  /\ AllConns \subseteq Conns
  /\ userConnCount \in [Users -> Nat]
  /\ index \subseteq (Rooms \cup {NULL}) \X Loops \X Conns
  /\ job \in [Workers -> Job]
  /\ reaping \in Conns \cup {NULL}

\* Writing one field of a context leaves a context.
LEMMA CtxKept ==
  ASSUME NEW x \in Ctx
  PROVE  /\ \A u \in Users : [x EXCEPT !.UserID = u] \in Ctx
         /\ \A r \in Rooms : [x EXCEPT !.RoomID = r] \in Ctx
         /\ \A l \in Loops : [x EXCEPT !.LoopIdx = l] \in Ctx
  BY DEF Ctx

\* Every step keeps every variable but the counter in its type.
LEMMA TypeStep == IInv /\ [Next]_vars => TypeButCount'
<1> SUFFICES ASSUME IInv, [Next]_vars PROVE TypeButCount'
  OBVIOUS
<1> USE DEF IInv, TypeOK, TypeButCount
<1>1. CASE vars' = vars
  BY <1>1 DEF vars
<1>2. ASSUME NEW c \in Conns, ConnStep(c) PROVE TypeButCount'
  <2>1. CASE OnOpenCount(c)
    BY <2>1 DEF OnOpenCount, Phases
  <2>2. CASE OnOpenRefuse(c)
    BY <2>2 DEF OnOpenRefuse, Phases
  <2>3. CASE OnOpenRegister(c)
    <3>1. NewCtx \in Ctx
      BY LoopsAssumption DEF NewCtx, Ctx
    <3> QED BY <2>3, <3>1 DEF OnOpenRegister, Phases
  <2>4. CASE OnTrafficHandshake(c)
    <3>1. [ctx[c] EXCEPT !.HandshakeDone = TRUE] \in Ctx
      BY DEF Ctx
    <3>2. ctx' \in [Conns -> Ctx]
      BY <2>4, <3>1 DEF OnTrafficHandshake
    <3> QED BY <2>4, <3>2 DEF OnTrafficHandshake
  <2>5. ASSUME NEW u \in Users \cup {NULL}, NEW r \in Rooms \cup {NULL},
               OnTrafficJoin(c, u, r)
        PROVE  TypeButCount'
    <3>1. [pc |-> "check", conn |-> c, user |-> u, room |-> r] \in Job
      BY DEF Job, JobSteps
    <3>2. job' \in [Workers -> Job]
      BY <2>5, <3>1 DEF OnTrafficJoin
    <3> QED BY <2>5, <3>2 DEF OnTrafficJoin
  <2>6. CASE OnCloseUnregister(c)
    BY <2>6 DEF OnCloseUnregister, Phases
  <2>7. CASE OnCloseRefused(c)
    BY <2>7 DEF OnCloseRefused, Phases
  <2>8. CASE OnCloseCheck(c)
    BY <2>8 DEF OnCloseCheck, Phases
  <2>9. CASE OnCloseUnindex(c)
    BY <2>9 DEF OnCloseUnindex, Phases
  <2>10. CASE OnCloseRelease(c)
    <3> DEFINE u == ctx[c].UserID
               n == IF userConnCount[u] - 1 > 0 THEN userConnCount[u] - 1 ELSE 0
    <3>1. u \in Users
      BY <2>10 DEF OnCloseRelease, CtxSound
    <3>2. userConnCount[u] \in Nat
      BY <3>1
    <3>3. n \in Nat
      BY <3>2
    <3>4. userConnCount' = [userConnCount EXCEPT ![u] = n]
      BY <2>10 DEF OnCloseRelease, RemoveUserConn
    <3> HIDE DEF n, u
    <3>5. userConnCount' \in [Users -> Nat]
      BY <3>3, <3>4
    <3> QED BY <2>10, <3>5 DEF OnCloseRelease, Phases
  <2>11. CASE FallSilent(c)
    BY <2>11 DEF FallSilent
  <2>12. CASE HeartbeatUnregister(c)
    BY <2>12 DEF HeartbeatUnregister
  <2> QED BY <1>2, <2>1, <2>2, <2>3, <2>4, <2>5, <2>6, <2>7, <2>8, <2>9,
             <2>10, <2>11, <2>12 DEF ConnStep
<1>3. ASSUME NEW w \in Workers, WorkerStep(w) PROVE TypeButCount'
  <2>1. \A pc \in JobSteps : [job[w] EXCEPT !.pc = pc] \in Job
    BY DEF Job
  <2>2. NoJob \in Job
    BY DEF NoJob, Job, JobSteps
  <2>3. job' \in [Workers -> Job]
    BY <1>3, <2>1, <2>2 DEF WorkerStep, JoinCheck, JoinCount, JoinSetUser,
      JoinSetRoom, JoinSetLoop, JoinIndex, SetCtx, GoTo, Return, JobSteps
  <2>4. CASE JoinCheck(w)
    BY <2>3, <2>4 DEF JoinCheck
  <2>5. CASE JoinCount(w)
    BY <2>3, <2>5 DEF JoinCount, JobsSound
  <2>6. CASE JoinSetUser(w) \/ JoinSetRoom(w) \/ JoinSetLoop(w)
    <3>1. job[w].conn \in Conns /\ job[w].user \in Users /\ job[w].room \in Rooms
      BY <2>6 DEF JobsSound, JoinSetUser, JoinSetRoom, JoinSetLoop, SetCtx
    <3>2. CtxOf(w) \in Ctx /\ LoopOf[job[w].conn] \in Loops
      BY <3>1, LoopsAssumption DEF CtxOf
    <3>3. [CtxOf(w) EXCEPT !.UserID = job[w].user] \in Ctx
      BY <3>1, <3>2, CtxKept
    <3>4. [CtxOf(w) EXCEPT !.RoomID = job[w].room] \in Ctx
      BY <3>1, <3>2, CtxKept
    <3>5. [CtxOf(w) EXCEPT !.LoopIdx = LoopOf[job[w].conn]] \in Ctx
      BY <3>2, CtxKept
    <3> QED BY <2>3, <2>6, <3>3, <3>4, <3>5
          DEF JoinSetUser, JoinSetRoom, JoinSetLoop, SetCtx
  <2>7. CASE JoinIndex(w)
    <3>1. job[w].conn \in Conns
      BY <2>7 DEF JoinIndex, JobsSound
    <3>2. ctx[job[w].conn] \in Ctx
      BY <3>1
    <3>3. <<ctx[job[w].conn].RoomID, ctx[job[w].conn].LoopIdx, job[w].conn>>
            \in (Rooms \cup {NULL}) \X Loops \X Conns
      BY <3>1, <3>2 DEF Ctx
    <3> QED BY <2>3, <2>7, <3>3 DEF JoinIndex
  <2> QED BY <1>3, <2>4, <2>5, <2>6, <2>7 DEF WorkerStep
<1>4. CASE HeartbeatClose
  BY <1>4 DEF HeartbeatClose
<1> QED BY <1>1, <1>2, <1>3, <1>4 DEF Next

-----------------------------------------------------------------------------
(* The slots.  Only the callbacks move a connection between phases. *)

\* The counter follows the set of holders, one connection at a time, and a
\* connection is let in only when the counter, its own slot included, is
\* within the limit.
LEMMA SlotsStep == IInv /\ [Next]_vars => SlotsConserved' /\ AdmissionLimit'
<1> SUFFICES ASSUME IInv, [Next]_vars PROVE SlotsConserved' /\ AdmissionLimit'
  OBVIOUS
<1> USE DEF IInv, TypeOK, SlotsConserved, AdmissionLimit
<1>1. /\ IsFiniteSet(Counted) /\ IsFiniteSet(Admitted)
      /\ Cardinality(Counted) \in Nat /\ Cardinality(Admitted) \in Nat
      /\ Cardinality(Admitted) <= Cardinality(Counted)
  BY ConnsAssumption, FS_Subset, FS_CardinalityType DEF Counted, Admitted
<1>2. ASSUME Admitted' = Admitted, Counted' = Counted,
             CurrConnCount' = CurrConnCount
      PROVE  SlotsConserved' /\ AdmissionLimit'
  BY <1>2
<1>3. ASSUME phase' = phase, CurrConnCount' = CurrConnCount
      PROVE  SlotsConserved' /\ AdmissionLimit'
  BY <1>2, <1>3 DEF Admitted, Counted
<1>4. CASE vars' = vars
  BY <1>3, <1>4 DEF vars
<1>5. ASSUME NEW c \in Conns, ConnStep(c)
      PROVE  SlotsConserved' /\ AdmissionLimit'
  <2>1. CASE OnOpenCount(c)
    <3>1. c \notin Counted /\ c \notin Admitted
      BY <2>1 DEF OnOpenCount, Counted, Admitted
    <3>2. Counted' = Counted \cup {c}
      BY <2>1 DEF OnOpenCount, Counted, Admitted
    <3>3. Cardinality(Counted') = Cardinality(Counted) + 1
      BY <1>1, <3>1, <3>2, FS_AddElement
    <3>4. CASE CurrConnCount' > MaxConns
      <4>1. Admitted' = Admitted
        BY <2>1, <3>4 DEF OnOpenCount, Admitted
      <4> QED BY <2>1, <3>3, <4>1 DEF OnOpenCount
    <3>5. CASE ~(CurrConnCount' > MaxConns)
      <4>1. Admitted' = Admitted \cup {c}
        BY <2>1, <3>5 DEF OnOpenCount, Admitted
      <4>2. Cardinality(Admitted') = Cardinality(Admitted) + 1
        BY <1>1, <3>1, <4>1, FS_AddElement
      <4> QED BY <1>1, <2>1, <3>3, <3>5, <4>2, LimitsAssumption DEF OnOpenCount
    <3> QED BY <3>4, <3>5
  <2>2. CASE OnOpenRefuse(c)
    <3>1. c \in Counted
      BY <2>2 DEF OnOpenRefuse, Counted
    <3>2. Counted' = Counted \ {c} /\ Admitted' = Admitted
      BY <2>2 DEF OnOpenRefuse, Counted, Admitted
    <3>3. Cardinality(Counted') = Cardinality(Counted) - 1
      BY <1>1, <3>1, <3>2, FS_RemoveElement
    <3> QED BY <2>2, <3>2, <3>3 DEF OnOpenRefuse
  <2>3. CASE OnOpenRegister(c)
    <3>1. Counted' = Counted /\ Admitted' = Admitted
      BY <2>3 DEF OnOpenRegister, Counted, Admitted
    <3> QED BY <1>2, <2>3, <3>1 DEF OnOpenRegister
  <2>4. CASE OnCloseUnregister(c)
    <3>1. c \in Counted /\ c \in Admitted
      BY <2>4 DEF OnCloseUnregister, Reads, Counted, Admitted
    <3>2. Counted' = Counted \ {c} /\ Admitted' = Admitted \ {c}
      BY <2>4 DEF OnCloseUnregister, Reads, Counted, Admitted
    <3>3. /\ Cardinality(Counted') = Cardinality(Counted) - 1
          /\ Cardinality(Admitted') = Cardinality(Admitted) - 1
      BY <1>1, <3>1, <3>2, FS_RemoveElement
    <3> QED BY <1>1, <2>4, <3>3, LimitsAssumption DEF OnCloseUnregister
  <2>5. CASE OnCloseRefused(c) \/ OnCloseCheck(c) \/ OnCloseUnindex(c)
               \/ OnCloseRelease(c)
    <3>1. Counted' = Counted /\ Admitted' = Admitted
      BY <2>5 DEF OnCloseRefused, OnCloseCheck, OnCloseUnindex, OnCloseRelease,
                  Counted, Admitted
    <3> QED BY <1>2, <2>5, <3>1
            DEF OnCloseRefused, OnCloseCheck, OnCloseUnindex, OnCloseRelease
  <2>6. CASE OnTrafficHandshake(c) \/ FallSilent(c) \/ HeartbeatUnregister(c)
               \/ \E u \in Users \cup {NULL}, r \in Rooms \cup {NULL} :
                    OnTrafficJoin(c, u, r)
    BY <1>3, <2>6
       DEF OnTrafficHandshake, FallSilent, HeartbeatUnregister, OnTrafficJoin
  <2> QED BY <1>5, <2>1, <2>2, <2>3, <2>4, <2>5, <2>6 DEF ConnStep
<1>6. ASSUME NEW w \in Workers, WorkerStep(w)
      PROVE  SlotsConserved' /\ AdmissionLimit'
  BY <1>3, <1>6 DEF WorkerStep, JoinCheck, JoinCount, JoinSetUser, JoinSetRoom,
     JoinSetLoop, SetCtx, JoinIndex
<1>7. CASE HeartbeatClose
  BY <1>3, <1>7 DEF HeartbeatClose
<1> QED BY <1>4, <1>5, <1>6, <1>7 DEF Next

-----------------------------------------------------------------------------
(* AllConns against the phases. *)

\* A connection enters AllConns when it opens, and leaves it when it closes or
\* when the heartbeat takes charge of closing it.
LEMMA TableStep ==
  IInv /\ [Next]_vars => UnregisteredWhenClosed' /\ ReachableWhileOpen'
<1> SUFFICES ASSUME IInv, [Next]_vars
             PROVE  UnregisteredWhenClosed' /\ ReachableWhileOpen'
  OBVIOUS
<1> USE DEF IInv, TypeOK, UnregisteredWhenClosed, ReachableWhileOpen
<1>1. ASSUME phase' = phase, AllConns' = AllConns, reaping' = reaping,
             closeReq' = closeReq
      PROVE  UnregisteredWhenClosed' /\ ReachableWhileOpen'
  BY <1>1
<1>2. CASE vars' = vars
  BY <1>1, <1>2 DEF vars
<1>3. ASSUME NEW c \in Conns, ConnStep(c)
      PROVE  UnregisteredWhenClosed' /\ ReachableWhileOpen'
  <2>1. CASE OnOpenCount(c)
    BY <2>1 DEF OnOpenCount
  <2>2. CASE OnOpenRefuse(c)
    BY <2>2 DEF OnOpenRefuse
  <2>3. CASE OnOpenRegister(c)
    BY <2>3 DEF OnOpenRegister
  <2>4. CASE OnCloseUnregister(c)
    BY <2>4 DEF OnCloseUnregister
  <2>5. CASE OnCloseRefused(c) \/ OnCloseCheck(c) \/ OnCloseUnindex(c)
               \/ OnCloseRelease(c)
    BY <2>5 DEF OnCloseRefused, OnCloseCheck, OnCloseUnindex, OnCloseRelease
  <2>6. CASE OnTrafficHandshake(c) \/ FallSilent(c)
               \/ \E u \in Users \cup {NULL}, r \in Rooms \cup {NULL} :
                    OnTrafficJoin(c, u, r)
    BY <1>1, <2>6 DEF OnTrafficHandshake, FallSilent, OnTrafficJoin
  <2>7. CASE HeartbeatUnregister(c)
    BY <2>7, NullAssumption DEF HeartbeatUnregister
  <2> QED BY <1>3, <2>1, <2>2, <2>3, <2>4, <2>5, <2>6, <2>7 DEF ConnStep
<1>4. ASSUME NEW w \in Workers, WorkerStep(w)
      PROVE  UnregisteredWhenClosed' /\ ReachableWhileOpen'
  BY <1>1, <1>4 DEF WorkerStep, JoinCheck, JoinCount, JoinSetUser, JoinSetRoom,
     JoinSetLoop, SetCtx, JoinIndex
<1>5. CASE HeartbeatClose
  BY <1>5 DEF HeartbeatClose
<1> QED BY <1>2, <1>3, <1>4, <1>5 DEF Next

-----------------------------------------------------------------------------
(* Requests and contexts. *)

\* A request is taken from an open connection, and phases never run back to
\* an early one; what passed the checks stays acceptable.
LEMMA JobsStep == IInv /\ [Next]_vars => JobsSound'
<1> SUFFICES ASSUME IInv, [Next]_vars PROVE JobsSound'
  OBVIOUS
<1> USE DEF IInv, TypeOK, JobsSound, Early
<1>1. CASE vars' = vars
  BY <1>1 DEF vars
<1>2. ASSUME NEW c \in Conns, ConnStep(c) PROVE JobsSound'
  <2>1. CASE OnOpenCount(c) \/ OnOpenRefuse(c) \/ OnOpenRegister(c)
               \/ OnCloseRefused(c)
    <3>1. phase[c] \in Early /\ job' = job
      BY <2>1 DEF OnOpenCount, OnOpenRefuse, OnOpenRegister, OnCloseRefused
    <3>2. \A d \in Conns : d # c => phase'[d] = phase[d]
      BY <2>1 DEF OnOpenCount, OnOpenRefuse, OnOpenRegister, OnCloseRefused
    <3> QED BY <3>1, <3>2
  <2>2. CASE OnCloseUnregister(c) \/ OnCloseCheck(c) \/ OnCloseUnindex(c)
               \/ OnCloseRelease(c)
    BY <2>2
       DEF OnCloseUnregister, OnCloseCheck, OnCloseUnindex, OnCloseRelease
  <2>3. CASE OnTrafficHandshake(c) \/ FallSilent(c) \/ HeartbeatUnregister(c)
    BY <2>3 DEF OnTrafficHandshake, FallSilent, HeartbeatUnregister
  <2>4. ASSUME NEW u \in Users \cup {NULL}, NEW r \in Rooms \cup {NULL},
               OnTrafficJoin(c, u, r)
        PROVE  JobsSound'
    BY <2>4 DEF OnTrafficJoin, Reads
  <2> QED BY <1>2, <2>1, <2>2, <2>3, <2>4 DEF ConnStep
<1>3. ASSUME NEW w \in Workers, WorkerStep(w) PROVE JobsSound'
  <2>1. phase' = phase
    BY <1>3 DEF WorkerStep, JoinCheck, JoinCount, JoinSetUser, JoinSetRoom,
       JoinSetLoop, SetCtx, JoinIndex
  <2>2. \A v \in Workers : v # w => job'[v] = job[v]
    BY <1>3 DEF WorkerStep, JoinCheck, JoinCount, JoinSetUser, JoinSetRoom,
       JoinSetLoop, SetCtx, JoinIndex, GoTo, Return
  <2>3. \/ job'[w] = NoJob
        \/ /\ job'[w].conn = job[w].conn
           /\ job'[w].user = job[w].user
           /\ job'[w].room = job[w].room
           /\ job[w].pc # "idle"
           /\ job[w].pc = "check" => Acceptable(w)
    <3>1. job[w] \in Job
      OBVIOUS
    <3> QED BY <1>3, <3>1 DEF Job, WorkerStep, JoinCheck, JoinCount,
          JoinSetUser, JoinSetRoom, JoinSetLoop, SetCtx, JoinIndex, GoTo, Return
  <2> QED BY <2>1, <2>2, <2>3 DEF NoJob, Acceptable
<1>4. CASE HeartbeatClose
  BY <1>4 DEF HeartbeatClose
<1> QED BY <1>1, <1>2, <1>3, <1>4 DEF Next

\* A context is written only by a request of its connection, which is past the
\* early phases, and once it has a user it keeps one.
LEMMA CtxStep == IInv /\ [Next]_vars => CtxSound'
<1> SUFFICES ASSUME IInv, [Next]_vars PROVE CtxSound'
  OBVIOUS
<1> USE DEF IInv, TypeOK, CtxSound, Early
<1>1. CASE vars' = vars
  BY <1>1 DEF vars
<1>2. ASSUME NEW c \in Conns, ConnStep(c) PROVE CtxSound'
  <2>1. CASE OnOpenRegister(c)
    BY <2>1 DEF OnOpenRegister, NewCtx
  <2>2. CASE OnTrafficHandshake(c)
    <3>1. \A d \in Conns : ctx'[d].UserID = ctx[d].UserID
      BY <2>2 DEF OnTrafficHandshake, Ctx
    <3> QED BY <2>2, <3>1 DEF OnTrafficHandshake
  <2>3. CASE OnCloseCheck(c)
    <3>1. ctx[c] \in Ctx
      OBVIOUS
    <3> QED BY <2>3, <3>1 DEF OnCloseCheck, Joined, Ctx
  <2>4. CASE OnOpenCount(c) \/ OnOpenRefuse(c) \/ OnCloseUnregister(c)
               \/ OnCloseRefused(c) \/ OnCloseUnindex(c) \/ OnCloseRelease(c)
    BY <2>4 DEF OnOpenCount, OnOpenRefuse, OnCloseUnregister, OnCloseRefused,
       OnCloseUnindex, OnCloseRelease
  <2>5. CASE FallSilent(c) \/ HeartbeatUnregister(c)
               \/ \E u \in Users \cup {NULL}, r \in Rooms \cup {NULL} :
                    OnTrafficJoin(c, u, r)
    BY <2>5 DEF FallSilent, HeartbeatUnregister, OnTrafficJoin
  <2> QED BY <1>2, <2>1, <2>2, <2>3, <2>4, <2>5 DEF ConnStep
<1>3. ASSUME NEW w \in Workers, WorkerStep(w) PROVE CtxSound'
  <2>1. CASE JoinCheck(w) \/ JoinCount(w) \/ JoinIndex(w)
    BY <2>1 DEF JoinCheck, JoinCount, JoinIndex
  <2>2. CASE JoinSetUser(w) \/ JoinSetRoom(w) \/ JoinSetLoop(w)
    <3> DEFINE d == job[w].conn
    <3>1. d \in Conns /\ job[w].user \in Users /\ phase[d] \notin Early
      BY <2>2 DEF JobsSound, JoinSetUser, JoinSetRoom, JoinSetLoop, SetCtx
    <3>2. ctx[d] \in Ctx
      BY <3>1
    <3>3. \/ ctx'[d].UserID = ctx[d].UserID
          \/ ctx'[d].UserID = job[w].user
      BY <2>2, <3>1, <3>2
         DEF JoinSetUser, JoinSetRoom, JoinSetLoop, SetCtx, CtxOf, Ctx
    <3>4. phase' = phase /\ \A e \in Conns : e # d => ctx'[e] = ctx[e]
      BY <2>2 DEF JoinSetUser, JoinSetRoom, JoinSetLoop, SetCtx
    <3> QED BY <3>1, <3>3, <3>4
  <2> QED BY <1>3, <2>1, <2>2 DEF WorkerStep
<1>4. CASE HeartbeatClose
  BY <1>4 DEF HeartbeatClose
<1> QED BY <1>1, <1>2, <1>3, <1>4 DEF Next

-----------------------------------------------------------------------------
(* The users. *)

LEMMA TokensFinite ==
  ASSUME NEW u
  PROVE  IsFiniteSet(Tokens(u)) /\ Cardinality(Tokens(u)) \in Nat
<1>1. IsFiniteSet(Owners(u)) /\ IsFiniteSet(Pending(u))
  BY ConnsAssumption, FS_Subset DEF Owners, Pending
<1> QED BY <1>1, FS_Union, FS_CardinalityType DEF Tokens

\* A user stays backed when nothing is charged to him and no token appears.
LEMMA StillBacked ==
  ASSUME TypeOK, UserBacked, NEW u \in Users,
         Tokens(u)' \subseteq Tokens(u), userConnCount'[u] = userConnCount[u]
  PROVE  /\ Cardinality(Tokens(u)') <= userConnCount'[u]
         /\ userConnCount'[u] <= MaxConnsPerUser
<1>1. IsFiniteSet(Tokens(u))
  BY TokensFinite
<1>2. Tokens(u)' \in SUBSET Tokens(u)
  OBVIOUS
<1>3. Cardinality(Tokens(u)') <= Cardinality(Tokens(u))
  BY ONLY <1>1, <1>2, FS_Subset
<1>4. Cardinality(Tokens(u)) \in Nat /\ Cardinality(Tokens(u)') \in Nat
  BY ONLY <1>1, <1>2, FS_Subset, FS_CardinalityType
<1> QED BY <1>3, <1>4, LimitsAssumption DEF UserBacked, TypeOK

\* addUserConn creates the token it charges, handleJoinRoom turns it from a
\* request's into a connection's, OnClose gives back one that is there.
LEMMA UsersStep == IInv /\ [Next]_vars => UserBacked'
<1> SUFFICES ASSUME IInv, [Next]_vars, NEW u \in Users
             PROVE  /\ Cardinality(Tokens(u)') <= userConnCount'[u]
                    /\ userConnCount'[u] <= MaxConnsPerUser
  BY DEF UserBacked
<1> USE DEF IInv, TypeOK
<1>1. ASSUME Tokens(u)' \subseteq Tokens(u), userConnCount'[u] = userConnCount[u]
      PROVE  /\ Cardinality(Tokens(u)') <= userConnCount'[u]
             /\ userConnCount'[u] <= MaxConnsPerUser
  BY <1>1, StillBacked
<1>2. u # NULL /\ userConnCount[u] \in Nat
  BY NullAssumption
<1>3. CASE vars' = vars
  <2>1. Tokens(u)' = Tokens(u)
    BY <1>3 DEF vars, Tokens, Owners, Pending
  <2> QED BY <1>1, <1>3, <2>1 DEF vars
<1>4. ASSUME NEW c \in Conns, ConnStep(c)
      PROVE  /\ Cardinality(Tokens(u)') <= userConnCount'[u]
             /\ userConnCount'[u] <= MaxConnsPerUser
  <2>1. CASE OnOpenCount(c) \/ OnOpenRefuse(c) \/ OnOpenRegister(c)
    <3>1. Pending(u)' = Pending(u)
      BY <2>1 DEF OnOpenCount, OnOpenRefuse, OnOpenRegister, Pending
    <3>2. ctx'[c].UserID # u
      BY <1>2, <2>1 DEF OnOpenCount, OnOpenRefuse, OnOpenRegister, CtxSound,
         Early, NewCtx
    <3>3. \A d \in Conns : d # c => ctx'[d] = ctx[d] /\ phase'[d] = phase[d]
      BY <2>1 DEF OnOpenCount, OnOpenRefuse, OnOpenRegister
    <3>4. Owners(u)' \subseteq Owners(u)
      BY <3>2, <3>3 DEF Owners
    <3> QED BY <1>1, <2>1, <3>1, <3>4
            DEF Tokens, OnOpenCount, OnOpenRefuse, OnOpenRegister
  <2>2. CASE OnCloseUnregister(c) \/ OnCloseRefused(c) \/ OnCloseCheck(c)
               \/ OnCloseUnindex(c)
    <3>1. Pending(u)' = Pending(u)
      BY <2>2 DEF OnCloseUnregister, OnCloseRefused, OnCloseCheck,
         OnCloseUnindex, Pending
    <3>2. Owners(u)' \subseteq Owners(u)
      BY <2>2 DEF OnCloseUnregister, OnCloseRefused, OnCloseCheck,
         OnCloseUnindex, Reads, Owners
    <3> QED BY <1>1, <2>2, <3>1, <3>2 DEF Tokens, OnCloseUnregister,
            OnCloseRefused, OnCloseCheck, OnCloseUnindex
  <2>3. CASE OnTrafficHandshake(c)
    <3>1. \A d \in Conns : ctx'[d].UserID = ctx[d].UserID
      BY <2>3 DEF OnTrafficHandshake, Ctx
    <3>2. Tokens(u)' = Tokens(u)
      BY <2>3, <3>1 DEF OnTrafficHandshake, Tokens, Owners, Pending
    <3> QED BY <1>1, <2>3, <3>2 DEF OnTrafficHandshake
  <2>4. ASSUME NEW v \in Users \cup {NULL}, NEW r \in Rooms \cup {NULL},
               OnTrafficJoin(c, v, r)
        PROVE  /\ Cardinality(Tokens(u)') <= userConnCount'[u]
               /\ userConnCount'[u] <= MaxConnsPerUser
    <3>1. Tokens(u)' \subseteq Tokens(u)
      BY <2>4 DEF OnTrafficJoin, Tokens, Owners, Pending
    <3> QED BY <1>1, <2>4, <3>1 DEF OnTrafficJoin
  <2>5. CASE FallSilent(c) \/ HeartbeatUnregister(c)
    <3>1. Tokens(u)' = Tokens(u)
      BY <2>5 DEF FallSilent, HeartbeatUnregister, Tokens, Owners, Pending
    <3> QED BY <1>1, <2>5, <3>1 DEF FallSilent, HeartbeatUnregister
  <2>6. CASE OnCloseRelease(c)
    <3>1. Pending(u)' = Pending(u)
      BY <2>6 DEF OnCloseRelease, Pending
    <3>2. Owners(u)' = Owners(u) \ {c}
      BY <2>6 DEF OnCloseRelease, Owners
    <3>3. CASE ctx[c].UserID # u
      BY <1>1, <2>6, <3>1, <3>2, <3>3
         DEF Tokens, OnCloseRelease, RemoveUserConn
    <3>4. CASE ctx[c].UserID = u
      <4>1. c \in Tokens(u) /\ c \notin Pending(u)
        BY <2>6, <3>4, ThreadsAssumption
           DEF OnCloseRelease, Tokens, Owners, Pending
      <4>2. Tokens(u)' = Tokens(u) \ {c}
        BY <3>1, <3>2, <4>1 DEF Tokens
      <4>3. /\ Cardinality(Tokens(u)') = Cardinality(Tokens(u)) - 1
            /\ Cardinality(Tokens(u)) \in Nat
            /\ Cardinality(Tokens(u)') \in Nat
        <5> HIDE DEF TypeOK, IInv
        <5>1. IsFiniteSet(Tokens(u))
          BY TokensFinite
        <5>2. IsFiniteSet(Tokens(u) \ {c})
          BY <5>1, FS_RemoveElement
        <5> QED BY <4>1, <4>2, <5>1, <5>2, FS_RemoveElement, FS_CardinalityType
      <4>4. userConnCount'[u] = IF userConnCount[u] - 1 > 0
                                THEN userConnCount[u] - 1 ELSE 0
        BY <2>6, <3>4 DEF OnCloseRelease, RemoveUserConn
      <4> QED BY <1>2, <4>3, <4>4, LimitsAssumption DEF UserBacked
    <3> QED BY <3>3, <3>4
  <2> QED BY <1>4, <2>1, <2>2, <2>3, <2>4, <2>5, <2>6 DEF ConnStep
<1>5. ASSUME NEW w \in Workers, WorkerStep(w)
      PROVE  /\ Cardinality(Tokens(u)') <= userConnCount'[u]
             /\ userConnCount'[u] <= MaxConnsPerUser
  <2>1. CASE JoinCheck(w)
    <3>1. job'[w].pc # "user" /\ \A x \in Workers : x # w => job'[x] = job[x]
      <4>1. job[w] \in Job
        OBVIOUS
      <4> QED BY <2>1, <4>1 DEF JoinCheck, GoTo, Return, NoJob, Job
    <3>2. Owners(u)' = Owners(u)
      BY <2>1 DEF JoinCheck, Owners
    <3>3. Tokens(u)' \subseteq Tokens(u)
      BY <3>1, <3>2 DEF Tokens, Pending
    <3> QED BY <1>1, <2>1, <3>3 DEF JoinCheck
  <2>2. CASE JoinCount(w)
    <3>1. Owners(u)' = Owners(u)
      BY <2>2 DEF JoinCount, Owners
    <3>2. CASE job[w].user # u \/ userConnCount' = userConnCount
      <4>1. job' = [job EXCEPT ![w] = NoJob] \/ job[w].user # u
        BY <2>2, <3>2 DEF JoinCount, Return, JobsSound
      <4>2. \A x \in Workers : x # w => job'[x] = job[x]
        BY <2>2 DEF JoinCount, Return, GoTo
      <4>3. job[w] \in Job /\ job[w].pc = "count"
        BY <2>2 DEF JoinCount
      <4>4. job'[w].pc # "user" \/ job'[w].user # u
        BY <2>2, <4>1, <4>3 DEF JoinCount, Return, GoTo, NoJob, Job
      <4>5. Pending(u)' \subseteq Pending(u)
        BY <4>2, <4>4 DEF Pending
      <4>6. userConnCount'[u] = userConnCount[u]
        BY <2>2, <3>2 DEF JoinCount
      <4> QED BY <1>1, <3>1, <4>5, <4>6 DEF Tokens
    <3>3. CASE job[w].user = u /\ userConnCount' # userConnCount
      <4>1. /\ userConnCount'[u] = userConnCount[u] + 1
            /\ userConnCount[u] + 1 <= MaxConnsPerUser
            /\ GoTo(w, "user")
        BY <2>2, <3>3 DEF JoinCount
      <4>2. Tokens(u)' \subseteq Tokens(u) \cup {w}
        BY <3>1, <4>1 DEF GoTo, Tokens, Pending
      <4>3. /\ Cardinality(Tokens(u)') <= Cardinality(Tokens(u)) + 1
            /\ Cardinality(Tokens(u)') \in Nat /\ Cardinality(Tokens(u)) \in Nat
        <5> HIDE DEF TypeOK, IInv
        <5>1. IsFiniteSet(Tokens(u))
          BY TokensFinite
        <5>2. /\ IsFiniteSet(Tokens(u) \cup {w})
              /\ Cardinality(Tokens(u) \cup {w}) <= Cardinality(Tokens(u)) + 1
          <6>1. Cardinality(Tokens(u)) \in Nat
            BY <5>1, FS_CardinalityType
          <6>2. Cardinality(Tokens(u) \cup {w}) =
                  IF w \in Tokens(u) THEN Cardinality(Tokens(u))
                  ELSE Cardinality(Tokens(u)) + 1
            BY ONLY <5>1, FS_AddElement
          <6>3. IsFiniteSet(Tokens(u) \cup {w})
            BY ONLY <5>1, FS_AddElement
          <6> QED BY <6>1, <6>2, <6>3
        <5>3. /\ IsFiniteSet(Tokens(u)')
              /\ Cardinality(Tokens(u)') <= Cardinality(Tokens(u) \cup {w})
          BY <4>2, <5>2, FS_Subset
        <5> QED BY <5>1, <5>2, <5>3, FS_CardinalityType
      <4> QED BY <1>2, <4>1, <4>3 DEF UserBacked
    <3> QED BY <3>2, <3>3
  <2>3. CASE JoinSetUser(w)
    <3> DEFINE c == job[w].conn
    <3>1. c \in Conns /\ w \notin Conns
      BY <2>3, ThreadsAssumption DEF JoinSetUser, SetCtx, JobsSound
    <3>2. /\ \A d \in Conns : d # c => ctx'[d] = ctx[d]
          /\ phase' = phase /\ userConnCount' = userConnCount
      BY <2>3 DEF JoinSetUser, SetCtx
    <3>3. ctx[c] \in Ctx /\ job[w] \in Job
      BY <3>1
    <3>4. ctx'[c].UserID = job[w].user
      BY <2>3, <3>1, <3>3 DEF JoinSetUser, SetCtx, CtxOf, Ctx
    <3>5. Pending(u)' = Pending(u) \ {w}
      BY <2>3, <3>3 DEF JoinSetUser, SetCtx, GoTo, Pending, Job
    <3>6. CASE job[w].user # u
      <4>1. Owners(u)' \subseteq Owners(u)
        BY <3>2, <3>4, <3>6 DEF Owners
      <4> QED BY <1>1, <3>2, <3>5, <4>1 DEF Tokens
    <3>7. CASE job[w].user = u
      <4>1. w \in Tokens(u) /\ w \notin Owners(u)
        BY <2>3, <3>1, <3>7 DEF JoinSetUser, SetCtx, Tokens, Pending, Owners
      <4>2. Owners(u)' \subseteq Owners(u) \cup {c}
        BY <3>2 DEF Owners
      <4>3. Tokens(u)' \subseteq (Tokens(u) \ {w}) \cup {c}
        BY <3>5, <4>1, <4>2 DEF Tokens
      <4>4. /\ Cardinality(Tokens(u)') <= Cardinality(Tokens(u))
            /\ Cardinality(Tokens(u)') \in Nat /\ Cardinality(Tokens(u)) \in Nat
        <5> HIDE DEF TypeOK, IInv, c
        <5>1. IsFiniteSet(Tokens(u))
          BY TokensFinite
        <5>2. /\ IsFiniteSet(Tokens(u) \ {w})
              /\ Cardinality(Tokens(u) \ {w}) = Cardinality(Tokens(u)) - 1
          BY <4>1, <5>1, FS_RemoveElement
        <5> DEFINE S == (Tokens(u) \ {w}) \cup {c}
        <5>3. /\ IsFiniteSet(S)
              /\ Cardinality(S) <= Cardinality(Tokens(u))
          <6>1. Cardinality(Tokens(u)) \in Nat
            BY <5>1, FS_CardinalityType
          <6> QED BY <5>2, <6>1, FS_AddElement, SMTT(20)
        <5>4. /\ IsFiniteSet(Tokens(u)')
              /\ Cardinality(Tokens(u)') <= Cardinality(S)
          BY <4>3, <5>3, FS_Subset
        <5> QED BY <5>1, <5>3, <5>4, FS_CardinalityType
      <4> QED BY <1>2, <3>2, <4>4, LimitsAssumption DEF UserBacked
    <3> QED BY <3>6, <3>7
  <2>4. CASE JoinSetRoom(w) \/ JoinSetLoop(w)
    <3>1. job[w].conn \in Conns /\ job[w] \in Job
      BY <2>4 DEF JoinSetRoom, JoinSetLoop, SetCtx, JobsSound
    <3>2. \A d \in Conns : ctx'[d].UserID = ctx[d].UserID
      BY <2>4, <3>1 DEF JoinSetRoom, JoinSetLoop, SetCtx, CtxOf, Ctx
    <3>3. Owners(u)' = Owners(u)
      BY <2>4, <3>2 DEF JoinSetRoom, JoinSetLoop, SetCtx, Owners
    <3>4. Pending(u)' \subseteq Pending(u)
      BY <2>4, <3>1 DEF JoinSetRoom, JoinSetLoop, SetCtx, GoTo, Pending, Job
    <3> QED BY <1>1, <2>4, <3>3, <3>4 DEF JoinSetRoom, JoinSetLoop, SetCtx, Tokens
  <2>5. CASE JoinIndex(w)
    <3>1. Tokens(u)' \subseteq Tokens(u)
      BY <2>5 DEF JoinIndex, Return, NoJob, Tokens, Owners, Pending
    <3> QED BY <1>1, <2>5, <3>1 DEF JoinIndex
  <2> QED BY <1>5, <2>1, <2>2, <2>3, <2>4, <2>5 DEF WorkerStep
<1>6. CASE HeartbeatClose
  <2>1. Tokens(u)' = Tokens(u)
    BY <1>6 DEF HeartbeatClose, Tokens, Owners, Pending
  <2> QED BY <1>1, <1>6, <2>1 DEF HeartbeatClose
<1> QED BY <1>3, <1>4, <1>5, <1>6 DEF Next

-----------------------------------------------------------------------------
(* The theorems. *)

LEMMA InitInv == Init => IInv
<1> SUFFICES ASSUME Init PROVE IInv
  OBVIOUS
<1> USE DEF Init
<1>1. Counted = {} /\ Admitted = {}
  BY DEF Counted, Admitted
<1>2. \A u \in Users : Tokens(u) = {}
  BY DEF Tokens, Owners, Pending, NoJob
<1>3. Cardinality({}) = 0
  BY FS_EmptySet
<1>4. TypeOK
  BY LoopsAssumption
     DEF TypeOK, Phases, NewCtx, Ctx, NoJob, Job, JobSteps
<1>5. SlotsConserved /\ AdmissionLimit
  BY <1>1, <1>3, LimitsAssumption DEF SlotsConserved, AdmissionLimit
<1>6. UnregisteredWhenClosed /\ ReachableWhileOpen
  BY DEF UnregisteredWhenClosed, ReachableWhileOpen
<1>7. JobsSound /\ CtxSound
  BY DEF JobsSound, CtxSound, NoJob, NewCtx, Early
<1>8. UserBacked
  BY <1>2, <1>3, LimitsAssumption DEF UserBacked
<1> QED BY <1>4, <1>5, <1>6, <1>7, <1>8 DEF IInv

\* The strengthened invariant holds of every behaviour.
THEOREM Invariance == Spec => []IInv
<1>1. Init => IInv
  BY InitInv
<1>2. IInv /\ [Next]_vars => IInv'
  <2> SUFFICES ASSUME IInv, [Next]_vars PROVE IInv'
    OBVIOUS
  <2>1. TypeButCount'
    BY TypeStep
  <2>2. SlotsConserved' /\ AdmissionLimit'
    BY SlotsStep
  <2>3. CurrConnCount' \in Nat
    <3>1. IsFiniteSet(Counted')
      BY ConnsAssumption, FS_Subset DEF Counted, Admitted
    <3> QED BY <2>2, <3>1, FS_CardinalityType DEF SlotsConserved
  <2>4. TypeOK'
    BY <2>1, <2>3 DEF TypeOK, TypeButCount
  <2> QED BY <2>2, <2>4, TableStep, JobsStep, CtxStep, UsersStep DEF IInv
<1> QED BY <1>1, <1>2, PTL DEF Spec

\* The state of the connection handlers is well typed; in particular
\* CurrConnCount (event_handler.go:46-47, 100) never goes below zero.
THEOREM TypeCorrect == Spec => []TypeOK
<1>1. IInv => TypeOK
  BY DEF IInv
<1> QED BY <1>1, Invariance, PTL

\* OnOpen's optimistic counter (event_handler.go:46-48) never lets more than
\* MaxConns connections in.
THEOREM AdmissionSafe == Spec => []AdmissionLimit
<1>1. IInv => AdmissionLimit
  BY DEF IInv
<1> QED BY <1>1, Invariance, PTL

\* The counter never drifts from the slots that are held, through refusals and
\* closes of any connections (event_handler.go:46-48, 100).
THEOREM SlotsSafe == Spec => []SlotsConserved
<1>1. IInv => SlotsConserved
  BY DEF IInv
<1> QED BY <1>1, Invariance, PTL

\* Every open connection that nobody is closing is in AllConns
\* (event_handler.go:65-67; app.go:321-326).
THEOREM TableSafe == Spec => []ReachableWhileOpen
<1>1. IInv => ReachableWhileOpen
  BY DEF IInv
<1> QED BY <1>1, Invariance, PTL

\* AllConns lists open connections only (event_handler.go:65-67, 99).
THEOREM UnregisteredSafe == Spec => []UnregisteredWhenClosed
<1>1. IInv => UnregisteredWhenClosed
  BY DEF IInv
<1> QED BY <1>1, Invariance, PTL

\* No user exceeds MaxConnsPerUser joined connections (app.go:141-163), even
\* with joins repeated on one connection and running across its OnClose.
THEOREM UserLimitSafe == Spec => []UserLimit
<1>1. IInv => UserLimit
  <2> SUFFICES ASSUME IInv, NEW u \in Users
               PROVE  Cardinality(Owners(u)) <= MaxConnsPerUser
    BY DEF UserLimit
  <2>1. IsFiniteSet(Tokens(u)) /\ Cardinality(Tokens(u)) \in Nat
    BY TokensFinite
  <2>2. /\ Cardinality(Owners(u)) <= Cardinality(Tokens(u))
        /\ Cardinality(Owners(u)) \in Nat
    BY <2>1, FS_Subset, FS_CardinalityType DEF Tokens
  <2>3. /\ Cardinality(Tokens(u)) <= userConnCount[u]
        /\ userConnCount[u] <= MaxConnsPerUser /\ userConnCount[u] \in Nat
    BY DEF IInv, UserBacked, TypeOK
  <2> QED BY <2>1, <2>2, <2>3, LimitsAssumption
<1> QED BY <1>1, Invariance, PTL

-----------------------------------------------------------------------------
(* The room index.  RoomIndexReleased needs Traced: as long as a connection *)
(* is patient, the one request it has ever sent and the one entry that      *)
(* request has left say how far its join has come.                          *)

Holder(w, c) == job[w].pc # "idle" /\ job[w].conn = c

Unlisted(c) == \A e \in index : e[3] # c

Traced(c) ==
  /\ phase[c] \in Early => joins[c] = 0
  /\ phase[c] \in {"closing", "unindexing", "releasing", "closed"} => ~Held(c)
  /\ joins[c] = 0 \/ Held(c) => Unlisted(c)
  /\ joins[c] = 0 => ~Held(c)
  /\ \A v, w \in Workers : Holder(v, c) /\ Holder(w, c) => v = w
  /\ \A w \in Workers : Holder(w, c) =>
       /\ job[w].pc \in {"room", "loop", "index"} => ctx[c].UserID # NULL
       /\ job[w].pc \in {"loop", "index"} => ctx[c].RoomID # NULL
  /\ \A e \in index : e[3] = c =>
       /\ e = <<ctx[c].RoomID, ctx[c].LoopIdx, c>> /\ Joined(c)
       /\ phase[c] \in {"open", "closing", "unindexing"}

TInv == IInv /\ \A c \in Conns : Patient(c) => Traced(c)

\* A step that touches neither the connection nor its requests nor its entries.
LEMMA TracedKept ==
  ASSUME NEW c \in Conns, Traced(c),
         phase'[c] = phase[c], ctx'[c] = ctx[c], joins'[c] = joins[c],
         \A w \in Workers : job'[w] = job[w] \/ (~Holder(w, c) /\ ~Holder(w, c)'),
         \A e : e[3] = c => (e \in index' <=> e \in index)
  PROVE  Traced(c)'
<1>1. Held(c)' <=> Held(c)
  BY DEF Held, Holder
<1>2. Unlisted(c)' <=> Unlisted(c)
  BY DEF Unlisted
<1>3. \A w \in Workers : Holder(w, c)' => Holder(w, c) /\ job'[w] = job[w]
  BY DEF Holder
<1> QED
  BY <1>1, <1>2, <1>3 DEF Traced, Joined

\* A connection that has sent no request has nothing to trace.
LEMMA NoRequestTraced ==
  ASSUME NEW c \in Conns, Traced(c), joins[c] = 0,
         joins' = joins, job' = job, index' = index
  PROVE  Traced(c)'
<1>1. ~Held(c)' /\ Unlisted(c)'
  BY DEF Traced, Held, Unlisted
<1>2. \A w \in Workers : ~Holder(w, c)'
  BY <1>1 DEF Held, Holder
<1> QED
  BY <1>1, <1>2 DEF Traced, Unlisted

\* The steps of the connection itself.
LEMMA OwnStepTraced ==
  ASSUME IInv, NEW c \in Conns, Patient(c)', Patient(c), Traced(c), ConnStep(c)
  PROVE  Traced(c)'
<1> USE DEF IInv, TypeOK
<1>1. CASE OnOpenCount(c) \/ OnOpenRefuse(c) \/ OnOpenRegister(c) \/ OnCloseRefused(c)
  <2>1. phase[c] \in Early /\ UNCHANGED <<joins, job, index>>
    BY <1>1 DEF OnOpenCount, OnOpenRefuse, OnOpenRegister, OnCloseRefused, Early
  <2> QED
    BY <2>1, NoRequestTraced DEF Traced
<1>2. CASE OnTrafficHandshake(c)
  <2>1. /\ UNCHANGED <<phase, joins, job, index>>
        /\ ctx' = ctx \/ ctx' = [ctx EXCEPT ![c].HandshakeDone = TRUE]
    BY <1>2 DEF OnTrafficHandshake
  <2>2. /\ ctx'[c].RoomID = ctx[c].RoomID /\ ctx'[c].UserID = ctx[c].UserID
        /\ ctx'[c].LoopIdx = ctx[c].LoopIdx
    BY <2>1 DEF Ctx
  <2> QED
    BY <2>1, <2>2 DEF Traced, Held, Holder, Unlisted, Joined
<1>3. ASSUME NEW u \in Users \cup {NULL}, NEW r \in Rooms \cup {NULL},
             OnTrafficJoin(c, u, r)
      PROVE  Traced(c)'
  <2>1. /\ UNCHANGED <<phase, ctx, index>> /\ phase[c] = "open"
        /\ joins'[c] = joins[c] + 1
        /\ \/ job' = job
           \/ \E w \in Workers :
                job' = [job EXCEPT ![w] = [pc |-> "check", conn |-> c, user |-> u, room |-> r]]
    BY <1>3 DEF OnTrafficJoin, Reads
  <2>2. joins[c] = 0 /\ joins'[c] = 1
    BY <2>1 DEF Patient
  <2>3. Unlisted(c)' /\ \A w \in Workers : ~Holder(w, c)
    BY <2>1, <2>2 DEF Traced, Unlisted, Held, Holder
  <2>4. CASE job' = job
    <3>1. \A w \in Workers : ~Holder(w, c)'
      BY <2>3, <2>4 DEF Holder
    <3> QED
      BY <2>1, <2>2, <2>3, <3>1 DEF Traced, Early, Held, Holder, Unlisted
  <2>5. ASSUME NEW w \in Workers,
               job' = [job EXCEPT ![w] = [pc |-> "check", conn |-> c, user |-> u, room |-> r]]
        PROVE  Traced(c)'
    <3>1. job'[w].pc = "check" /\ \A v \in Workers : v # w => ~Holder(v, c)'
      BY <2>3, <2>5 DEF Holder
    <3> QED
      BY <2>1, <2>2, <2>3, <3>1 DEF Traced, Early, Unlisted
  <2> QED
    BY <2>1, <2>4, <2>5
<1>4. CASE OnCloseUnregister(c)
  <2>1. /\ UNCHANGED <<ctx, joins, job, index>> /\ phase[c] = "open" /\ phase'[c] = "closing"
        /\ Held(c) => c \in hurried'
    BY <1>4 DEF OnCloseUnregister, Reads
  <2>2. ~Held(c)'
    BY <2>1 DEF Patient, Held
  <2> QED
    BY <2>1, <2>2 DEF Traced, Early, Held, Holder, Unlisted, Joined
<1>5. CASE OnCloseCheck(c)
  <2>1. /\ UNCHANGED <<ctx, joins, job, index>> /\ phase[c] = "closing"
        /\ phase'[c] = IF Joined(c) THEN "unindexing" ELSE "closed"
    BY <1>5 DEF OnCloseCheck
  <2> QED
    BY <2>1 DEF Traced, Early, Held, Holder, Unlisted, Joined
<1>6. CASE OnCloseUnindex(c)
  <2>1. /\ UNCHANGED <<ctx, joins, job>> /\ phase[c] = "unindexing" /\ phase'[c] = "releasing"
        /\ index' = index \ {<<ctx[c].RoomID, ctx[c].LoopIdx, c>>}
    BY <1>6 DEF OnCloseUnindex
  <2>2. Unlisted(c)'
    BY <2>1 DEF Traced, Unlisted
  <2> QED
    BY <2>1, <2>2 DEF Traced, Early, Held, Holder, Unlisted
<1>7. CASE OnCloseRelease(c)
  <2>1. /\ UNCHANGED <<ctx, joins, job, index>> /\ phase[c] = "releasing" /\ phase'[c] = "closed"
    BY <1>7 DEF OnCloseRelease
  <2> QED
    BY <2>1 DEF Traced, Early, Held, Holder, Unlisted, Joined
<1>8. CASE FallSilent(c) \/ HeartbeatUnregister(c)
  <2>1. UNCHANGED <<phase, ctx, joins, job, index>>
    BY <1>8 DEF FallSilent, HeartbeatUnregister
  <2> QED
    BY <2>1, TracedKept
<1> QED
  BY <1>1, <1>2, <1>3, <1>4, <1>5, <1>6, <1>7, <1>8 DEF ConnStep

\* The steps of another connection.
LEMMA OtherStepTraced ==
  ASSUME IInv, NEW c \in Conns, NEW d \in Conns, d # c, Traced(c), ConnStep(d)
  PROVE  Traced(c)'
<1> USE DEF IInv, TypeOK
<1>1. phase'[c] = phase[c] /\ ctx'[c] = ctx[c] /\ joins'[c] = joins[c]
  BY DEF ConnStep, OnOpenCount, OnOpenRefuse, OnOpenRegister, OnTrafficHandshake,
     OnTrafficJoin, OnCloseUnregister, OnCloseRefused, OnCloseCheck, OnCloseUnindex,
     OnCloseRelease, FallSilent, HeartbeatUnregister
<1>2. \/ job' = job
      \/ \E w \in Workers, u \in Users \cup {NULL}, r \in Rooms \cup {NULL} :
           /\ job[w].pc = "idle"
           /\ job' = [job EXCEPT ![w] = [pc |-> "check", conn |-> d, user |-> u, room |-> r]]
  BY DEF ConnStep, OnOpenCount, OnOpenRefuse, OnOpenRegister, OnTrafficHandshake,
     OnTrafficJoin, OnCloseUnregister, OnCloseRefused, OnCloseCheck, OnCloseUnindex,
     OnCloseRelease, FallSilent, HeartbeatUnregister
<1>3. \A w \in Workers : job'[w] = job[w] \/ (~Holder(w, c) /\ ~Holder(w, c)')
  BY <1>2 DEF Holder
<1>4. index' = index \/ index' = index \ {<<ctx[d].RoomID, ctx[d].LoopIdx, d>>}
  BY DEF ConnStep, OnOpenCount, OnOpenRefuse, OnOpenRegister, OnTrafficHandshake,
     OnTrafficJoin, OnCloseUnregister, OnCloseRefused, OnCloseCheck, OnCloseUnindex,
     OnCloseRelease, FallSilent, HeartbeatUnregister
<1>5. \A e : e[3] = c => (e \in index' <=> e \in index)
  BY <1>4
<1> QED
  BY <1>1, <1>3, <1>5, TracedKept

\* The steps of a request.
LEMMA RequestTraced ==
  ASSUME IInv, NEW c \in Conns, Traced(c), NEW w \in Workers, WorkerStep(w)
  PROVE  Traced(c)'
<1> USE DEF IInv, TypeOK
<1>1. /\ UNCHANGED <<phase, joins>>
      /\ \A v \in Workers : v # w => job'[v] = job[v]
  BY DEF WorkerStep, JoinCheck, JoinCount, JoinSetUser, JoinSetRoom, JoinSetLoop,
     JoinIndex, SetCtx, GoTo, Return
<1>2. job[w].pc # "idle" /\ job[w].conn \in Conns /\ job[w] \in Job
  BY DEF WorkerStep, JoinCheck, JoinCount, JoinSetUser, JoinSetRoom, JoinSetLoop,
     JoinIndex, SetCtx, JobsSound
<1>3. job'[w].pc = "idle" \/ (job'[w].pc # "idle" /\ job'[w].conn = job[w].conn)
  BY <1>2 DEF Job, WorkerStep, JoinCheck, JoinCount, JoinSetUser, JoinSetRoom, JoinSetLoop,
     JoinIndex, SetCtx, GoTo, Return, NoJob
<1>4. CASE job[w].conn # c
  <2>1. ctx'[c] = ctx[c]
    BY <1>2, <1>4 DEF WorkerStep, JoinCheck, JoinCount, JoinSetUser, JoinSetRoom,
       JoinSetLoop, JoinIndex, SetCtx
  <2>2. \A v \in Workers : job'[v] = job[v] \/ (~Holder(v, c) /\ ~Holder(v, c)')
    BY <1>1, <1>3, <1>4 DEF Holder
  <2>3. \/ index' = index
        \/ index' = index \cup {<<ctx[job[w].conn].RoomID, ctx[job[w].conn].LoopIdx, job[w].conn>>}
    BY DEF WorkerStep, JoinCheck, JoinCount, JoinSetUser, JoinSetRoom, JoinSetLoop,
       JoinIndex, SetCtx
  <2>4. \A e : e[3] = c => (e \in index' <=> e \in index)
    BY <1>4, <2>3
  <2> QED
    BY <1>1, <2>1, <2>2, <2>4, TracedKept
<1>5. CASE job[w].conn = c
  <2>1. /\ Held(c) /\ Unlisted(c) /\ joins[c] # 0 /\ phase[c] = "open"
        /\ \A v \in Workers : v # w => ~Holder(v, c)
    BY <1>2, <1>5 DEF Traced, Held, Holder, JobsSound, Early, Phases
  <2>2. \A v \in Workers : v # w => ~Holder(v, c)'
    BY <1>1, <2>1 DEF Holder
  <2>3. ctx[c] \in Ctx
    OBVIOUS
  <2>4. CASE JoinCheck(w) \/ JoinCount(w)
    <3>1. UNCHANGED <<ctx, index>> /\ job'[w].pc \in {"idle", "count", "user"}
      BY <1>2, <2>4 DEF JoinCheck, JoinCount, GoTo, Return, NoJob, Job
    <3> QED
      BY <1>1, <2>1, <2>2, <3>1 DEF Traced, Unlisted, Early, Holder
  <2>5. CASE JoinSetUser(w)
    <3>1. job[w].user # NULL
      BY <2>5, NullAssumption DEF JoinSetUser, SetCtx, JobsSound
    <3>2. index' = index /\ job'[w].pc = "room" /\ ctx'[c].UserID # NULL
      BY <1>2, <1>5, <2>3, <2>5, <3>1 DEF JoinSetUser, SetCtx, GoTo, CtxOf, Ctx, Job
    <3> QED
      BY <1>1, <2>1, <2>2, <3>2 DEF Traced, Unlisted, Early, Holder
  <2>6. CASE JoinSetRoom(w)
    <3>1. job[w].room # NULL /\ ctx[c].UserID # NULL
      BY <1>5, <2>6, NullAssumption DEF JoinSetRoom, SetCtx, JobsSound, Traced, Holder
    <3>2. /\ index' = index /\ job'[w].pc = "loop"
          /\ ctx'[c].UserID # NULL /\ ctx'[c].RoomID # NULL
      BY <1>2, <1>5, <2>3, <2>6, <3>1 DEF JoinSetRoom, SetCtx, GoTo, CtxOf, Ctx, Job
    <3> QED
      BY <1>1, <2>1, <2>2, <3>2 DEF Traced, Unlisted, Early, Holder
  <2>7. CASE JoinSetLoop(w)
    <3>1. ctx[c].RoomID # NULL /\ ctx[c].UserID # NULL
      BY <1>5, <2>7 DEF JoinSetLoop, SetCtx, Traced, Holder
    <3>2. /\ index' = index /\ job'[w].pc = "index"
          /\ ctx'[c].UserID # NULL /\ ctx'[c].RoomID # NULL
      BY <1>2, <1>5, <2>3, <2>7, <3>1 DEF JoinSetLoop, SetCtx, GoTo, CtxOf, Ctx, Job
    <3> QED
      BY <1>1, <2>1, <2>2, <3>2 DEF Traced, Unlisted, Early, Holder
  <2>8. CASE JoinIndex(w)
    <3>1. Joined(c)
      BY <1>5, <2>8 DEF JoinIndex, Traced, Holder, Joined
    <3>2. /\ UNCHANGED ctx /\ job'[w].pc = "idle"
          /\ index' = index \cup {<<ctx[c].RoomID, ctx[c].LoopIdx, c>>}
      BY <1>5, <2>8 DEF JoinIndex, Return, NoJob
    <3>3. \A v \in Workers : ~Holder(v, c)'
      BY <2>2, <3>2 DEF Holder
    <3>4. ~Held(c)'
      BY <3>3 DEF Held, Holder
    <3> QED
      BY <1>1, <2>1, <3>1, <3>2, <3>3, <3>4 DEF Traced, Unlisted, Early, Joined
  <2> QED
    BY <2>4, <2>5, <2>6, <2>7, <2>8 DEF WorkerStep
<1> QED
  BY <1>4, <1>5

\* Once a connection is not patient it never is again.
LEMMA PatienceEnds ==
  ASSUME IInv, [Next]_vars, NEW c \in Conns, Patient(c)' PROVE Patient(c)
<1>1. hurried \subseteq hurried'
  BY DEF Next, ConnStep, WorkerStep, vars, OnOpenCount, OnOpenRefuse, OnOpenRegister,
     OnTrafficHandshake, OnTrafficJoin, OnCloseUnregister, OnCloseRefused, OnCloseCheck,
     OnCloseUnindex, OnCloseRelease, FallSilent, HeartbeatUnregister, HeartbeatClose,
     JoinCheck, JoinCount, JoinSetUser, JoinSetRoom, JoinSetLoop, JoinIndex, SetCtx
<1>2. joins' = joins \/ \E d \in Conns : joins' = [joins EXCEPT ![d] = @ + 1]
  BY DEF Next, ConnStep, WorkerStep, vars, OnOpenCount, OnOpenRefuse, OnOpenRegister,
     OnTrafficHandshake, OnTrafficJoin, OnCloseUnregister, OnCloseRefused, OnCloseCheck,
     OnCloseUnindex, OnCloseRelease, FallSilent, HeartbeatUnregister, HeartbeatClose,
     JoinCheck, JoinCount, JoinSetUser, JoinSetRoom, JoinSetLoop, JoinIndex, SetCtx
<1>3. joins[c] \in Nat /\ DOMAIN joins = Conns
  BY DEF IInv, TypeOK
<1>4. joins[c] <= 1
  BY <1>2, <1>3 DEF Patient
<1> QED
  BY <1>1, <1>4 DEF Patient

LEMMA InitTraced == Init => TInv
<1> SUFFICES ASSUME Init, NEW c \in Conns PROVE Traced(c)
  BY InitInv DEF TInv
<1> QED
  BY DEF Init, Traced, Held, Holder, Unlisted, NoJob

LEMMA TracedStep == TInv /\ IInv' /\ [Next]_vars => TInv'
<1> SUFFICES ASSUME IInv, [Next]_vars, NEW c \in Conns, Patient(c)', Patient(c), Traced(c)
             PROVE  Traced(c)'
  BY PatienceEnds DEF TInv
<1>1. CASE \E d \in Conns : ConnStep(d)
  BY <1>1, OwnStepTraced, OtherStepTraced
<1>2. CASE \E w \in Workers : WorkerStep(w)
  BY <1>2, RequestTraced
<1>3. CASE HeartbeatClose \/ UNCHANGED vars
  <2>1. UNCHANGED <<phase, ctx, joins, job, index>>
    BY <1>3 DEF HeartbeatClose, vars
  <2> QED
    BY <2>1, TracedKept
<1> QED
  BY <1>1, <1>2, <1>3 DEF Next

\* When a connection that ended with no request running is closed, no room lists
\* it, whatever the joins and closes of the others do to the index meanwhile
\* (event_handler.go:102-106).
THEOREM IndexReleased == Spec => []RoomIndexReleased
<1>1. TInv => RoomIndexReleased
  <2> SUFFICES ASSUME TInv, NEW c \in Conns, Settled(c), Patient(c), NEW e \in index
               PROVE  e[3] # c
    BY DEF RoomIndexReleased
  <2>1. Traced(c) /\ phase[c] = "closed"
    BY DEF TInv, Settled
  <2> QED
    BY <2>1 DEF Traced
<1> QED
  BY <1>1, InitTraced, TracedStep, Invariance, PTL DEF Spec
-----------------------------------------------------------------------------
(* What a user is charged beyond his connections.  UserCountReleased needs  *)
(* Balanced: whatever was charged is carried by a patient connection or by  *)
(* its request, or is one of the joins of an impatient one, less those of   *)
(* its requests that have still to charge.                                  *)

Requested(I) ==
  {w \in Workers : job[w].pc \in {"check", "count"} /\ job[w].conn \in I}
Carrying(u, I) ==
  {c \in Owners(u) : c \notin I} \cup {w \in Pending(u) : job[w].conn \notin I}

Balanced(u, I) ==
  /\ IsFiniteSet(JoinsOf(I))
  /\ userConnCount[u] + Cardinality(Requested(I))
       <= Cardinality(Carrying(u, I)) + Cardinality(JoinsOf(I))

\* A patient connection has its user from the one request it has sent.
Carried(c) ==
  /\ joins[c] = 0 => ctx[c].UserID = NULL
  /\ \A w \in Workers : Holder(w, c) /\ job[w].pc \in {"check", "count", "user"} =>
       ctx[c].UserID = NULL
  /\ ctx[c].UserID # NULL /\ ~Held(c) => Joined(c)

Impatient == {c \in Conns : ~Patient(c)}

UInv == TInv /\ (\A c \in Conns : Patient(c) => Carried(c)) /\ \A u \in Users : Balanced(u, Impatient)

LEMMA OneMore ==
  ASSUME NEW A, NEW B, NEW x, IsFiniteSet(B), A \subseteq B \cup {x}
  PROVE  /\ IsFiniteSet(A) /\ Cardinality(A) \in Nat /\ Cardinality(B) \in Nat
         /\ Cardinality(A) <= Cardinality(B) + 1
<1>1. Cardinality(B) \in Nat
  BY FS_CardinalityType
<1>2. IsFiniteSet(B \cup {x}) /\ Cardinality(B \cup {x}) <= Cardinality(B) + 1
  BY <1>1, FS_AddElement
<1>3. IsFiniteSet(A) /\ Cardinality(A) <= Cardinality(B \cup {x})
  BY <1>2, FS_Subset
<1>4. Cardinality(A) \in Nat /\ Cardinality(B \cup {x}) \in Nat
  BY <1>2, <1>3, FS_CardinalityType
<1> QED
  BY <1>1, <1>2, <1>3, <1>4

LEMMA NoMore ==
  ASSUME NEW A, NEW B, IsFiniteSet(B), A \subseteq B
  PROVE  /\ IsFiniteSet(A) /\ Cardinality(A) \in Nat /\ Cardinality(B) \in Nat
         /\ Cardinality(A) <= Cardinality(B)
BY FS_Subset, FS_CardinalityType

LEMMA BalanceFinite ==
  ASSUME NEW u, NEW I
  PROVE  /\ IsFiniteSet(Requested(I)) /\ IsFiniteSet(Carrying(u, I))
         /\ IsFiniteSet(Requested(I)') /\ IsFiniteSet(Carrying(u, I)')
<1>1. IsFiniteSet(Conns \cup Workers)
  BY ConnsAssumption, FS_Union
<1>2. /\ Requested(I) \subseteq Conns \cup Workers /\ Carrying(u, I) \subseteq Conns \cup Workers
      /\ Requested(I)' \subseteq Conns \cup Workers /\ Carrying(u, I)' \subseteq Conns \cup Workers
  BY DEF Requested, Carrying, Owners, Pending
<1> QED
  BY <1>1, <1>2, FS_Subset

\* A connection that has sent one join may be counted among the impatient.
LEMMA Widened ==
  ASSUME IInv, NEW u \in Users, NEW I, Balanced(u, I), NEW c \in Conns, c \notin I,
         Traced(c), Carried(c), joins[c] = 1
  PROVE  Balanced(u, I \cup {c})
<1>1. PICK J : J = I \cup {c}
  OBVIOUS
<1>2. PICK S : S = JoinsOf(I)
  OBVIOUS
<1>3. IsFiniteSet(S) /\ <<c, 1>> \notin S
  BY <1>2 DEF Balanced, JoinsOf
<1>4. JoinsOf(J) = S \cup {<<c, 1>>}
  BY <1>1, <1>2 DEF JoinsOf
<1>5. PICK x : x = <<c, 1>>
  OBVIOUS
<1>6. IsFiniteSet(S \cup {x}) /\ Cardinality(S \cup {x}) = Cardinality(S) + 1
  BY <1>3, <1>5, FS_AddElement
<1>7. u # NULL
  BY NullAssumption
<1>8. \E y : \/ Requested(J) \subseteq Requested(I) \cup {y} /\ Carrying(u, I) \subseteq Carrying(u, J)
             \/ Requested(J) \subseteq Requested(I) /\ Carrying(u, I) \subseteq Carrying(u, J) \cup {y}
  <2>1. CASE \E h \in Workers : Holder(h, c)
    <3>1. PICK h \in Workers : Holder(h, c)
      BY <2>1
    <3>2. \A w \in Workers : job[w].pc # "idle" /\ job[w].conn = c => w = h
      BY <3>1 DEF Traced, Holder
    <3>3. CASE job[h].pc \in {"check", "count"}
      <4>1. ctx[c].UserID = NULL
        BY <3>1, <3>3 DEF Carried
      <4>2. Requested(J) \subseteq Requested(I) \cup {h}
        BY <1>1, <3>2 DEF Requested
      <4>3. Carrying(u, I) \subseteq Carrying(u, J)
        BY <1>1, <1>7, <3>2, <3>3, <4>1 DEF Carrying, Owners, Pending
      <4> QED
        BY <4>2, <4>3
    <3>4. CASE job[h].pc \notin {"check", "count"}
      <4>1. Requested(J) \subseteq Requested(I)
        BY <1>1, <3>2, <3>4 DEF Requested
      <4>2. CASE job[h].pc = "user"
        <5>1. ctx[c].UserID = NULL
          BY <3>1, <4>2 DEF Carried
        <5>2. Carrying(u, I) \subseteq Carrying(u, J) \cup {h}
          BY <1>1, <1>7, <3>2, <5>1 DEF Carrying, Owners, Pending
        <5> QED
          BY <4>1, <5>2
      <4>3. CASE job[h].pc # "user"
        <5>1. Carrying(u, I) \subseteq Carrying(u, J) \cup {c}
          BY <1>1, <3>2, <4>3 DEF Carrying, Owners, Pending
        <5> QED
          BY <4>1, <5>1
      <4> QED
        BY <4>2, <4>3
    <3> QED
      BY <3>3, <3>4
  <2>2. CASE ~\E h \in Workers : Holder(h, c)
    <3>1. Requested(J) \subseteq Requested(I)
      BY <1>1, <2>2 DEF Requested, Holder
    <3>2. Carrying(u, I) \subseteq Carrying(u, J) \cup {c}
      BY <1>1, <2>2 DEF Carrying, Pending, Holder
    <3> QED
      BY <3>1, <3>2
  <2> QED
    BY <2>1, <2>2
<1>9. PICK P, Q, T, U : P = Requested(I) /\ Q = Requested(J) /\ T = Carrying(u, I) /\ U = Carrying(u, J)
  OBVIOUS
<1>10. IsFiniteSet(P) /\ IsFiniteSet(Q) /\ IsFiniteSet(T) /\ IsFiniteSet(U)
  BY <1>9, BalanceFinite
<1>11. PICK n \in Nat : n = userConnCount[u]
  BY DEF IInv, TypeOK
<1>12. n + Cardinality(P) <= Cardinality(T) + Cardinality(S)
  BY <1>2, <1>9, <1>11 DEF Balanced
<1>13. PICK y : \/ Q \subseteq P \cup {y} /\ T \subseteq U
                \/ Q \subseteq P /\ T \subseteq U \cup {y}
  BY <1>8, <1>9
<1>14. Cardinality(S) \in Nat
  BY <1>3, FS_CardinalityType
<1>15. n + Cardinality(Q) <= Cardinality(U) + (Cardinality(S) + 1)
  <2>1. CASE Q \subseteq P \cup {y} /\ T \subseteq U
    <3>1. Cardinality(Q) <= Cardinality(P) + 1 /\ Cardinality(Q) \in Nat /\ Cardinality(P) \in Nat
      BY <1>10, <2>1, OneMore
    <3>2. Cardinality(T) <= Cardinality(U) /\ Cardinality(T) \in Nat /\ Cardinality(U) \in Nat
      BY <1>10, <2>1, NoMore
    <3> QED
      BY <1>12, <1>14, <3>1, <3>2
  <2>2. CASE Q \subseteq P /\ T \subseteq U \cup {y}
    <3>1. Cardinality(Q) <= Cardinality(P) /\ Cardinality(Q) \in Nat /\ Cardinality(P) \in Nat
      BY <1>10, <2>2, NoMore
    <3>2. Cardinality(T) <= Cardinality(U) + 1 /\ Cardinality(T) \in Nat /\ Cardinality(U) \in Nat
      BY <1>10, <2>2, OneMore
    <3> QED
      BY <1>12, <1>14, <3>1, <3>2
  <2> QED
    BY <1>13, <2>1, <2>2
<1> QED
  BY <1>1, <1>4, <1>5, <1>6, <1>9, <1>11, <1>15 DEF Balanced

-----------------------------------------------------------------------------
LEMMA Rebalanced ==
  ASSUME IInv, NEW u \in Users, NEW I, Balanced(u, I),
         userConnCount'[u] \in Nat, IsFiniteSet(JoinsOf(I)'),
         userConnCount'[u] + Cardinality(Requested(I)')
             + (Cardinality(Carrying(u, I)) + Cardinality(JoinsOf(I)))
           <= userConnCount[u] + Cardinality(Requested(I))
             + (Cardinality(Carrying(u, I)') + Cardinality(JoinsOf(I)'))
  PROVE  Balanced(u, I)'
<1>1. PICK n \in Nat, m \in Nat : n = userConnCount[u] /\ m = userConnCount'[u]
  BY DEF IInv, TypeOK
<1>2. PICK p \in Nat, q \in Nat : p = Cardinality(Requested(I)) /\ q = Cardinality(Requested(I)')
  BY BalanceFinite, FS_CardinalityType
<1>3. PICK t \in Nat, v \in Nat : t = Cardinality(Carrying(u, I)) /\ v = Cardinality(Carrying(u, I)')
  BY BalanceFinite, FS_CardinalityType
<1>4. PICK s \in Nat, r \in Nat : s = Cardinality(JoinsOf(I)) /\ r = Cardinality(JoinsOf(I)')
  BY FS_CardinalityType DEF Balanced
<1>5. n + p <= t + s
  BY <1>1, <1>2, <1>3, <1>4 DEF Balanced
<1>6. m + q + (t + s) <= n + p + (v + r)
  BY <1>1, <1>2, <1>3, <1>4
<1>7. m + q <= v + r
  BY <1>5, <1>6
<1> QED
  BY <1>1, <1>2, <1>3, <1>4, <1>7 DEF Balanced

\* Nothing is charged, and no charge is dropped.
Quiet(u, I) ==
  /\ userConnCount'[u] \in Nat /\ userConnCount'[u] <= userConnCount[u]
  /\ Requested(I)' \subseteq Requested(I) /\ Carrying(u, I) \subseteq Carrying(u, I)'
  /\ JoinsOf(I)' = JoinsOf(I)

LEMMA QuietBalanced ==
  ASSUME IInv, NEW u \in Users, NEW I, Balanced(u, I), Quiet(u, I)
  PROVE  Balanced(u, I)'
<1>1. PICK n \in Nat, m \in Nat : n = userConnCount[u] /\ m = userConnCount'[u] /\ m <= n
  BY DEF IInv, TypeOK, Quiet
<1>2. PICK P, Q, T, U : P = Requested(I) /\ Q = Requested(I)' /\ T = Carrying(u, I) /\ U = Carrying(u, I)'
  OBVIOUS
<1>3. PICK S : S = JoinsOf(I)
  OBVIOUS
<1>4. /\ IsFiniteSet(P) /\ IsFiniteSet(U) /\ Q \subseteq P /\ T \subseteq U
  BY <1>2, BalanceFinite DEF Quiet
<1>5. /\ Cardinality(Q) <= Cardinality(P) /\ Cardinality(Q) \in Nat /\ Cardinality(P) \in Nat
  BY <1>4, NoMore
<1>6. /\ Cardinality(T) <= Cardinality(U) /\ Cardinality(T) \in Nat /\ Cardinality(U) \in Nat
  BY <1>4, NoMore
<1>7. IsFiniteSet(S) /\ Cardinality(S) \in Nat
  BY <1>3, FS_CardinalityType DEF Balanced
<1>8. m + Cardinality(Q) + (Cardinality(T) + Cardinality(S))
        <= n + Cardinality(P) + (Cardinality(U) + Cardinality(S))
  BY <1>1, <1>5, <1>6, <1>7
<1>9. JoinsOf(I)' = S
  BY <1>3 DEF Quiet
<1> QED
  BY <1>1, <1>2, <1>3, <1>7, <1>8, <1>9, Rebalanced

\* The connection's own steps.
LEMMA ConnBalanced ==
  ASSUME IInv, NEW u \in Users, NEW I \in SUBSET Conns, Balanced(u, I),
         NEW c \in Conns, ConnStep(c),
         c \notin I => Traced(c) /\ Carried(c)
  PROVE  Balanced(u, I)'
<1> USE DEF IInv, TypeOK
<1>1. u # NULL /\ userConnCount[u] \in Nat /\ ctx[c] \in Ctx /\ joins[c] \in Nat
  BY NullAssumption
<1>2. CASE OnOpenCount(c) \/ OnOpenRefuse(c) \/ OnOpenRegister(c) \/ OnCloseRefused(c)
  <2>1. /\ phase[c] \in Early /\ UNCHANGED <<joins, job, userConnCount>>
        /\ \A d \in Conns : d # c => ctx'[d] = ctx[d] /\ phase'[d] = phase[d]
    BY <1>2 DEF OnOpenCount, OnOpenRefuse, OnOpenRegister, OnCloseRefused, Early
  <2>2. ctx[c].UserID # u
    BY <1>1, <2>1 DEF CtxSound
  <2>3. Quiet(u, I)
    BY <1>1, <2>1, <2>2 DEF Quiet, Requested, Carrying, Owners, Pending, JoinsOf
  <2> QED
    BY <2>3, QuietBalanced
<1>3. CASE OnTrafficHandshake(c) \/ OnCloseUnregister(c) \/ OnCloseUnindex(c)
             \/ FallSilent(c) \/ HeartbeatUnregister(c)
  <2>1. /\ UNCHANGED <<joins, job, userConnCount>>
        /\ \A d \in Conns : phase'[d] = phase[d] \/ phase'[d] \notin {"idle", "closed"}
    BY <1>3 DEF OnTrafficHandshake, OnCloseUnregister, OnCloseUnindex, FallSilent,
       HeartbeatUnregister
  <2>2. \A d \in Conns : ctx'[d].UserID = ctx[d].UserID
    BY <1>1, <1>3 DEF OnTrafficHandshake, OnCloseUnregister, OnCloseUnindex, FallSilent,
       HeartbeatUnregister, Ctx
  <2>3. Quiet(u, I)
    BY <1>1, <2>1, <2>2 DEF Quiet, Requested, Carrying, Owners, Pending, JoinsOf
  <2> QED
    BY <2>3, QuietBalanced
<1>4. CASE OnCloseCheck(c)
  <2>1. /\ UNCHANGED <<ctx, joins, job, userConnCount>> /\ phase[c] = "closing"
        /\ phase' = [phase EXCEPT ![c] = IF Joined(c) THEN "unindexing" ELSE "closed"]
    BY <1>4 DEF OnCloseCheck
  <2>2. c \in I \/ ctx[c].UserID # u \/ Joined(c)
    BY <1>1, <2>1 DEF Traced, Carried
  <2>3. \A d \in Conns : d # c => phase'[d] = phase[d]
    BY <2>1
  <2>4. Joined(c) => phase'[c] = "unindexing"
    BY <2>1
  <2>5. Carrying(u, I) \subseteq Carrying(u, I)'
    BY <2>1, <2>2, <2>3, <2>4 DEF Carrying, Owners, Pending
  <2>6. Quiet(u, I)
    BY <1>1, <2>1, <2>5 DEF Quiet, Requested, JoinsOf
  <2> QED
    BY <2>6, QuietBalanced
<1>5. CASE OnCloseRelease(c)
  <2>1. /\ UNCHANGED <<ctx, joins, job>> /\ phase[c] = "releasing"
        /\ phase' = [phase EXCEPT ![c] = "closed"] /\ RemoveUserConn(ctx[c].UserID)
    BY <1>5 DEF OnCloseRelease
  <2>2. PICK n \in Nat : n = userConnCount[u]
    BY <1>1
  <2>3. /\ userConnCount'[u] = n \/ (userConnCount'[u] = (IF n - 1 > 0 THEN n - 1 ELSE 0))
        /\ ctx[c].UserID # u => userConnCount'[u] = n
        /\ ctx[c].UserID = u => userConnCount'[u] = (IF n - 1 > 0 THEN n - 1 ELSE 0)
    BY <2>1, <2>2 DEF RemoveUserConn
  <2>4. userConnCount'[u] \in Nat /\ userConnCount'[u] <= n
    BY <2>3
  <2>5. CASE c \in I \/ ctx[c].UserID # u
    <3>1. Carrying(u, I) \subseteq Carrying(u, I)'
      BY <2>1, <2>5 DEF Carrying, Owners, Pending
    <3>2. Quiet(u, I)
      BY <2>1, <2>2, <2>4, <3>1 DEF Quiet, Requested, JoinsOf
    <3> QED
      BY <3>2, QuietBalanced
  <2>6. CASE c \notin I /\ ctx[c].UserID = u
    <3>1. n > 0
      <4>1. c \in Tokens(u)
        BY <2>1, <2>6 DEF Tokens, Owners
      <4>2. IsFiniteSet(Tokens(u)) /\ Cardinality(Tokens(u)) \in Nat
        BY TokensFinite
      <4>3. Cardinality(Tokens(u)) # 0
        BY <4>1, <4>2, FS_EmptySet
      <4>4. Cardinality(Tokens(u)) <= n
        BY <2>2 DEF UserBacked
      <4> QED
        BY <4>2, <4>3, <4>4
    <3>2. PICK T, U : T = Carrying(u, I) /\ U = Carrying(u, I)'
      OBVIOUS
    <3>3. IsFiniteSet(U) /\ T \subseteq U \cup {c}
      <4>1. \A d \in Conns : d # c => phase'[d] = phase[d]
        BY <2>1
      <4>2. Carrying(u, I) \subseteq Carrying(u, I)' \cup {c}
        BY <2>1, <4>1 DEF Carrying, Owners, Pending
      <4> QED
        BY <3>2, <4>2, BalanceFinite
    <3>4. Cardinality(T) <= Cardinality(U) + 1 /\ Cardinality(T) \in Nat /\ Cardinality(U) \in Nat
      BY <3>3, OneMore
    <3>5. PICK p \in Nat : p = Cardinality(Requested(I))
      BY BalanceFinite, FS_CardinalityType
    <3>6. PICK s \in Nat : s = Cardinality(JoinsOf(I))
      BY FS_CardinalityType DEF Balanced
    <3>7. Requested(I)' = Requested(I) /\ JoinsOf(I)' = JoinsOf(I)
      BY <2>1 DEF Requested, JoinsOf
    <3>8. userConnCount'[u] = n - 1
      BY <2>3, <2>6, <3>1
    <3>9. (n - 1) + p + (Cardinality(T) + s) <= n + p + (Cardinality(U) + s)
      BY <3>4, <3>5, <3>6
    <3>10. IsFiniteSet(JoinsOf(I)')
      BY <3>7 DEF Balanced
    <3> QED
      BY <2>2, <2>4, <3>2, <3>5, <3>6, <3>7, <3>8, <3>9, <3>10, Rebalanced
  <2> QED
    BY <2>5, <2>6
<1>6. ASSUME NEW v \in Users \cup {NULL}, NEW r \in Rooms \cup {NULL}, OnTrafficJoin(c, v, r)
      PROVE  Balanced(u, I)'
  <2>1. /\ UNCHANGED <<phase, ctx, userConnCount>>
        /\ joins' = [joins EXCEPT ![c] = @ + 1]
    BY <1>6 DEF OnTrafficJoin
  <2>2. PICK w : /\ \A x \in Workers : x # w => job'[x] = job[x]
                 /\ w \in Workers => \/ job'[w] = job[w]
                                     \/ /\ job[w].pc = "idle"
                                        /\ job'[w].pc = "check" /\ job'[w].conn = c
    BY <1>6 DEF OnTrafficJoin
  <2>3. Carrying(u, I) \subseteq Carrying(u, I)' /\ Carrying(u, I)' \subseteq Carrying(u, I)
    BY <2>1, <2>2 DEF Carrying, Owners, Pending
  <2>4. CASE c \notin I
    <3>1. Requested(I)' \subseteq Requested(I)
      BY <2>2, <2>4 DEF Requested
    <3>2. JoinsOf(I)' = JoinsOf(I)
      BY <2>1, <2>4 DEF JoinsOf
    <3>3. Quiet(u, I)
      BY <1>1, <2>1, <2>3, <3>1, <3>2 DEF Quiet
    <3> QED
      BY <3>3, QuietBalanced
  <2>5. CASE c \in I
    <3>1. PICK k \in Nat : k = joins[c]
      BY <1>1
    <3>2. PICK x : x = <<c, k + 1>>
      OBVIOUS
    <3>3. PICK S : S = JoinsOf(I)
      OBVIOUS
    <3>4. JoinsOf(I)' = S \cup {x} /\ x \notin S
      <4>1. joins'[c] = k + 1 /\ \A d \in I : d # c => joins'[d] = joins[d]
        BY <2>1, <2>5, <3>1
      <4>2. \A j : j \in 1..(k + 1) <=> j \in 1..k \/ j = k + 1
        OBVIOUS
      <4>3. k + 1 \notin 1..k
        OBVIOUS
      <4>4. x \notin S
        BY <3>1, <3>2, <3>3, <4>3 DEF JoinsOf
      <4>5. \A y : y \in JoinsOf(I)' <=> \E d \in I : \E j : y = <<d, j>> /\ j \in 1..joins'[d]
        BY DEF JoinsOf
      <4>6. \A y : y \in S <=> \E d \in I : \E j : y = <<d, j>> /\ j \in 1..joins[d]
        BY <3>3 DEF JoinsOf
      <4>7. ASSUME NEW y PROVE y \in JoinsOf(I)' <=> y \in S \/ y = x
        <5>1. ASSUME y \in JoinsOf(I)' PROVE y \in S \/ y = x
          <6>1. PICK d \in I : \E j : y = <<d, j>> /\ j \in 1..joins'[d]
            BY <4>5, <5>1
          <6>2. PICK j : y = <<d, j>> /\ j \in 1..joins'[d]
            BY <6>1
          <6>3. CASE d = c
            BY <3>1, <3>2, <4>1, <4>2, <4>6, <6>2, <6>3
          <6>4. CASE d # c
            BY <4>1, <4>6, <6>2, <6>4
          <6> QED
            BY <6>3, <6>4
        <5>2. ASSUME y \in S PROVE y \in JoinsOf(I)'
          <6>1. PICK d \in I : \E j : y = <<d, j>> /\ j \in 1..joins[d]
            BY <4>6, <5>2
          <6>2. PICK j : y = <<d, j>> /\ j \in 1..joins[d]
            BY <6>1
          <6>3. CASE d = c
            BY <3>1, <4>1, <4>2, <4>5, <6>2, <6>3
          <6>4. CASE d # c
            BY <4>1, <4>5, <6>2, <6>4
          <6> QED
            BY <6>3, <6>4
        <5>3. x \in JoinsOf(I)'
          BY <2>5, <3>2, <4>1, <4>2, <4>5
        <5> QED
          BY <5>1, <5>2, <5>3
      <4> QED
        BY <4>4, <4>7
    <3>5. IsFiniteSet(S) /\ Cardinality(S) \in Nat
      BY <3>3, FS_CardinalityType DEF Balanced
    <3>6. IsFiniteSet(S \cup {x}) /\ Cardinality(S \cup {x}) = Cardinality(S) + 1
      BY <3>4, <3>5, FS_AddElement
    <3>7. PICK P, Q : P = Requested(I) /\ Q = Requested(I)'
      OBVIOUS
    <3>8. IsFiniteSet(P) /\ Q \subseteq P \cup {w}
      <4>1. Requested(I)' \subseteq Requested(I) \cup {w}
        BY <2>2 DEF Requested
      <4> QED
        BY <3>7, <4>1, BalanceFinite
    <3>9. Cardinality(Q) <= Cardinality(P) + 1 /\ Cardinality(Q) \in Nat /\ Cardinality(P) \in Nat
      BY <3>8, OneMore
    <3>10. PICK t \in Nat : t = Cardinality(Carrying(u, I))
      BY BalanceFinite, FS_CardinalityType
    <3>11. Carrying(u, I)' = Carrying(u, I)
      BY <2>3
    <3>12. PICK n \in Nat : n = userConnCount[u]
      BY <1>1
    <3>13. n + Cardinality(Q) + (t + Cardinality(S)) <= n + Cardinality(P) + (t + (Cardinality(S) + 1))
      BY <3>5, <3>9
    <3> QED
      BY <2>1, <3>3, <3>4, <3>6, <3>7, <3>10, <3>11, <3>12, <3>13, Rebalanced, ZenonT(30)
  <2> QED
    BY <2>4, <2>5
<1> QED
  BY <1>2, <1>3, <1>4, <1>5, <1>6 DEF ConnStep

\* The steps of a request.  addUserConn charges what the join of an impatient
\* connection was to charge, or what the request of a patient one then carries.
LEMMA RequestBalanced ==
  ASSUME IInv, NEW u \in Users, NEW I \in SUBSET Conns, Balanced(u, I),
         NEW w \in Workers, WorkerStep(w),
         \A c \in Conns : c \notin I => Traced(c) /\ Carried(c)
  PROVE  Balanced(u, I)'
<1> USE DEF IInv, TypeOK
<1>1. /\ u # NULL /\ userConnCount[u] \in Nat /\ job[w] \in Job
      /\ job[w].pc # "idle" /\ job[w].conn \in Conns /\ w \notin Conns
      /\ UNCHANGED <<phase, joins>>
      /\ \A x \in Workers : x # w => job'[x] = job[x]
  BY NullAssumption, ThreadsAssumption
     DEF WorkerStep, JoinCheck, JoinCount, JoinSetUser, JoinSetRoom, JoinSetLoop,
         JoinIndex, SetCtx, JobsSound, GoTo, Return
<1>2. PICK n \in Nat : n = userConnCount[u]
  BY <1>1
<1>3. PICK P, Q, T, U : P = Requested(I) /\ Q = Requested(I)' /\ T = Carrying(u, I) /\ U = Carrying(u, I)'
  OBVIOUS
<1>4. /\ IsFiniteSet(P) /\ IsFiniteSet(Q) /\ IsFiniteSet(T) /\ IsFiniteSet(U)
      /\ Cardinality(P) \in Nat /\ Cardinality(Q) \in Nat
      /\ Cardinality(T) \in Nat /\ Cardinality(U) \in Nat
  BY <1>3, BalanceFinite, FS_CardinalityType
<1>5. PICK s \in Nat : s = Cardinality(JoinsOf(I))
  BY FS_CardinalityType DEF Balanced
<1>6. JoinsOf(I)' = JoinsOf(I) /\ IsFiniteSet(JoinsOf(I))
  BY <1>1 DEF JoinsOf, Balanced
<1>7. ASSUME NEW m \in Nat, userConnCount'[u] = m,
             m + Cardinality(Q) + Cardinality(T) <= n + Cardinality(P) + Cardinality(U)
      PROVE  Balanced(u, I)'
  <2>1. m + Cardinality(Q) + (Cardinality(T) + s) <= n + Cardinality(P) + (Cardinality(U) + s)
    BY <1>4, <1>7
  <2> QED
    BY <1>2, <1>3, <1>5, <1>6, <1>7, <2>1, Rebalanced
<1>8. ASSUME userConnCount'[u] = n, Q \subseteq P, T \subseteq U PROVE Balanced(u, I)'
  <2>1. Cardinality(Q) <= Cardinality(P) /\ Cardinality(T) <= Cardinality(U)
    BY <1>4, <1>8, NoMore
  <2>2. n + Cardinality(Q) + Cardinality(T) <= n + Cardinality(P) + Cardinality(U)
    BY <1>4, <2>1
  <2> QED
    BY <1>7, <1>8, <2>2
<1>9. CASE JoinCheck(w)
  <2>1. /\ UNCHANGED <<ctx, userConnCount>> /\ job[w].pc = "check"
        /\ job'[w].pc = "idle" \/ (job'[w].pc = "count" /\ job'[w].conn = job[w].conn)
    BY <1>1, <1>9 DEF JoinCheck, GoTo, Return, NoJob, Job
  <2>2. Q \subseteq P
    BY <1>1, <1>3, <2>1 DEF Requested
  <2>3. T \subseteq U
    BY <1>1, <1>3, <2>1 DEF Carrying, Owners, Pending
  <2> QED
    BY <1>2, <1>8, <2>1, <2>2, <2>3
<1>10. CASE JoinCount(w)
  <2>1. ctx' = ctx /\ job[w].pc = "count"
    BY <1>10 DEF JoinCount
  <2>2. CASE userConnCount' = userConnCount \/ job[w].user # u
    <3>1. \/ job'[w].pc = "idle"
          \/ job'[w].pc = "user" /\ job'[w].conn = job[w].conn /\ job'[w].user = job[w].user
      BY <1>1, <1>10 DEF JoinCount, GoTo, Return, NoJob, Job
    <3>2. userConnCount'[u] = n
      BY <1>2, <1>10, <2>2 DEF JoinCount
    <3>3. Q \subseteq P
      BY <1>1, <1>3, <3>1 DEF Requested
    <3>4. T \subseteq U
      BY <1>1, <1>3, <2>1 DEF Carrying, Owners, Pending
    <3> QED
      BY <1>8, <3>2, <3>3, <3>4
  <2>3. CASE userConnCount' # userConnCount /\ job[w].user = u
    <3>1. /\ job'[w].pc = "user" /\ job'[w].conn = job[w].conn /\ job'[w].user = u
          /\ userConnCount'[u] = n + 1
      BY <1>1, <1>2, <1>10, <2>3 DEF JoinCount, GoTo, Job
    <3>2. CASE job[w].conn \in I
      <4>1. Q = P \ {w} /\ w \in P
        BY <1>1, <1>3, <2>1, <3>1, <3>2 DEF Requested
      <4>2. T \subseteq U
        BY <1>1, <1>3, <2>1 DEF Carrying, Owners, Pending
      <4>3. Cardinality(Q) = Cardinality(P) - 1 /\ Cardinality(T) <= Cardinality(U)
        BY <1>4, <4>1, <4>2, NoMore, FS_RemoveElement
      <4>4. (n + 1) + Cardinality(Q) + Cardinality(T) <= n + Cardinality(P) + Cardinality(U)
        BY <1>4, <4>3
      <4> QED
        BY <1>7, <3>1, <4>4
    <3>3. CASE job[w].conn \notin I
      <4>1. Q \subseteq P
        BY <1>1, <1>3, <3>1 DEF Requested
      <4>2. w \in U /\ w \notin T /\ T \subseteq U
        BY <1>1, <1>3, <2>1, <3>1, <3>3 DEF Carrying, Owners, Pending
      <4>3. T \subseteq U \ {w}
        BY <4>2
      <4>4. /\ Cardinality(U \ {w}) = Cardinality(U) - 1 /\ IsFiniteSet(U \ {w})
            /\ Cardinality(Q) <= Cardinality(P)
        BY <1>4, <4>1, <4>2, NoMore, FS_RemoveElement
      <4>5. Cardinality(T) <= Cardinality(U) - 1
        BY <4>3, <4>4, NoMore
      <4>6. (n + 1) + Cardinality(Q) + Cardinality(T) <= n + Cardinality(P) + Cardinality(U)
        BY <1>4, <4>4, <4>5
      <4> QED
        BY <1>7, <3>1, <4>6
    <3> QED
      BY <3>2, <3>3
  <2> QED
    BY <2>2, <2>3
<1>11. CASE JoinSetUser(w)
  <2>1. PICK c \in Conns : c = job[w].conn
    BY <1>1
  <2>2. /\ userConnCount'[u] = n /\ job[w].pc = "user" /\ job'[w].pc = "room"
        /\ \A d \in Conns : d # c => ctx'[d] = ctx[d]
        /\ ctx'[c].UserID = job[w].user
    BY <1>1, <1>2, <1>11, <2>1 DEF JoinSetUser, SetCtx, GoTo, CtxOf, Ctx, Job
  <2>3. Q \subseteq P
    BY <1>1, <1>3, <2>2 DEF Requested
  <2>4. c \notin I => ctx[c].UserID = NULL /\ phase[c] = "open"
    BY <1>1, <2>1, <2>2 DEF Traced, Carried, Holder, Held, JobsSound, Early, Phases
  <2>5. CASE c \in I \/ job[w].user # u
    <3>1. T \subseteq U
      BY <1>1, <1>3, <2>1, <2>2, <2>4, <2>5 DEF Carrying, Owners, Pending
    <3> QED
      BY <1>8, <2>2, <2>3, <3>1
  <2>6. CASE c \notin I /\ job[w].user = u
    <3>1. c \in U /\ c \notin T
      BY <1>1, <1>3, <2>2, <2>4, <2>6, ThreadsAssumption DEF Carrying, Owners, Pending
    <3>2. T \subseteq (U \ {c}) \cup {w}
      BY <1>1, <1>3, <2>2, <3>1 DEF Carrying, Owners, Pending
    <3>3. IsFiniteSet(U \ {c}) /\ Cardinality(U \ {c}) = Cardinality(U) - 1
      BY <1>4, <3>1, FS_RemoveElement
    <3>4. Cardinality(T) <= Cardinality(U \ {c}) + 1
      BY <3>2, <3>3, OneMore
    <3>5. Cardinality(Q) <= Cardinality(P)
      BY <1>4, <2>3, NoMore
    <3>6. n + Cardinality(Q) + Cardinality(T) <= n + Cardinality(P) + Cardinality(U)
      BY <1>4, <3>3, <3>4, <3>5
    <3> QED
      BY <1>7, <2>2, <3>6
  <2> QED
    BY <2>5, <2>6
<1>12. CASE JoinSetRoom(w) \/ JoinSetLoop(w) \/ JoinIndex(w)
  <2>1. /\ userConnCount'[u] = n /\ job[w].pc \in {"room", "loop", "index"}
        /\ job'[w].pc \in {"loop", "index", "idle"}
    BY <1>1, <1>2, <1>12 DEF JoinSetRoom, JoinSetLoop, JoinIndex, SetCtx, GoTo, Return, NoJob, Job
  <2>2. \A d \in Conns : ctx'[d].UserID = ctx[d].UserID
    <3>1. PICK c \in Conns : c = job[w].conn
      BY <1>1
    <3>2. ctx[c] \in Ctx
      OBVIOUS
    <3>3. \A d \in Conns : d # c => ctx'[d] = ctx[d]
      BY <1>12, <3>1 DEF JoinSetRoom, JoinSetLoop, JoinIndex, SetCtx
    <3>4. ctx'[c].UserID = ctx[c].UserID
      BY <1>12, <3>1, <3>2 DEF JoinSetRoom, JoinSetLoop, JoinIndex, SetCtx, CtxOf, Ctx
    <3> QED
      BY <3>3, <3>4
  <2>3. Q \subseteq P
    BY <1>1, <1>3, <2>1 DEF Requested
  <2>4. T \subseteq U
    BY <1>1, <1>3, <2>1, <2>2 DEF Carrying, Owners, Pending
  <2> QED
    BY <1>8, <2>1, <2>3, <2>4
<1> QED
  BY <1>9, <1>10, <1>11, <1>12 DEF WorkerStep

\* The user of a patient connection.
LEMMA CarriedKept ==
  ASSUME NEW c \in Conns, Carried(c), ctx'[c] = ctx[c], joins'[c] = joins[c],
         \A w \in Workers : job'[w] = job[w] \/ (~Holder(w, c) /\ ~Holder(w, c)')
  PROVE  Carried(c)'
<1>1. Held(c)' <=> Held(c)
  BY DEF Held, Holder
<1>2. \A w \in Workers : Holder(w, c)' => Holder(w, c) /\ job'[w] = job[w]
  BY DEF Holder
<1> QED
  BY <1>1, <1>2 DEF Carried, Joined

LEMMA ConnCarried ==
  ASSUME IInv, NEW c \in Conns, Traced(c), Carried(c), Patient(c)', NEW d \in Conns, ConnStep(d)
  PROVE  Carried(c)'
<1> USE DEF IInv, TypeOK
<1>1. ASSUME NEW u \in Users \cup {NULL}, NEW r \in Rooms \cup {NULL}, OnTrafficJoin(d, u, r)
      PROVE  Carried(c)'
  <2>1. /\ ctx' = ctx /\ joins' = [joins EXCEPT ![d] = @ + 1]
        /\ \/ job' = job
           \/ \E w \in Workers :
                /\ job[w].pc = "idle"
                /\ job' = [job EXCEPT ![w] = [pc |-> "check", conn |-> d, user |-> u, room |-> r]]
    BY <1>1 DEF OnTrafficJoin
  <2>2. CASE d # c
    <3>1. \A w \in Workers : job'[w] = job[w] \/ (~Holder(w, c) /\ ~Holder(w, c)')
      BY <2>1, <2>2 DEF Holder
    <3> QED
      BY <2>1, <2>2, <3>1, CarriedKept
  <2>3. CASE d = c
    <3>1. joins[c] \in Nat /\ joins'[c] = joins[c] + 1 /\ joins'[c] <= 1
      BY <2>1, <2>3 DEF Patient
    <3>2. joins[c] = 0 /\ joins'[c] # 0
      BY <3>1
    <3>3. ctx'[c].UserID = NULL
      BY <2>1, <3>2 DEF Carried
    <3> QED
      BY <3>2, <3>3 DEF Carried
  <2> QED
    BY <2>2, <2>3
<1>2. CASE OnOpenRegister(d)
  <2>1. /\ UNCHANGED <<joins, job>> /\ phase[d] = "opening" /\ ctx' = [ctx EXCEPT ![d] = NewCtx]
    BY <1>2 DEF OnOpenRegister
  <2>2. CASE d # c
    BY <2>1, <2>2, CarriedKept
  <2>3. CASE d = c
    <3>1. ctx'[c].UserID = NULL
      BY <2>1, <2>3 DEF NewCtx
    <3> QED
      BY <3>1 DEF Carried
  <2> QED
    BY <2>2, <2>3
<1>3. CASE OnTrafficHandshake(d)
  <2>1. /\ UNCHANGED <<joins, job>>
        /\ ctx' = ctx \/ ctx' = [ctx EXCEPT ![d].HandshakeDone = TRUE]
    BY <1>3 DEF OnTrafficHandshake
  <2>2. ctx[c] \in Ctx
    OBVIOUS
  <2>3. ctx'[c].UserID = ctx[c].UserID /\ ctx'[c].RoomID = ctx[c].RoomID
    BY <2>1, <2>2 DEF Ctx
  <2> QED
    BY <2>1, <2>3 DEF Carried, Holder, Held, Joined
<1>4. CASE \/ OnOpenCount(d) \/ OnOpenRefuse(d) \/ OnCloseUnregister(d) \/ OnCloseRefused(d)
           \/ OnCloseCheck(d) \/ OnCloseUnindex(d) \/ OnCloseRelease(d) \/ FallSilent(d)
           \/ HeartbeatUnregister(d)
  <2>1. UNCHANGED <<ctx, joins, job>>
    BY <1>4 DEF OnOpenCount, OnOpenRefuse, OnCloseUnregister, OnCloseRefused, OnCloseCheck,
       OnCloseUnindex, OnCloseRelease, FallSilent, HeartbeatUnregister
  <2> QED
    BY <2>1, CarriedKept
<1> QED
  BY <1>1, <1>2, <1>3, <1>4 DEF ConnStep

LEMMA RequestCarried ==
  ASSUME IInv, NEW c \in Conns, Traced(c), Carried(c), NEW w \in Workers, WorkerStep(w)
  PROVE  Carried(c)'
<1> USE DEF IInv, TypeOK
<1>1. /\ joins' = joins /\ job[w] \in Job
      /\ job[w].pc # "idle" /\ job[w].conn \in Conns
      /\ \A v \in Workers : v # w => job'[v] = job[v]
  BY DEF WorkerStep, JoinCheck, JoinCount, JoinSetUser, JoinSetRoom, JoinSetLoop,
     JoinIndex, SetCtx, JobsSound, GoTo, Return
<1>2. job'[w].pc = "idle" \/ (job'[w].pc # "idle" /\ job'[w].conn = job[w].conn)
  BY <1>1 DEF Job, WorkerStep, JoinCheck, JoinCount, JoinSetUser, JoinSetRoom, JoinSetLoop,
     JoinIndex, SetCtx, GoTo, Return, NoJob
<1>3. CASE job[w].conn # c
  <2>1. ctx'[c] = ctx[c]
    BY <1>1, <1>3 DEF WorkerStep, JoinCheck, JoinCount, JoinSetUser, JoinSetRoom,
       JoinSetLoop, JoinIndex, SetCtx
  <2>2. \A v \in Workers : job'[v] = job[v] \/ (~Holder(v, c) /\ ~Holder(v, c)')
    BY <1>1, <1>2, <1>3 DEF Holder
  <2> QED
    BY <1>1, <2>1, <2>2, CarriedKept
<1>4. CASE job[w].conn = c
  <2>1. joins'[c] # 0 /\ \A v \in Workers : v # w => ~Holder(v, c)'
    BY <1>1, <1>4 DEF Traced, Held, Holder
  <2>2. CASE JoinCheck(w) \/ JoinCount(w)
    <3>1. ctx' = ctx /\ ctx[c].UserID = NULL
      BY <1>1, <1>4, <2>2 DEF JoinCheck, JoinCount, Carried, Holder
    <3> QED
      BY <2>1, <3>1 DEF Carried
  <2>3. CASE JoinSetUser(w) \/ JoinSetRoom(w) \/ JoinSetLoop(w)
    <3>1. job'[w].pc \in {"room", "loop", "index"} /\ job'[w].conn = c
      BY <1>1, <1>2, <1>4, <2>3 DEF JoinSetUser, JoinSetRoom, JoinSetLoop, SetCtx, GoTo, Job
    <3>2. Held(c)'
      BY <3>1 DEF Held
    <3> QED
      BY <2>1, <3>1, <3>2 DEF Carried
  <2>4. CASE JoinIndex(w)
    <3>1. /\ ctx' = ctx /\ job'[w].pc = "idle" /\ Joined(c)
      BY <1>4, <2>4 DEF JoinIndex, Return, NoJob, Traced, Holder, Joined
    <3>2. \A v \in Workers : ~Holder(v, c)'
      BY <2>1, <3>1 DEF Holder
    <3> QED
      BY <2>1, <3>1, <3>2 DEF Carried, Joined
  <2> QED
    BY <2>2, <2>3, <2>4 DEF WorkerStep
<1> QED
  BY <1>3, <1>4
\* The charges stay balanced: a connection that turns impatient is counted so
\* first, and the step is taken with the patience it leaves.
LEMMA BalanceStep ==
  ASSUME UInv, [Next]_vars, NEW u \in Users
  PROVE  Balanced(u, Impatient)'
<1> USE DEF UInv, TInv
<1>1. PICK I, J : I = Impatient /\ J = Impatient'
  OBVIOUS
<1>2. I \in SUBSET Conns /\ J \in SUBSET Conns /\ I \subseteq J
  <2>1. \A c \in Conns : Patient(c)' => Patient(c)
    BY PatienceEnds
  <2> QED
    BY <1>1, <2>1 DEF Impatient
<1>3. \A c \in Conns : c \notin I => Traced(c) /\ Carried(c)
  BY <1>1 DEF Impatient
<1>4. Balanced(u, I)
  BY <1>1
<1>5. \A c \in Conns : c \notin J => Traced(c) /\ Carried(c)
  BY <1>2, <1>3
<1>6. ASSUME Balanced(u, J)' PROVE Balanced(u, Impatient)'
  BY <1>1, <1>6 DEF Balanced, Requested, Carrying, JoinsOf
<1>7. ASSUME NEW c \in Conns, ConnStep(c) PROVE Balanced(u, J)'
  <2>1. J \subseteq I \cup {c}
    <3>1. \A d \in Conns : d # c => joins'[d] = joins[d]
      BY <1>7 DEF IInv, TypeOK, ConnStep, OnOpenCount, OnOpenRefuse, OnOpenRegister,
         OnTrafficHandshake, OnTrafficJoin, OnCloseUnregister, OnCloseRefused, OnCloseCheck,
         OnCloseUnindex, OnCloseRelease, FallSilent, HeartbeatUnregister
    <3>2. \A d \in Conns : d # c => (d \in hurried' <=> d \in hurried)
      BY <1>7 DEF IInv, TypeOK, ConnStep, OnOpenCount, OnOpenRefuse, OnOpenRegister,
         OnTrafficHandshake, OnTrafficJoin, OnCloseUnregister, OnCloseRefused, OnCloseCheck,
         OnCloseUnindex, OnCloseRelease, FallSilent, HeartbeatUnregister
    <3> QED
      BY <1>1, <3>1, <3>2 DEF Impatient, Patient
  <2>2. Balanced(u, J)
    <3>1. CASE J = I
      BY <1>4, <3>1
    <3>2. CASE J # I
      <4>1. c \notin I /\ c \in J /\ J = I \cup {c}
        BY <1>2, <2>1, <3>2
      <4>2. Traced(c) /\ Carried(c) /\ Patient(c) /\ ~Patient(c)'
        BY <1>1, <1>3, <4>1 DEF Impatient
      <4>3. joins[c] = 1
        <5>1. joins[c] \in Nat /\ joins[c] <= 1 /\ c \notin hurried
          BY <4>2 DEF IInv, TypeOK, Patient
        <5>2. joins'[c] = joins[c] + 1 \/ (joins'[c] = joins[c] /\ Held(c))
          <6>1. joins' = joins => c \in hurried'
            BY <4>2, <5>1 DEF Patient
          <6>2. \/ joins' = joins /\ (hurried' = hurried \/ OnCloseUnregister(c))
                \/ joins' = [joins EXCEPT ![c] = @ + 1] /\ hurried' = hurried
            BY <1>7 DEF ConnStep, OnOpenCount, OnOpenRefuse, OnOpenRegister,
               OnTrafficHandshake, OnTrafficJoin, OnCloseUnregister, OnCloseRefused,
               OnCloseCheck, OnCloseUnindex, OnCloseRelease, FallSilent, HeartbeatUnregister
          <6> QED
            BY <5>1, <6>1, <6>2 DEF OnCloseUnregister, IInv, TypeOK
        <5>3. Held(c) => joins[c] # 0
          BY <4>2 DEF Traced
        <5>4. joins[c] = 0 => c \notin hurried'
          <6>1. Held(c) \/ hurried' = hurried \/ c \notin hurried'
            BY <1>7, <5>1 DEF ConnStep, OnOpenCount, OnOpenRefuse, OnOpenRegister,
               OnTrafficHandshake, OnTrafficJoin, OnCloseUnregister, OnCloseRefused,
               OnCloseCheck, OnCloseUnindex, OnCloseRelease, FallSilent, HeartbeatUnregister
          <6> QED
            BY <5>1, <5>3, <6>1
        <5> QED
          BY <4>2, <5>1, <5>2, <5>3, <5>4 DEF Patient
      <4> QED
        BY <1>4, <4>1, <4>2, <4>3, Widened
    <3> QED
      BY <3>1, <3>2
  <2> QED
    BY <1>2, <1>5, <1>7, <2>2, ConnBalanced
<1>8. ASSUME J = I PROVE Balanced(u, J)
  BY <1>4, <1>8
<1>9. ASSUME UNCHANGED <<hurried, joins>> PROVE J = I
  BY <1>1, <1>9 DEF Impatient, Patient
<1>10. ASSUME NEW w \in Workers, WorkerStep(w) PROVE Balanced(u, J)'
  <2>1. UNCHANGED <<hurried, joins>>
    BY <1>10 DEF WorkerStep, JoinCheck, JoinCount, JoinSetUser, JoinSetRoom, JoinSetLoop,
       JoinIndex, SetCtx
  <2> QED
    BY <1>2, <1>5, <1>8, <1>9, <1>10, <2>1, RequestBalanced
<1>11. CASE HeartbeatClose \/ UNCHANGED vars
  <2>1. UNCHANGED <<hurried, joins, phase, ctx, job, userConnCount>>
    BY <1>11 DEF HeartbeatClose, vars
  <2>2. Balanced(u, J)
    BY <1>8, <1>9, <2>1
  <2>3. userConnCount[u] \in Nat
    BY DEF IInv, TypeOK
  <2>4. Quiet(u, J)
    BY <2>1, <2>3 DEF Quiet, Requested, Carrying, Owners, Pending, JoinsOf
  <2> QED
    BY <1>6, <2>2, <2>4, QuietBalanced
<1> QED
  BY <1>6, <1>7, <1>10, <1>11 DEF Next

LEMMA CarriedStep ==
  ASSUME UInv, [Next]_vars, NEW c \in Conns, Patient(c)'
  PROVE  Carried(c)'
<1> USE DEF UInv, TInv
<1>1. Traced(c) /\ Carried(c)
  BY PatienceEnds
<1>2. CASE \E d \in Conns : ConnStep(d)
  BY <1>1, <1>2, ConnCarried
<1>3. CASE \E w \in Workers : WorkerStep(w)
  BY <1>1, <1>3, RequestCarried
<1>4. CASE HeartbeatClose \/ UNCHANGED vars
  <2>1. UNCHANGED <<ctx, joins, job>>
    BY <1>4 DEF HeartbeatClose, vars
  <2> QED
    BY <1>1, <2>1, CarriedKept
<1> QED
  BY <1>2, <1>3, <1>4 DEF Next

LEMMA InitBalanced == Init => \A u \in Users : Balanced(u, Impatient)
<1> SUFFICES ASSUME Init, NEW u \in Users PROVE Balanced(u, Impatient)
  OBVIOUS
<1>1. Impatient = {}
  BY DEF Init, Impatient, Patient
<1>2. JoinsOf({}) = {} /\ Requested({}) = {}
  BY DEF JoinsOf, Requested
<1>3. Carrying(u, {}) = {}
  BY NullAssumption DEF Init, Carrying, Owners, Pending, NoJob, NewCtx
<1>4. IsFiniteSet({}) /\ Cardinality({}) = 0
  BY FS_EmptySet
<1>5. userConnCount[u] = 0
  BY DEF Init
<1> QED
  BY <1>1, <1>2, <1>3, <1>4, <1>5 DEF Balanced

\* With no request running, what the balance counts is what is left over.
LEMMA BalanceReleases == UInv => UserCountReleased
<1> SUFFICES ASSUME UInv, \A w \in Workers : job[w].pc = "idle", NEW u \in Users
             PROVE  /\ Cardinality(Owners(u)) <= userConnCount[u]
                    /\ userConnCount[u] <= Cardinality(Owners(u)) + Cardinality(JoinsOf(Impatient))
  BY DEF UserCountReleased, Impatient
<1>1. Requested(Impatient) = {} /\ Tokens(u) = Owners(u)
  BY DEF Requested, Tokens, Pending
<1>2. Carrying(u, Impatient) \subseteq Owners(u)
  BY DEF Carrying, Pending
<1>3. IsFiniteSet(Owners(u))
  BY <1>1, TokensFinite
<1>4. /\ Cardinality(Carrying(u, Impatient)) <= Cardinality(Owners(u))
      /\ Cardinality(Carrying(u, Impatient)) \in Nat /\ Cardinality(Owners(u)) \in Nat
  BY <1>2, <1>3, NoMore
<1>5. Cardinality(Owners(u)) <= userConnCount[u] /\ userConnCount[u] \in Nat
  BY <1>1 DEF UInv, TInv, IInv, UserBacked, TypeOK
<1>6. Cardinality(JoinsOf(Impatient)) \in Nat
  BY FS_CardinalityType DEF UInv, Balanced
<1>7. userConnCount[u] + 0 <= Cardinality(Carrying(u, Impatient)) + Cardinality(JoinsOf(Impatient))
  BY <1>1, FS_EmptySet DEF UInv, Balanced
<1> QED
  BY <1>4, <1>5, <1>6, <1>7

\* After every join and close, in whatever order, each user is charged for the
\* connections he has and at most for the joins of impatient ones besides
\* (app.go:141-163, 394, event_handler.go:102-106).
THEOREM UserCountSafe == Spec => []UserCountReleased
<1>1. Init => UInv
  <2>1. ASSUME Init, NEW c \in Conns PROVE Carried(c)
    BY <2>1 DEF Init, Carried, Holder, NoJob, NewCtx
  <2> QED
    BY <2>1, InitTraced, InitBalanced DEF UInv
<1>2. UInv /\ TInv' /\ [Next]_vars => UInv'
  <2> SUFFICES ASSUME UInv, TInv', [Next]_vars PROVE UInv'
    OBVIOUS
  <2>1. \A c \in Conns : Patient(c)' => Carried(c)'
    BY CarriedStep
  <2>2. \A u \in Users : Balanced(u, Impatient)'
    BY BalanceStep
  <2> QED
    BY <2>1, <2>2 DEF UInv
<1>3. Spec => []TInv
  BY InitTraced, TracedStep, Invariance, PTL DEF Spec
<1> QED
  BY <1>1, <1>2, <1>3, BalanceReleases, PTL DEF Spec
=============================================================================
