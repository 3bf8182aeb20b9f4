------------------------- MODULE MessagePathProofs -------------------------
(***************************************************************************)
(* Proofs about MessagePath: for any nodes, connections and messages, and  *)
(* any crashes, retries and late writes, no connection gets its own chat   *)
(* back, none gets a message that was refused or never published, and none *)
(* gets more copies of a message than there are writes of it to the log,   *)
(* and one more where its node broadcasts it itself.                       *)
(*                                                                         *)
(* The first two are about recv, which only a broadcast writes; what makes *)
(* them inductive is TasksFit, where a message under way may be, and the   *)
(* same for the log and for the writes that may still land.  CopiesBounded *)
(* needs Copies, what is to come beside what has come, and Lands, which    *)
(* bounds what the log can have of a message by the Writer's writes.       *)
(***************************************************************************)
EXTENDS MessagePath, TLAPS, FiniteSetTheorems

Sent == Msgs \ Refused

PublishTask ==
  [op : {"publish"}, msg : Sent, attempt : 0..2, write : Nat, pooled : BOOLEAN]
BroadcastTask ==
  [op : {"broadcast"}, msg : Sent, offset : Nat, pooled : BOOLEAN, todo : SUBSET Conns]

\* A node broadcasts a message that never was in the log.
Local(m, n) ==
  \/ m \in Sysmsgs /\ CallerOf[m] = n
  \/ ~EnableKafka /\ m \in Chats /\ NodeOf[SenderOf[m]] = n

Fits(n, t) ==
  \/ /\ t \in PublishTask /\ t.write <= WritesUpTo(t.attempt)
     /\ t.msg \in Sysmsgs => CallerOf[t.msg] = n
  \/ t \in BroadcastTask /\ t.todo \subseteq Members(n) /\ (InLog(t.msg) \/ Local(t.msg, n))

TasksFit == DOMAIN tasks = Nodes /\ \A n \in Nodes : \A t \in tasks[n] : Fits(n, t)

WritesFit ==
  /\ log \in Seq(Sent) /\ late \in [Msgs -> Nat]
  /\ \A m \in Msgs : late[m] > 0 => m \in Sent

Typed == recv \in [Conns -> [Msgs -> Nat]] /\ next \in [Nodes -> Nat \ {0}]

IInv == Typed /\ TasksFit /\ WritesFit /\ NoEcho /\ OnlyPublished

-----------------------------------------------------------------------------
\* The numbers of an attempt's writes end at the next one's first.
LEMMA Numbers ==
  /\ WriterAttempts \in Nat \ {0}
  /\ \A a \in 0..2 : WritesUpTo(a) \in Nat
  /\ \A a \in 0..1 : a + 1 \in 0..2 /\ WritesUpTo(a) <= WritesUpTo(a + 1)
  /\ WritesUpTo(0) = WriterAttempts /\ WritesUpTo(2) = 3 * WriterAttempts
  /\ \A a \in 0..2 : WritesUpTo(a) <= 3 * WriterAttempts
<1>1. WriterAttempts \in Nat \ {0}
  BY PathAssumption
<1>2. /\ WritesUpTo(0) = WriterAttempts /\ WritesUpTo(1) = 2 * WriterAttempts
      /\ WritesUpTo(2) = 3 * WriterAttempts
  BY <1>1 DEF WritesUpTo
<1>3. \A a \in 0..2 : a = 0 \/ a = 1 \/ a = 2
  OBVIOUS
<1>4. \A a \in 0..1 : (a = 0 \/ a = 1) /\ a + 1 \in 0..2
  OBVIOUS
<1>5. \A a \in 0..2 : WritesUpTo(a) \in Nat /\ WritesUpTo(a) <= 3 * WriterAttempts
  BY <1>1, <1>2, <1>3
<1>6. WritesUpTo(0) <= WritesUpTo(1) /\ WritesUpTo(1) <= WritesUpTo(2)
  BY <1>1, <1>2
<1>7. \A a \in 0..1 : WritesUpTo(a) <= WritesUpTo(a + 1)
  <2> SUFFICES ASSUME NEW a \in 0..1 PROVE WritesUpTo(a) <= WritesUpTo(a + 1)
    OBVIOUS
  <2>1. CASE a = 0
    BY <1>6, <2>1
  <2>2. CASE a = 1
    BY <1>6, <2>2
  <2> QED
    BY <1>4, <2>1, <2>2
<1> QED
  BY <1>1, <1>2, <1>4, <1>5, <1>7

LEMMA InitHolds == Init => IInv
<1> SUFFICES ASSUME Init PROVE IInv
  OBVIOUS
<1>1. Typed
  BY DEF Init, Typed, NoCopies
<1>2. TasksFit
  BY DEF Init, TasksFit
<1>3. WritesFit
  BY DEF Init, WritesFit, NoCopies
<1>4. \A c \in Conns : \A m \in Msgs : ~(recv[c][m] > 0)
  BY DEF Init, NoCopies
<1>5. NoEcho /\ OnlyPublished
  BY <1>4 DEF NoEcho, OnlyPublished, Msgs
<1> QED
  BY <1>1, <1>2, <1>3, <1>5 DEF IInv

LogGrows == EnableKafka' = EnableKafka /\ \A m : InLog(m) => InLog(m)'

\* A step that starts or changes tasks keeps TasksFit when the new ones fit.
LEMMA TasksStep ==
  ASSUME IInv, LogGrows, DOMAIN tasks' = Nodes,
         \A n \in Nodes : \A t \in tasks'[n] : t \in tasks[n] \/ Fits(n, t)'
  PROVE  TasksFit'
<1> SUFFICES ASSUME NEW n \in Nodes, NEW t \in tasks'[n], t \in tasks[n] PROVE Fits(n, t)'
  BY DEF TasksFit
<1>1. Fits(n, t)
  BY DEF IInv, TasksFit
<1>2. \A m : InLog(m) \/ Local(m, n) => InLog(m)' \/ Local(m, n)'
  BY DEF LogGrows, Local
<1> QED
  BY <1>1, <1>2 DEF Fits

\* A step that writes to no connection keeps the two properties.
LEMMA NothingReceived ==
  ASSUME IInv, LogGrows, recv' = recv, next' = next, TasksFit', WritesFit'
  PROVE  IInv'
<1>1. Typed'
  BY DEF IInv, Typed
<1>2. NoEcho'
  BY DEF IInv, NoEcho
<1>3. OnlyPublished'
  BY DEF IInv, OnlyPublished, LogGrows
<1> QED
  BY <1>1, <1>2, <1>3 DEF IInv

LEMMA SendHolds ==
  ASSUME IInv, NEW m, NEW n, (HandleChat(m) /\ n = NodeOf[SenderOf[m]])
                               \/ (BroadcastSystemMsg(m) /\ n = CallerOf[m])
  PROVE  IInv'
<1>1. UNCHANGED <<EnableKafka, late, log, recv, next>>
  BY DEF HandleChat, BroadcastSystemMsg
<1>2. LogGrows
  BY <1>1 DEF LogGrows, InLog
<1>3. m \in Msgs /\ n \in Nodes /\ DOMAIN tasks = Nodes
  <2>1. CASE HandleChat(m) /\ n = NodeOf[SenderOf[m]]
    <3>1. m \in Chats /\ SenderOf[m] \in Conns
      BY <2>1, PathAssumption DEF HandleChat
    <3> QED
      BY <2>1, <3>1, PathAssumption DEF Msgs, IInv, TasksFit
  <2>2. CASE BroadcastSystemMsg(m) /\ n = CallerOf[m]
    <3>1. m \in Sysmsgs
      BY <2>2 DEF BroadcastSystemMsg
    <3> QED
      BY <2>2, <3>1, PathAssumption DEF Msgs, IInv, TasksFit
  <2> QED
    BY <2>1, <2>2
<1>4. \/ tasks' = tasks
      \/ m \in Sent /\ \E b \in BOOLEAN : Begin(n, Publishing(m, b))
      \/ /\ m \in Sent /\ Local(m, n)
         /\ \E b \in BOOLEAN : Begin(n, Broadcasting(m, 0, b, n))
  <2>1. CASE HandleChat(m) /\ n = NodeOf[SenderOf[m]]
    BY <1>3, <2>1 DEF HandleChat, Local, Sent
  <2>2. CASE BroadcastSystemMsg(m) /\ n = CallerOf[m]
    <3>1. m \in Sysmsgs /\ m \in Sent
      BY <1>3, <2>2, PathAssumption DEF BroadcastSystemMsg, Sent
    <3> QED
      BY <2>2, <3>1 DEF BroadcastSystemMsg, Local
  <2> QED
    BY <2>1, <2>2
<1>5. m \in Sysmsgs => CallerOf[m] = n
  BY PathAssumption DEF HandleChat, BroadcastSystemMsg
<1>6. ASSUME m \in Sent, NEW b \in BOOLEAN PROVE Fits(n, Publishing(m, b))'
  <2>1. 0 <= WritesUpTo(0) /\ 0 \in 0..2
    BY Numbers
  <2> QED
    BY <1>6, <1>3, <1>5, <2>1 DEF Fits, Publishing, PublishTask
<1>7. ASSUME m \in Sent, Local(m, n), NEW b \in BOOLEAN PROVE Fits(n, Broadcasting(m, 0, b, n))'
  BY <1>1, <1>3, <1>7 DEF Fits, Broadcasting, BroadcastTask, Members, Local
<1>8. TasksFit'
  BY <1>2, <1>3, <1>4, <1>6, <1>7, TasksStep DEF Begin
<1>9. WritesFit'
  BY <1>1 DEF IInv, WritesFit
<1> QED
  BY <1>1, <1>2, <1>8, <1>9, NothingReceived

\* What lands in the log was sent.
LEMMA LandHolds ==
  ASSUME IInv, NEW m \in Sent, log' = Append(log, m), EnableKafka' = EnableKafka
  PROVE  LogGrows /\ log' \in Seq(Sent)
<1>1. log \in Seq(Sent)
  BY DEF IInv, WritesFit
<1>2. \A i \in DOMAIN log : i \in DOMAIN log' /\ log'[i] = log[i]
  BY <1>1
<1> QED
  BY <1>1, <1>2 DEF LogGrows, InLog

LEMMA TaskHolds ==
  ASSUME IInv, NEW n \in Nodes, NEW t \in tasks[n],
         Append1(n, t) \/ PublishDone(n, t) \/ PublishFails(n, t)
  PROVE  IInv'
<1>1. /\ DOMAIN tasks = Nodes /\ t \in PublishTask /\ t.write <= WritesUpTo(t.attempt)
      /\ t.msg \in Sysmsgs => CallerOf[t.msg] = n
  BY DEF IInv, TasksFit, Fits, Append1, PublishDone, PublishFails, PublishTask, BroadcastTask
<1>2. UNCHANGED <<recv, next, EnableKafka>>
  BY DEF Append1, PublishDone, PublishFails
<1>3. CASE Append1(n, t)
  <2>1. log' = Append(log, t.msg) /\ late' = late
    BY <1>3 DEF Append1
  <2>2. LogGrows /\ log' \in Seq(Sent)
    BY <1>1, <1>2, <2>1, LandHolds DEF PublishTask
  <2>3. Fits(n, [t EXCEPT !.write = @ + 1])'
    <3> DEFINE k == t.write + 1
               s == [t EXCEPT !.write = k]
    <3>1. k \in Nat /\ k <= WritesUpTo(t.attempt)
      <4>1. t.write \in Nat /\ WritesUpTo(t.attempt) \in Nat /\ t.write < WritesUpTo(t.attempt)
        BY <1>1, <1>3, Numbers DEF Append1, PublishTask
      <4> QED
        BY <4>1
    <3> HIDE DEF k
    <3>2. s \in PublishTask /\ s.msg = t.msg /\ s.write = k /\ s.attempt = t.attempt
      BY <1>1, <3>1 DEF PublishTask
    <3>3. Fits(n, s)'
      BY <1>1, <3>1, <3>2 DEF Fits
    <3> QED
      BY <3>3 DEF k
  <2>4. TasksFit'
    BY <1>1, <1>3, <2>2, <2>3, TasksStep DEF Append1, Become
  <2>5. WritesFit'
    BY <2>1, <2>2 DEF IInv, WritesFit
  <2> QED
    BY <1>2, <2>2, <2>4, <2>5, NothingReceived
<1>4. CASE PublishDone(n, t) \/ PublishFails(n, t)
  <2> DEFINE top == WritesUpTo(t.attempt)
             s == [t EXCEPT !.attempt = @ + 1, !.write = top]
             rest == late[t.msg] + top - t.write
  <2>1. log' = log /\ (late' = late \/ late' = [late EXCEPT ![t.msg] = rest])
    BY <1>4 DEF PublishDone, PublishFails
  <2>2. LogGrows
    BY <1>2, <2>1 DEF LogGrows, InLog
  <2>3. WritesFit'
    <3>1. t.msg \in Sent /\ t.msg \in Msgs /\ t.attempt \in 0..2 /\ t.write \in Nat /\ t.write <= top
      BY <1>1 DEF PublishTask, Sent
    <3>2. late[t.msg] \in Nat
      BY <3>1 DEF IInv, WritesFit
    <3>3. top \in Nat
      BY <3>1, Numbers
    <3> HIDE DEF top
    <3>4. rest \in Nat
      BY <3>1, <3>2, <3>3
    <3> HIDE DEF rest
    <3> QED
      BY <2>1, <3>1, <3>4 DEF IInv, WritesFit
  <2>4. \/ End(n, t)
        \/ t.attempt + 1 < maxRetryCount /\ Become(n, t, s)
        \/ t.msg \in Sysmsgs /\ Become(n, t, Broadcasting(t.msg, 0, FALSE, n))
    BY <1>4 DEF PublishDone, PublishFails
  <2>5. t.attempt + 1 < maxRetryCount => Fits(n, s)'
    <3> SUFFICES ASSUME t.attempt + 1 < maxRetryCount PROVE Fits(n, s)'
      OBVIOUS
    <3>1. t.attempt \in 0..1
      BY <1>1 DEF PublishTask, maxRetryCount
    <3> DEFINE a == t.attempt + 1
    <3>2. a \in 0..2 /\ top \in Nat /\ top <= WritesUpTo(a)
      BY <3>1, Numbers
    <3>3. s = [t EXCEPT !.attempt = a, !.write = top]
      OBVIOUS
    <3> HIDE DEF a, top, s
    <3>4. s \in PublishTask /\ s.msg = t.msg /\ s.attempt = a /\ s.write = top
      BY <1>1, <3>2, <3>3 DEF PublishTask
    <3> QED
      BY <1>1, <3>2, <3>4 DEF Fits
  <2>6. t.msg \in Sysmsgs => Fits(n, Broadcasting(t.msg, 0, FALSE, n))'
    BY <1>1 DEF Fits, PublishTask, Broadcasting, BroadcastTask, Members, Local
  <2> HIDE DEF s
  <2>7. TasksFit'
    BY <1>1, <2>2, <2>4, <2>5, <2>6, TasksStep DEF End, Become
  <2> QED
    BY <1>2, <2>2, <2>3, <2>7, NothingReceived
<1> QED
  BY <1>3, <1>4

LEMMA ConsumeHolds ==
  ASSUME IInv, NEW n \in Nodes, Consume(n) \/ ReadFails(n)
  PROVE  IInv'
<1> PICK i \in Nat \ {0} : next[n] = i
  BY DEF IInv, Typed
<1> PICK m : m = log[i]
  OBVIOUS
<1>1. /\ UNCHANGED <<EnableKafka, late, log, recv>>
      /\ next' = [next EXCEPT ![n] = i + 1] /\ i <= Len(log)
      /\ tasks' = tasks \/ Begin(n, Broadcasting(m, i, TRUE, n))
  BY DEF Consume, ReadFails
<1>2. LogGrows
  BY <1>1 DEF LogGrows, InLog
<1>3. i \in DOMAIN log /\ m \in Sent /\ DOMAIN tasks = Nodes
  BY <1>1 DEF IInv, WritesFit, TasksFit
<1>4. InLog(m)'
  BY <1>1, <1>3 DEF InLog
<1>5. Fits(n, Broadcasting(m, i, TRUE, n))'
  BY <1>3, <1>4 DEF Fits, Broadcasting, BroadcastTask, Members
<1>6. TasksFit'
  BY <1>1, <1>2, <1>3, <1>5, TasksStep, ZenonT(30) DEF Begin
<1>7. WritesFit' /\ Typed'
  BY <1>1, <1>3 DEF IInv, WritesFit, Typed
<1>8. NoEcho' /\ OnlyPublished'
  BY <1>1, <1>2 DEF IInv, NoEcho, OnlyPublished, LogGrows
<1> QED
  BY <1>6, <1>7, <1>8 DEF IInv

\* A broadcast writes to a member of its node that is not taken for the sender.
LEMMA SendToConnHolds ==
  ASSUME IInv, NEW n \in Nodes, NEW t \in tasks[n], NEW c \in Conns, SendToConn(n, t, c)
  PROVE  IInv'
<1>1. /\ UNCHANGED <<EnableKafka, late, log, next>>
      /\ t.op = "broadcast" /\ c \in t.todo
      /\ recv' = recv \/ (~IsSender(t.msg, c) /\ recv' = [recv EXCEPT ![c][t.msg] = @ + 1])
      /\ End(n, t) \/ Become(n, t, [t EXCEPT !.todo = @ \ {c}])
  BY DEF SendToConn
<1>2. LogGrows
  BY <1>1 DEF LogGrows, InLog
<1>3. /\ t \in BroadcastTask /\ t.todo \subseteq Members(n) /\ DOMAIN tasks = Nodes
      /\ InLog(t.msg) \/ Local(t.msg, n)
  BY <1>1 DEF IInv, TasksFit, Fits, PublishTask
<1>4. t.msg \in Sent /\ t.msg \in Msgs /\ NodeOf[c] = n
  BY <1>1, <1>3 DEF BroadcastTask, Sent, Members
<1>5. Fits(n, [t EXCEPT !.todo = @ \ {c}])'
  <2>1. [t EXCEPT !.todo = @ \ {c}] \in BroadcastTask
    BY <1>3 DEF BroadcastTask
  <2>2. /\ [t EXCEPT !.todo = @ \ {c}].msg = t.msg
        /\ [t EXCEPT !.todo = @ \ {c}].todo \subseteq Members(n)
    BY <1>3 DEF BroadcastTask
  <2>3. InLog(t.msg)' \/ Local(t.msg, n)'
    BY <1>1, <1>2, <1>3 DEF LogGrows, Local
  <2> QED
    BY <2>1, <2>2, <2>3 DEF Fits, Members
<1>6. TasksFit'
  BY <1>1, <1>2, <1>3, <1>5, TasksStep DEF End, Become
<1>7. /\ Typed'
      /\ \A d \in Conns, m \in Msgs :
           recv'[d][m] = recv[d][m] \/ (d = c /\ m = t.msg /\ ~IsSender(m, c))
  <2>1. PICK k \in Nat : recv[c][t.msg] = k
    BY <1>4 DEF IInv, Typed
  <2>2. \/ recv' = recv
        \/ ~IsSender(t.msg, c) /\ recv' = [recv EXCEPT ![c] = [@ EXCEPT ![t.msg] = k + 1]]
    BY <1>1, <2>1
  <2>3. recv \in [Conns -> [Msgs -> Nat]]
    BY DEF IInv, Typed
  <2>4. CASE recv' = recv
    BY <1>1, <2>4 DEF IInv, Typed
  <2>5. CASE /\ ~IsSender(t.msg, c)
             /\ recv' = [recv EXCEPT ![c] = [@ EXCEPT ![t.msg] = k + 1]]
    <3> DEFINE row == [recv[c] EXCEPT ![t.msg] = k + 1]
    <3>1. row \in [Msgs -> Nat] /\ \A m \in Msgs : row[m] = recv[c][m] \/ m = t.msg
      BY <1>4, <2>1, <2>3
    <3>2. recv' = [recv EXCEPT ![c] = row]
      BY <2>5
    <3> HIDE DEF row
    <3>3. recv' \in [Conns -> [Msgs -> Nat]]
      BY <2>3, <3>1, <3>2
    <3>4. \A d \in Conns, m \in Msgs : recv'[d][m] = recv[d][m] \/ (d = c /\ m = t.msg)
      BY <2>3, <3>1, <3>2
    <3> QED
      BY <1>1, <2>5, <3>3, <3>4 DEF IInv, Typed
  <2> QED
    BY <2>2, <2>4, <2>5
<1>8. WritesFit'
  BY <1>1 DEF IInv, WritesFit
<1>9. NoEcho'
  <2> SUFFICES ASSUME NEW d \in Conns, NEW m \in Chats, recv'[d][m] > 0 PROVE SenderOf[m] # d
    BY DEF NoEcho
  <2>1. CASE recv'[d][m] = recv[d][m]
    BY <2>1 DEF IInv, NoEcho
  <2>2. CASE d = c /\ ~IsSender(m, c)
    BY <2>2 DEF IsSender
  <2> QED
    BY <1>7, <2>1, <2>2 DEF Msgs
<1>10. OnlyPublished'
  <2> SUFFICES ASSUME NEW d \in Conns, NEW m \in Msgs, recv'[d][m] > 0
               PROVE  /\ m \notin Refused
                      /\ InLog(m)' \/ Local(m, NodeOf[d])'
    BY DEF OnlyPublished, Local
  <2>1. CASE recv'[d][m] = recv[d][m]
    BY <1>2, <2>1 DEF IInv, OnlyPublished, LogGrows, Local
  <2>2. CASE d = c /\ m = t.msg
    BY <1>1, <1>2, <1>3, <1>4, <2>2 DEF Sent, LogGrows, Local
  <2> QED
    BY <1>7, <2>1, <2>2
<1> QED
  BY <1>6, <1>7, <1>8, <1>9, <1>10 DEF IInv

LEMMA LandsLateHolds ==
  ASSUME IInv, NEW m \in Msgs, LandsLate(m)
  PROVE  IInv'
<1>1. /\ log' = Append(log, m) /\ late[m] > 0 /\ late' = [late EXCEPT ![m] = @ - 1]
      /\ UNCHANGED <<EnableKafka, tasks, recv, next>>
  BY DEF LandsLate
<1>2. m \in Sent
  BY <1>1 DEF IInv, WritesFit
<1>3. LogGrows /\ log' \in Seq(Sent)
  BY <1>1, <1>2, LandHolds
<1>4. TasksFit'
  BY <1>1, <1>3, TasksStep DEF IInv, TasksFit
<1>5. WritesFit'
  BY <1>1, <1>3 DEF IInv, WritesFit
<1> QED
  BY <1>1, <1>3, <1>4, <1>5, NothingReceived

LEMMA CrashHolds ==
  ASSUME IInv, NEW n \in Nodes, Crash(n)
  PROVE  IInv'
<1>1. /\ UNCHANGED <<EnableKafka, log, recv, next>> /\ tasks' = [tasks EXCEPT ![n] = {}]
      /\ late' = [m \in Msgs |-> IF \E t \in tasks[n] : UnderWay(t, m) THEN late[m] + 1
                                 ELSE late[m]]
  BY DEF Crash
<1>2. LogGrows
  BY <1>1 DEF LogGrows, InLog
<1>3. DOMAIN tasks = Nodes
  BY DEF IInv, TasksFit
<1>4. TasksFit'
  BY <1>1, <1>2, <1>3, TasksStep
<1>5. \A t \in tasks[n] : t.op = "publish" => t.msg \in Sent
  BY DEF IInv, TasksFit, Fits, PublishTask, BroadcastTask
<1>6. WritesFit'
  BY <1>1, <1>5 DEF IInv, WritesFit, UnderWay
<1> QED
  BY <1>1, <1>2, <1>4, <1>6, NothingReceived

\* A new process has new connections and reads the log from its first offset.
LEMMA StartHolds ==
  ASSUME IInv, NEW n \in Nodes, Start(n)
  PROVE  IInv'
<1>1. /\ UNCHANGED <<EnableKafka, log, late, tasks>>
      /\ next' = [next EXCEPT ![n] = 1]
      /\ recv' = [c \in Conns |-> IF c \in Members(n) THEN NoCopies ELSE recv[c]]
  BY DEF Start
<1>2. LogGrows
  BY <1>1 DEF LogGrows, InLog
<1>3. Typed'
  BY <1>1 DEF IInv, Typed, NoCopies
<1>4. \A c \in Conns, m \in Msgs : recv'[c][m] > 0 => recv[c][m] > 0
  BY <1>1 DEF NoCopies
<1>5. TasksFit'
  BY <1>1, <1>2, TasksStep DEF IInv, TasksFit
<1>6. WritesFit'
  BY <1>1 DEF IInv, WritesFit
<1>7. NoEcho'
  BY <1>4 DEF IInv, NoEcho, Msgs
<1>8. OnlyPublished'
  BY <1>2, <1>4 DEF IInv, OnlyPublished, LogGrows
<1> QED
  BY <1>3, <1>5, <1>6, <1>7, <1>8 DEF IInv

LEMMA NextHolds == IInv /\ [Next]_vars => IInv'
<1> SUFFICES ASSUME IInv, [Next]_vars PROVE IInv'
  OBVIOUS
<1>1. ASSUME NEW m \in Msgs, HandleChat(m) \/ BroadcastSystemMsg(m) PROVE IInv'
  BY <1>1, SendHolds
<1>2. ASSUME NEW m \in Msgs, LandsLate(m) PROVE IInv'
  BY <1>2, LandsLateHolds
<1>3. ASSUME NEW n \in Nodes, TaskStep(n) PROVE IInv'
  <2>1. PICK t \in tasks[n] :
          \/ Append1(n, t) \/ PublishDone(n, t) \/ PublishFails(n, t)
          \/ \E c \in Conns : SendToConn(n, t, c)
    BY <1>3 DEF TaskStep
  <2> QED
    BY <2>1, TaskHolds, SendToConnHolds
<1>4. ASSUME NEW n \in Nodes, Consume(n) \/ ReadFails(n) \/ Crash(n) \/ Start(n) PROVE IInv'
  BY <1>4, ConsumeHolds, CrashHolds, StartHolds
<1>5. CASE UNCHANGED vars
  <2>1. UNCHANGED <<EnableKafka, tasks, late, log, recv, next>>
    BY <1>5 DEF vars
  <2>2. LogGrows
    BY <2>1 DEF LogGrows, InLog
  <2>3. TasksFit'
    BY <2>1, <2>2, TasksStep DEF IInv, TasksFit
  <2>4. WritesFit'
    BY <2>1 DEF IInv, WritesFit
  <2> QED
    BY <2>1, <2>2, <2>3, <2>4, NothingReceived
<1> QED
  BY <1>1, <1>2, <1>3, <1>4, <1>5 DEF Next

\* No connection gets its own chat back, through whatever node, however late and
\* however often it comes round (broadcaster.go:97-100).
THEOREM NoEchoSafe == Spec => []NoEcho
<1>1. IInv => NoEcho
  BY DEF IInv
<1> QED
  BY InitHolds, NextHolds, <1>1, PTL DEF Spec

\* No connection gets what the filter or the limiter refused, and another
\* node's messages come only through the log (app.go:422-458, 684-700).
THEOREM OnlyPublishedSafe == Spec => []OnlyPublished
<1>1. IInv => OnlyPublished
  BY DEF IInv
<1> QED
  BY InitHolds, NextHolds, <1>1, PTL DEF Spec
-----------------------------------------------------------------------------
(* Copies.  What can still reach a connection of a message is a set of      *)
(* places it can come from (Ahead): the offsets of the log its node has yet *)
(* to read or is broadcasting, and 0 for the broadcast its own node may     *)
(* make.  A broadcast takes one away for each copy it writes.               *)

\* A task that is the message's own: its publish, or the local broadcast.
Own(t) == t.op = "publish" \/ t.offset = 0

\* A message has one such task at a time, and none before it is sent.
OwnOnce ==
  /\ \A n \in Nodes : \A t \in tasks[n] : Own(t) => t.msg \notin unsent
  /\ \A n, k \in Nodes : \A t \in tasks[n], s \in tasks[k] :
       Own(t) /\ Own(s) /\ t.msg = s.msg => n = k /\ t = s

\* A node broadcasts an offset it has read, in one task; a local broadcast is
\* of a message of its own; a node that is down runs nothing.
OffsetFits(n, t) ==
  t.op = "broadcast" =>
    IF t.offset = 0 THEN Local(t.msg, n) ELSE t.offset < next[n] /\ log[t.offset] = t.msg
OffsetsFit ==
  \A n \in Nodes :
    /\ next[n] <= Len(log) + 1
    /\ n \notin up => tasks[n] = {}
    /\ \A t \in tasks[n] : OffsetFits(n, t)
    /\ \A t, s \in tasks[n] :
         t.op = "broadcast" /\ s.op = "broadcast" /\ t.offset = s.offset /\ t.offset # 0 => t = s

\* Without Kafka nothing is published.
KafkaOnly ==
  \/ EnableKafka
  \/ /\ log = <<>> /\ \A m \in Msgs : late[m] = 0
     /\ \A n \in Nodes : \A t \in tasks[n] : t.op # "publish"

\* What publishWithRetry tries, and what the Writer may write for it.
Tries(m) == IF m \in Special THEN maxRetryCount ELSE 1
Writes(m) == WritesUpTo(Tries(m) - 1)

\* The places of a message in the log, and the writes of it that may still land.
Logged(m) == {i \in DOMAIN log : log[i] = m}
Landed(m) == Cardinality(Logged(m)) + late[m]

\* No write lands twice.
Lands(m) ==
  /\ Landed(m) <= Writes(m)
  /\ m \in unsent => Landed(m) = 0
  /\ \A n \in Nodes : \A t \in tasks[n] : t.op = "publish" /\ t.msg = m =>
       t.attempt < Tries(m) /\ Landed(m) <= t.write

\* Where a connection's copies of a message come from, and what is to come.
Sources(c, m) == Logged(m) \cup {i \in {0} : Local(m, NodeOf[c])}

Broadcasts(n, m, i, c) ==
  \E t \in tasks[n] : t.op = "broadcast" /\ t.msg = m /\ t.offset = i /\ c \in t.todo
Publishes(n, m) == \E t \in tasks[n] : t.op = "publish" /\ t.msg = m

Ahead(c, m) ==
  {i \in Sources(c, m) :
     \/ i >= next[NodeOf[c]]
     \/ Broadcasts(NodeOf[c], m, i, c)
     \/ i = 0 /\ (m \in unsent \/ Publishes(NodeOf[c], m))}

Copies(c, m) == recv[c][m] + Cardinality(Ahead(c, m)) <= Cardinality(Sources(c, m))

Places == OwnOnce /\ OffsetsFit /\ KafkaOnly
CInv == IInv /\ Places /\ (\A m \in Msgs : Lands(m)) /\ (\A c \in Conns, m \in Msgs : Copies(c, m))

LEMMA Sets ==
  ASSUME IInv, NEW m
  PROVE  /\ Len(log) \in Nat /\ DOMAIN log = 1..Len(log)
         /\ IsFiniteSet(Logged(m)) /\ Logged(m) \subseteq 1..Len(log)
         /\ \A c : IsFiniteSet(Sources(c, m)) /\ Ahead(c, m) \subseteq Sources(c, m)
                  /\ Sources(c, m) \subseteq Nat
<1>1. log \in Seq(Sent)
  BY DEF IInv, WritesFit
<1>2. Len(log) \in Nat /\ DOMAIN log = 1..Len(log)
  BY <1>1
<1>3. IsFiniteSet(1..Len(log)) /\ Logged(m) \subseteq 1..Len(log)
  BY <1>2, FS_Interval DEF Logged
<1>4. IsFiniteSet(Logged(m))
  BY <1>3, FS_Subset
<1>5. ASSUME NEW c PROVE IsFiniteSet(Sources(c, m)) /\ Sources(c, m) \subseteq Nat
  <2> DEFINE own == {i \in {0} : Local(m, NodeOf[c])}
  <2>1. IsFiniteSet({0}) /\ own \subseteq {0}
    BY FS_Singleton
  <2>2. IsFiniteSet(own)
    BY <2>1, FS_Subset
  <2> HIDE DEF own
  <2>3. Sources(c, m) = Logged(m) \cup own
    BY DEF Sources, own
  <2>4. IsFiniteSet(Logged(m) \cup own)
    BY <1>4, <2>2, FS_Union
  <2>5. Logged(m) \cup own \subseteq Nat
    <3>1. 1..Len(log) \subseteq Nat /\ {0} \subseteq Nat
      BY <1>2
    <3> QED
      BY <1>3, <2>1, <3>1
  <2> QED
    BY <2>3, <2>4, <2>5
<1>6. \A c : Ahead(c, m) \subseteq Sources(c, m)
  BY DEF Ahead
<1> QED
  BY <1>2, <1>3, <1>4, <1>5, <1>6

LEMMA WritesNat ==
  /\ \A m : Tries(m) \in 1..3 /\ (Tries(m) = 1 \/ Tries(m) = 3) /\ Writes(m) \in Nat
  /\ \A m : \A a \in 0..2 : a < Tries(m) => WritesUpTo(a) <= Writes(m)
<1>1. /\ \A a \in 0..2 : WritesUpTo(a) \in Nat /\ WritesUpTo(a) <= WritesUpTo(2)
  BY Numbers
<1>2. ASSUME NEW m PROVE Tries(m) = 1 \/ Tries(m) = 3
  BY DEF Tries, maxRetryCount
<1>3. ASSUME NEW m
      PROVE  Writes(m) \in Nat /\ \A a \in 0..2 : a < Tries(m) => WritesUpTo(a) <= Writes(m)
  <2>1. ASSUME Tries(m) = 1 PROVE Writes(m) = WritesUpTo(0)
    BY <2>1 DEF Writes
  <2>2. ASSUME Tries(m) = 3 PROVE Writes(m) = WritesUpTo(2)
    BY <2>2 DEF Writes
  <2>3. 0 \in 0..2 /\ 2 \in 0..2 /\ \A a \in 0..2 : a < 1 => a = 0
    OBVIOUS
  <2>4. CASE Tries(m) = 1
    BY <1>1, <2>1, <2>3, <2>4
  <2>5. CASE Tries(m) = 3
    BY <1>1, <2>2, <2>3, <2>5
  <2> QED
    BY <1>2, <2>4, <2>5
<1>4. \A m : Tries(m) \in 1..3
  BY <1>2
<1> QED
  BY <1>2, <1>3, <1>4

LEMMA CopiesInit == Init => CInv
<1> SUFFICES ASSUME Init PROVE CInv
  OBVIOUS
<1>1. /\ \A n \in Nodes : tasks[n] = {} /\ next[n] = 1
      /\ log = <<>> /\ up = Nodes /\ \A m \in Msgs : late[m] = 0
  BY DEF Init, NoCopies
<1>2. Places
  BY <1>1 DEF Places, OwnOnce, OffsetsFit, KafkaOnly
<1>3. IInv
  BY InitHolds
<1>4. ASSUME NEW m \in Msgs PROVE Lands(m)
  <2>1. Logged(m) = {}
    BY <1>1 DEF Logged
  <2>2. Landed(m) = 0
    BY <1>1, <2>1, FS_EmptySet DEF Landed
  <2>3. 0 <= Writes(m)
    BY WritesNat
  <2> QED
    BY <1>1, <2>2, <2>3 DEF Lands
<1>5. ASSUME NEW c \in Conns, NEW m \in Msgs PROVE Copies(c, m)
  <2>1. recv[c][m] = 0
    BY DEF Init, NoCopies
  <2>2. /\ IsFiniteSet(Sources(c, m)) /\ Ahead(c, m) \subseteq Sources(c, m)
    BY <1>3, Sets
  <2>3. /\ Cardinality(Ahead(c, m)) \in Nat /\ Cardinality(Sources(c, m)) \in Nat
        /\ Cardinality(Ahead(c, m)) <= Cardinality(Sources(c, m))
    BY <2>2, FS_Subset, FS_CardinalityType
  <2> QED
    BY <2>1, <2>3 DEF Copies
<1> QED
  BY <1>2, <1>3, <1>4, <1>5 DEF CInv

-----------------------------------------------------------------------------
(* What a step does to the tasks. *)

Replaced(n, t, s) ==
  \A k \in Nodes : \A x \in tasks'[k] :
    (x \in tasks[k] /\ (k = n => x # t)) \/ (k = n /\ x = s)
Added(n, s) == \A k \in Nodes : \A x \in tasks'[k] : x \in tasks[k] \/ (k = n /\ x = s)

LEMMA TasksReplaced ==
  ASSUME DOMAIN tasks = Nodes, NEW n \in Nodes, NEW t, NEW s, Become(n, t, s) \/ End(n, t)
  PROVE  Replaced(n, t, s)
BY DEF Become, End, Replaced

LEMMA TasksAdded ==
  ASSUME DOMAIN tasks = Nodes, NEW n \in Nodes, NEW s, Begin(n, s) \/ tasks' = tasks
  PROVE  Added(n, s)
BY DEF Begin, Added

LEMMA OwnReplaced ==
  ASSUME OwnOnce, NEW n \in Nodes, NEW t \in tasks[n], NEW s, Replaced(n, t, s),
         unsent' = unsent, Own(s) => Own(t) /\ s.msg = t.msg
  PROVE  OwnOnce'
<1>1. ASSUME NEW k \in Nodes, NEW x \in tasks'[k], Own(x)
      PROVE  /\ x.msg \notin unsent'
             /\ \/ x \in tasks[k] /\ (k = n => x # t)
                \/ k = n /\ x = s /\ Own(t) /\ x.msg = t.msg
  BY <1>1 DEF Replaced, OwnOnce
<1>2. ASSUME NEW k \in Nodes, NEW j \in Nodes, NEW x \in tasks'[k], NEW y \in tasks'[j],
             Own(x), Own(y), x.msg = y.msg
      PROVE  k = j /\ x = y
  <2>1. CASE x \in tasks[k] /\ y \in tasks[j]
    BY <1>2, <2>1 DEF OwnOnce
  <2>2. CASE k = n /\ x = s /\ j = n /\ y = s
    BY <2>2
  <2>3. CASE k = n /\ x = s /\ y \in tasks[j] /\ (j = n => y # t) /\ Own(t) /\ x.msg = t.msg
    BY <1>2, <2>3 DEF OwnOnce
  <2>4. CASE j = n /\ y = s /\ x \in tasks[k] /\ (k = n => x # t) /\ Own(t) /\ y.msg = t.msg
    BY <1>2, <2>4 DEF OwnOnce
  <2> QED
    BY <1>1, <1>2, <2>1, <2>2, <2>3, <2>4
<1>3. (\A k \in Nodes : \A x \in tasks'[k] : Own(x) => x.msg \notin unsent')
  BY <1>1
<1>4. \A k, j \in Nodes : \A x \in tasks'[k], y \in tasks'[j] :
        Own(x) /\ Own(y) /\ x.msg = y.msg => k = j /\ x = y
  BY <1>2
<1> QED
  BY <1>3, <1>4 DEF OwnOnce, Own

LEMMA OwnAdded ==
  ASSUME OwnOnce, NEW n \in Nodes, NEW s, Added(n, s), unsent' \subseteq unsent,
         Own(s) => s.msg \in unsent /\ s.msg \notin unsent'
  PROVE  OwnOnce'
<1>1. (\A k \in Nodes : \A x \in tasks'[k] : Own(x) => x.msg \notin unsent')
  BY DEF Added, OwnOnce
<1>2. \A k, j \in Nodes : \A x \in tasks'[k], y \in tasks'[j] :
        Own(x) /\ Own(y) /\ x.msg = y.msg => k = j /\ x = y
  BY DEF Added, OwnOnce
<1> QED
  BY <1>1, <1>2 DEF OwnOnce, Own

LogKept == Len(log') >= Len(log) /\ \A i \in DOMAIN log : log'[i] = log[i]

\* A broadcast that was there keeps its offset where it was.
LEMMA OldFits ==
  ASSUME IInv, OffsetsFit, LogKept, EnableKafka' = EnableKafka,
         NEW n \in Nodes, NEW t \in tasks[n], next'[n] \in Nat, next'[n] >= next[n]
  PROVE  OffsetFits(n, t)'
<1> SUFFICES ASSUME t.op = "broadcast"
             PROVE  IF t.offset = 0 THEN Local(t.msg, n)'
                    ELSE t.offset < next'[n] /\ log'[t.offset] = t.msg
  BY DEF OffsetFits
<1>1. t \in BroadcastTask /\ next[n] \in Nat /\ next[n] <= Len(log) + 1
  BY DEF IInv, Typed, TasksFit, Fits, PublishTask, OffsetsFit
<1>2. IF t.offset = 0 THEN Local(t.msg, n) ELSE t.offset < next[n] /\ log[t.offset] = t.msg
  BY DEF OffsetsFit, OffsetFits
<1>3. CASE t.offset = 0
  BY <1>2, <1>3 DEF Local
<1>4. CASE t.offset # 0
  <2>1. t.offset \in Nat /\ t.offset \in DOMAIN log
    BY <1>1, <1>2, <1>4, Sets DEF BroadcastTask
  <2> QED
    BY <1>1, <1>2, <1>4, <2>1 DEF LogKept
<1> QED
  BY <1>3, <1>4

LEMMA OffsetsReplaced ==
  ASSUME IInv, OffsetsFit, NEW n \in Nodes, NEW t \in tasks[n], NEW s, Replaced(n, t, s),
         LogKept, log' \in Seq(Sent), UNCHANGED <<next, up, EnableKafka>>,
         s.op = "broadcast" =>
           \/ s.offset = 0 /\ Local(s.msg, n)
           \/ t.op = "broadcast" /\ s.offset = t.offset /\ s.msg = t.msg
  PROVE  OffsetsFit'
<1> SUFFICES ASSUME NEW k \in Nodes
             PROVE  /\ next[k] <= Len(log') + 1
                    /\ k \notin up => tasks'[k] = {}
                    /\ \A x \in tasks'[k] : OffsetFits(k, x)'
                    /\ \A x, y \in tasks'[k] :
                         x.op = "broadcast" /\ y.op = "broadcast" /\ x.offset = y.offset
                           /\ x.offset # 0 => x = y
  BY DEF OffsetsFit
<1>1. next[k] \in Nat /\ next[k] <= Len(log) + 1 /\ Len(log) \in Nat
  BY Sets DEF IInv, Typed, OffsetsFit, LogKept
<1>2. next[k] <= Len(log') + 1
  <2>1. Len(log') \in Nat
    OBVIOUS
  <2> QED
    BY <1>1, <2>1 DEF LogKept
<1>3. k \notin up => tasks'[k] = {}
  BY DEF OffsetsFit, Replaced
<1>4. ASSUME NEW x \in tasks'[k] PROVE OffsetFits(k, x)'
  <2>1. CASE x \in tasks[k]
    BY <1>1, <2>1, OldFits
  <2>2. CASE k = n /\ x = s
    <3>1. OffsetFits(n, t)'
      BY <1>1, <2>2, OldFits
    <3> QED
      BY <2>2, <3>1 DEF OffsetFits, Local
  <2> QED
    BY <2>1, <2>2 DEF Replaced
<1>5. ASSUME NEW x \in tasks'[k], NEW y \in tasks'[k], x.op = "broadcast", y.op = "broadcast",
             x.offset = y.offset, x.offset # 0
      PROVE  x = y
  BY <1>5 DEF Replaced, OffsetsFit
<1> QED
  BY <1>2, <1>3, <1>4, <1>5

LEMMA OffsetsAdded ==
  ASSUME IInv, OffsetsFit, NEW n \in Nodes, NEW s, Added(n, s), n \in up,
         UNCHANGED <<log, up, EnableKafka>>,
         \A k \in Nodes : next'[k] \in Nat /\ next'[k] >= next[k] /\ next'[k] <= Len(log) + 1,
         s.op = "broadcast" =>
           \/ s.offset = 0 /\ Local(s.msg, n)
           \/ /\ s.offset \in Nat \ {0} /\ s.offset >= next[n] /\ s.offset < next'[n]
              /\ log[s.offset] = s.msg
  PROVE  OffsetsFit'
<1> SUFFICES ASSUME NEW k \in Nodes
             PROVE  /\ next'[k] <= Len(log) + 1
                    /\ k \notin up => tasks'[k] = {}
                    /\ \A x \in tasks'[k] : OffsetFits(k, x)'
                    /\ \A x, y \in tasks'[k] :
                         x.op = "broadcast" /\ y.op = "broadcast" /\ x.offset = y.offset
                           /\ x.offset # 0 => x = y
  BY DEF OffsetsFit
<1>1. LogKept
  BY Sets DEF LogKept
<1>2. k \notin up => tasks'[k] = {}
  BY DEF OffsetsFit, Added
<1>3. ASSUME NEW x \in tasks'[k] PROVE OffsetFits(k, x)'
  <2>1. CASE x \in tasks[k]
    BY <1>1, <2>1, OldFits
  <2>2. CASE k = n /\ x = s
    BY <2>2 DEF OffsetFits, Local
  <2> QED
    BY <2>1, <2>2 DEF Added
<1>4. ASSUME NEW x \in tasks[n], x.op = "broadcast", s.op = "broadcast", x.offset # 0
      PROVE  x.offset # s.offset
  <2>1. x \in BroadcastTask /\ next[n] \in Nat
    BY <1>4 DEF IInv, Typed, TasksFit, Fits, PublishTask
  <2>2. x.offset \in Nat /\ x.offset < next[n]
    BY <1>4, <2>1 DEF OffsetsFit, OffsetFits, BroadcastTask
  <2> QED
    BY <1>4, <2>1, <2>2
<1>5. ASSUME NEW x \in tasks'[k], NEW y \in tasks'[k], x.op = "broadcast", y.op = "broadcast",
             x.offset = y.offset, x.offset # 0
      PROVE  x = y
  <2>1. CASE x \in tasks[k] /\ y \in tasks[k]
    BY <1>5, <2>1 DEF OffsetsFit
  <2> QED
    BY <1>4, <1>5, <2>1 DEF Added
<1> QED
  BY <1>2, <1>3, <1>5

\* Fewer tasks, with the log longer or next started again at a node without any.
LEMMA PlacesFewer ==
  ASSUME IInv, Places, LogKept, log' \in Seq(Sent), EnableKafka' = EnableKafka, unsent' = unsent,
         \A k \in Nodes : /\ tasks'[k] \subseteq tasks[k]
                          /\ next'[k] \in Nat /\ next'[k] <= Len(log) + 1
                          /\ tasks'[k] = {} \/ next'[k] >= next[k]
                          /\ k \notin up' => tasks'[k] = {}
  PROVE  OwnOnce' /\ OffsetsFit'
<1>1. (\A k \in Nodes : \A x \in tasks'[k] : Own(x) => x.msg \notin unsent')
  BY DEF Places, OwnOnce
<1>2. \A k, j \in Nodes : \A x \in tasks'[k], y \in tasks'[j] :
        Own(x) /\ Own(y) /\ x.msg = y.msg => k = j /\ x = y
  BY DEF Places, OwnOnce
<1>3. OwnOnce'
  BY <1>1, <1>2 DEF OwnOnce, Own
<1>4. ASSUME NEW k \in Nodes
      PROVE  /\ next'[k] <= Len(log') + 1
             /\ k \notin up' => tasks'[k] = {}
             /\ \A x \in tasks'[k] : OffsetFits(k, x)'
             /\ \A x, y \in tasks'[k] :
                  x.op = "broadcast" /\ y.op = "broadcast" /\ x.offset = y.offset
                    /\ x.offset # 0 => x = y
  <2>1. Len(log) \in Nat /\ Len(log') \in Nat
    BY Sets
  <2>2. next'[k] <= Len(log') + 1
    BY <2>1 DEF LogKept
  <2>3. \A x \in tasks'[k] : OffsetFits(k, x)'
    BY OldFits DEF Places
  <2>4. \A x, y \in tasks'[k] :
          x.op = "broadcast" /\ y.op = "broadcast" /\ x.offset = y.offset
            /\ x.offset # 0 => x = y
    BY DEF Places, OffsetsFit
  <2> QED
    BY <2>2, <2>3, <2>4
<1>5. OffsetsFit'
  BY <1>4 DEF OffsetsFit
<1> QED
  BY <1>3, <1>5

-----------------------------------------------------------------------------
(* What a step leaves to come. *)

\* A new task is a message's own, the next offset, or what is left of one.
Covered ==
  \A k \in Nodes : \A x \in tasks'[k] :
    \/ x \in tasks[k]
    \/ Own(x) /\ (x.msg \in unsent \/ Publishes(k, x.msg))
    \/ x.op = "broadcast" /\ x.offset >= next[k]
    \/ /\ x.op = "broadcast"
       /\ \E y \in tasks[k] : /\ y.op = "broadcast" /\ y.msg = x.msg /\ y.offset = x.offset
                              /\ x.todo \subseteq y.todo

LEMMA AheadShrinks ==
  ASSUME IInv, IInv', Covered, unsent' \subseteq unsent,
         NEW c \in Conns, NodeOf[c] \in Nodes, next'[NodeOf[c]] >= next[NodeOf[c]], NEW m \in Msgs,
         NEW i \in Sources(c, m), i \in Ahead(c, m)'
  PROVE  i \in Ahead(c, m)
<1> DEFINE k == NodeOf[c]
<1>1. i \in Nat /\ next[k] \in Nat \ {0} /\ next'[k] \in Nat
  BY Sets DEF IInv, Typed
<1>2. \/ i >= next'[k]
      \/ Broadcasts(k, m, i, c)'
      \/ i = 0 /\ (m \in unsent' \/ Publishes(k, m)')
  BY DEF Ahead
<1>3. CASE i >= next'[k]
  BY <1>1, <1>3 DEF Ahead
<1>4. CASE Broadcasts(k, m, i, c)'
  <2>1. PICK x \in tasks'[k] : x.op = "broadcast" /\ x.msg = m /\ x.offset = i /\ c \in x.todo
    BY <1>4 DEF Broadcasts
  <2>2. CASE x \in tasks[k]
    BY <2>1, <2>2 DEF Ahead, Broadcasts
  <2>3. CASE Own(x) /\ (x.msg \in unsent \/ Publishes(k, x.msg))
    BY <2>1, <2>3 DEF Ahead, Own
  <2>4. CASE x.offset >= next[k]
    BY <2>1, <2>4 DEF Ahead
  <2>5. CASE \E y \in tasks[k] : /\ y.op = "broadcast" /\ y.msg = x.msg /\ y.offset = x.offset
                                 /\ x.todo \subseteq y.todo
    BY <2>1, <2>5 DEF Ahead, Broadcasts
  <2> QED
    BY <2>1, <2>2, <2>3, <2>4, <2>5 DEF Covered
<1>5. CASE i = 0 /\ m \in unsent'
  BY <1>5 DEF Ahead
<1>6. CASE i = 0 /\ Publishes(k, m)'
  <2>1. PICK x \in tasks'[k] : x.op = "publish" /\ x.msg = m
    BY <1>6 DEF Publishes
  <2>2. x \in tasks[k] \/ (Own(x) /\ (x.msg \in unsent \/ Publishes(k, x.msg)))
    BY <2>1 DEF Covered
  <2> QED
    BY <1>6, <2>1, <2>2 DEF Ahead, Publishes
<1> QED
  BY <1>2, <1>3, <1>4, <1>5, <1>6

LEMMA SetsNext ==
  IInv' => \A m, x : (IsFiniteSet(Sources(x, m)) /\ Ahead(x, m) \subseteq Sources(x, m))'
<1>1. IInv => \A m, x : IsFiniteSet(Sources(x, m)) /\ Ahead(x, m) \subseteq Sources(x, m)
  BY Sets
<1>2. (IInv => \A m, x : IsFiniteSet(Sources(x, m)) /\ Ahead(x, m) \subseteq Sources(x, m))'
  BY <1>1, PTL
<1> QED
  BY <1>2

LEMMA GrownBy ==
  ASSUME NEW S, NEW T, NEW A, NEW B, IsFiniteSet(S), IsFiniteSet(T),
         A \subseteq S, S \subseteq T, B \subseteq A \cup (T \ S)
  PROVE  /\ Cardinality(A) \in Nat /\ Cardinality(B) \in Nat
         /\ Cardinality(S) \in Nat /\ Cardinality(T) \in Nat
         /\ Cardinality(B) + Cardinality(S) <= Cardinality(A) + Cardinality(T)
<1>1. PICK D : D = T \ S
  OBVIOUS
<1>2. IsFiniteSet(D) /\ IsFiniteSet(A)
  BY <1>1, FS_Subset
<1>3. S \cup D = T /\ S \cap D = {} /\ A \cap D = {} /\ B \subseteq A \cup D
  BY <1>1
<1>4. Cardinality(T) = Cardinality(S) + Cardinality(D) - Cardinality({})
  BY <1>2, <1>3, FS_Union
<1>5. /\ IsFiniteSet(A \cup D)
      /\ Cardinality(A \cup D) = Cardinality(A) + Cardinality(D) - Cardinality({})
  BY <1>2, <1>3, FS_Union
<1>6. IsFiniteSet(B) /\ Cardinality(B) <= Cardinality(A \cup D)
  BY <1>3, <1>5, FS_Subset
<1>7. Cardinality({}) = 0
  BY FS_EmptySet
<1>8. /\ Cardinality(A) \in Nat /\ Cardinality(B) \in Nat /\ Cardinality(D) \in Nat
      /\ Cardinality(S) \in Nat /\ Cardinality(T) \in Nat
  BY <1>2, <1>6, FS_CardinalityType
<1> QED
  BY <1>4, <1>5, <1>6, <1>7, <1>8

LEMMA CopiesKept ==
  ASSUME IInv, IInv', LogKept, EnableKafka' = EnableKafka, Covered, unsent' \subseteq unsent,
         NEW c \in Conns, NodeOf[c] \in Nodes, next'[NodeOf[c]] >= next[NodeOf[c]], NEW m \in Msgs,
         recv'[c][m] = recv[c][m], Copies(c, m)
  PROVE  Copies(c, m)'
<1>1. PICK S : S = Sources(c, m)
  OBVIOUS
<1>2. PICK T : T = Sources(c, m)'
  OBVIOUS
<1>3. PICK A : A = Ahead(c, m)
  OBVIOUS
<1>4. PICK B : B = Ahead(c, m)'
  OBVIOUS
<1>5. PICK r \in Nat : r = recv[c][m]
  BY DEF IInv, Typed
<1>6. (\A x : IsFiniteSet(Sources(x, m)) /\ Ahead(x, m) \subseteq Sources(x, m))
  BY Sets
<1>7. (\A x : IsFiniteSet(Sources(x, m)) /\ Ahead(x, m) \subseteq Sources(x, m))'
  BY SetsNext
<1>8. IsFiniteSet(S) /\ IsFiniteSet(T) /\ A \subseteq S /\ B \subseteq T
  BY <1>1, <1>2, <1>3, <1>4, <1>6, <1>7
<1>9. S \subseteq T
  <2>1. \A i \in DOMAIN log : i \in DOMAIN log' /\ log'[i] = log[i]
    <3>1. log \in Seq(Sent) /\ log' \in Seq(Sent)
      BY DEF IInv, WritesFit
    <3> QED
      BY <3>1 DEF LogKept
  <2> QED
    BY <1>1, <1>2, <2>1 DEF Sources, Logged, Local
<1>10. B \subseteq A \cup (T \ S)
  <2> SUFFICES ASSUME NEW i \in B, i \in S PROVE i \in A
    BY <1>8
  <2> QED
    BY <1>1, <1>3, <1>4, AheadShrinks
<1>11. /\ Cardinality(A) \in Nat /\ Cardinality(B) \in Nat
       /\ Cardinality(S) \in Nat /\ Cardinality(T) \in Nat
       /\ Cardinality(B) + Cardinality(S) <= Cardinality(A) + Cardinality(T)
  BY <1>8, <1>9, <1>10, GrownBy
<1>12. r + Cardinality(A) <= Cardinality(S)
  BY <1>1, <1>3, <1>5 DEF Copies
<1>13. r + Cardinality(B) <= Cardinality(T)
  BY <1>11, <1>12
<1> QED
  BY <1>2, <1>4, <1>5, <1>13 DEF Copies

\* A broadcast that has visited a connection has one place less to write it from.
LEMMA CopyTaken ==
  ASSUME CInv, IInv', NEW n \in Nodes, NEW t \in tasks[n], NEW c \in Conns, NEW s,
         t.op = "broadcast", c \in t.todo, Replaced(n, t, s),
         s.op = "broadcast", s.msg = t.msg, s.offset = t.offset, s.todo = t.todo \ {c},
         UNCHANGED <<EnableKafka, log, next, unsent>>,
         recv'[c][t.msg] = recv[c][t.msg] \/ recv'[c][t.msg] = recv[c][t.msg] + 1
  PROVE  Copies(c, t.msg)'
<1>1. PICK m \in Msgs : m = t.msg
  BY DEF CInv, IInv, TasksFit, Fits, BroadcastTask, PublishTask, Sent
<1>2. t \in BroadcastTask /\ NodeOf[c] = n /\ OffsetFits(n, t) /\ next[n] \in Nat \ {0}
  BY DEF CInv, IInv, Typed, TasksFit, Fits, BroadcastTask, PublishTask, Members, Places, OffsetsFit
<1>3. PICK i \in Nat : i = t.offset
  BY <1>2 DEF BroadcastTask
<1>4. i \in Ahead(c, m)
  <2>1. i \in Sources(c, m)
    <3>1. CASE i = 0
      BY <1>1, <1>2, <1>3, <3>1 DEF OffsetFits, Sources
    <3>2. CASE i # 0
      <4>1. next[n] <= Len(log) + 1 /\ Len(log) \in Nat /\ DOMAIN log = 1..Len(log)
        BY Sets DEF CInv, Places, OffsetsFit
      <4>2. i < next[n] /\ log[i] = m
        BY <1>1, <1>2, <1>3, <3>2 DEF OffsetFits
      <4>3. i \in DOMAIN log
        BY <1>2, <3>2, <4>1, <4>2
      <4> QED
        BY <4>2, <4>3 DEF Sources, Logged
    <3> QED
      BY <3>1, <3>2
  <2> QED
    BY <1>1, <1>2, <1>3, <2>1 DEF Ahead, Broadcasts
<1>5. i \notin Ahead(c, m)'
  <2>1. ASSUME NEW x \in tasks'[n], x.op = "broadcast", x.msg = m, x.offset = i PROVE c \notin x.todo
    <3>1. x = s \/ (x \in tasks[n] /\ x # t)
      BY DEF Replaced
    <3>2. CASE x \in tasks[n] /\ x # t
      BY <1>1, <1>3, <2>1, <3>2 DEF CInv, Places, OwnOnce, OffsetsFit, Own
    <3> QED
      BY <3>1, <3>2
  <2>2. ~(i >= next[n])
    BY <1>2, <1>3 DEF OffsetFits
  <2>3. i = 0 => m \notin unsent
    BY <1>1, <1>3 DEF CInv, Places, OwnOnce, Own
  <2>4. ASSUME i = 0, NEW x \in tasks'[n], x.op = "publish" PROVE x.msg # m
    <3>1. x # s /\ x # t
      BY <2>4
    <3>2. x \in tasks[n]
      BY <3>1 DEF Replaced
    <3> QED
      BY <1>1, <1>3, <2>4, <3>1, <3>2 DEF CInv, Places, OwnOnce, Own
  <2> QED
    BY <1>2, <2>1, <2>2, <2>3, <2>4 DEF Ahead, Broadcasts, Publishes
<1>6. Covered
  <2> SUFFICES ASSUME NEW k \in Nodes, NEW x \in tasks'[k], x \notin tasks[k]
               PROVE  \E y \in tasks[k] : /\ y.op = "broadcast" /\ y.msg = x.msg /\ y.offset = x.offset
                                          /\ x.op = "broadcast" /\ x.todo \subseteq y.todo
    BY DEF Covered
  <2> QED
    BY DEF Replaced
<1>7. PICK S : S = Sources(c, m)
  OBVIOUS
<1>8. S = Sources(c, m)'
  BY <1>7 DEF Sources, Logged, Local
<1>9. PICK A : A = Ahead(c, m)
  OBVIOUS
<1>10. PICK B : B = Ahead(c, m)'
  OBVIOUS
<1>11. B \subseteq A \ {i}
  <2>1. IInv' => \A x : Ahead(x, m)' \subseteq Sources(x, m)'
    BY SetsNext
  <2>2. B \subseteq S
    BY <1>8, <1>10, <2>1 DEF CInv
  <2>3. \A j \in S : j \in Ahead(c, m)' => j \in Ahead(c, m)
    BY <1>2, <1>6, <1>7, AheadShrinks DEF CInv
  <2> QED
    BY <1>5, <1>9, <1>10, <2>2, <2>3
<1>12. IsFiniteSet(S) /\ A \subseteq S /\ i \in A
  BY <1>4, <1>7, <1>9, Sets DEF CInv
<1>13. IsFiniteSet(A) /\ IsFiniteSet(A \ {i}) /\ Cardinality(A \ {i}) = Cardinality(A) - 1
  BY <1>12, FS_Subset, FS_RemoveElement
<1>14. Cardinality(B) <= Cardinality(A) - 1 /\ IsFiniteSet(B)
  BY <1>11, <1>13, FS_Subset
<1>15. Cardinality(A) \in Nat /\ Cardinality(B) \in Nat /\ Cardinality(S) \in Nat
  BY <1>12, <1>13, <1>14, FS_CardinalityType
<1>16. PICK r \in Nat : r = recv[c][m]
  BY DEF CInv, IInv, Typed
<1>17. r + Cardinality(A) <= Cardinality(S)
  BY <1>7, <1>9, <1>16 DEF CInv, Copies
<1>18. r + Cardinality(B) <= Cardinality(S) /\ r + 1 + Cardinality(B) <= Cardinality(S)
  BY <1>14, <1>15, <1>17
<1>19. recv'[c][m] = r \/ recv'[c][m] = r + 1
  BY <1>1, <1>16
<1>20. Copies(c, m)'
  BY <1>8, <1>10, <1>18, <1>19 DEF Copies
<1> QED
  BY <1>1, <1>20

\* A new process has written nothing yet.
LEMMA CopiesAfresh ==
  ASSUME IInv', NEW c \in Conns, NEW m \in Msgs, recv'[c][m] = 0
  PROVE  Copies(c, m)'
<1>1. PICK S : S = Sources(c, m)'
  OBVIOUS
<1>2. PICK B : B = Ahead(c, m)'
  OBVIOUS
<1>3. IsFiniteSet(S) /\ B \subseteq S
  BY <1>1, <1>2, SetsNext
<1>4. Cardinality(B) \in Nat /\ Cardinality(B) <= Cardinality(S)
  BY <1>3, FS_Subset, FS_CardinalityType
<1>5. Cardinality(Ahead(c, m)') <= Cardinality(Sources(c, m)')
  BY <1>1, <1>2, <1>4
<1>6. Cardinality(Ahead(c, m)') \in Nat
  BY <1>2, <1>4
<1> QED
  BY <1>5, <1>6 DEF Copies

-----------------------------------------------------------------------------
(* What a step does to the writes. *)

LEMMA LandedNat ==
  ASSUME IInv, NEW m \in Msgs
  PROVE  Cardinality(Logged(m)) \in Nat /\ late[m] \in Nat /\ Landed(m) \in Nat
<1>1. IsFiniteSet(Logged(m)) /\ late[m] \in Nat
  BY Sets DEF IInv, WritesFit
<1>2. Cardinality(Logged(m)) \in Nat
  BY <1>1, FS_CardinalityType
<1> QED
  BY <1>1, <1>2 DEF Landed

LEMMA LoggedMore ==
  ASSUME IInv, NEW w \in Sent, log' = Append(log, w), NEW m
  PROVE  Cardinality(Logged(m)') = Cardinality(Logged(m)) + (IF w = m THEN 1 ELSE 0)
<1>1. PICK L : L = Logged(m)
  OBVIOUS
<1>2. PICK k \in Nat : k = Len(log) + 1
  BY Sets
<1>3. IsFiniteSet(L) /\ k \notin L /\ DOMAIN log = 1..(k - 1)
  <2>1. Len(log) \in Nat /\ L \subseteq 1..Len(log) /\ IsFiniteSet(L)
    BY <1>1, Sets
  <2> QED
    BY <1>2, <2>1, Sets
<1>4. DOMAIN log' = 1..k /\ log'[k] = w /\ \A i \in 1..(k - 1) : log'[i] = log[i]
  BY <1>2 DEF IInv, WritesFit
<1>5. CASE w = m
  <2>1. Logged(m)' = L \cup {k}
    BY <1>1, <1>2, <1>3, <1>4, <1>5 DEF Logged
  <2>2. Cardinality(L \cup {k}) = Cardinality(L) + 1
    BY <1>3, FS_AddElement
  <2> QED
    BY <1>1, <1>5, <2>1, <2>2
<1>6. CASE w # m
  <2>1. Logged(m)' = L
    BY <1>1, <1>2, <1>3, <1>4, <1>6 DEF Logged
  <2>2. Cardinality(L) \in Nat
    BY <1>3, FS_CardinalityType
  <2> QED
    BY <1>1, <1>6, <2>1, <2>2
<1> QED
  BY <1>5, <1>6

LEMMA LandsKept ==
  ASSUME NEW m \in Msgs, Lands(m), Landed(m)' = Landed(m), unsent' \subseteq unsent,
         \A k \in Nodes : \A x \in tasks'[k] : x.op = "publish" /\ x.msg = m =>
           x \in tasks[k] \/ (x.attempt = 0 /\ x.write = 0 /\ m \in unsent)
  PROVE  Lands(m)'
<1>1. Landed(m)' <= Writes(m) /\ (m \in unsent' => Landed(m)' = 0)
  BY DEF Lands
<1>2. ASSUME NEW k \in Nodes, NEW x \in tasks'[k], x.op = "publish", x.msg = m
      PROVE  x.attempt < Tries(m) /\ Landed(m)' <= x.write
  <2>1. CASE x \in tasks[k]
    BY <1>2, <2>1 DEF Lands
  <2>2. CASE x.attempt = 0 /\ x.write = 0 /\ m \in unsent
    BY <2>2, WritesNat DEF Lands
  <2> QED
    BY <1>2, <2>1, <2>2
<1> QED
  BY <1>1, <1>2 DEF Lands, Writes, Tries, WritesUpTo

\* What a publish does concerns its own message only, and is its only publish.
LEMMA PublishLands ==
  ASSUME OwnOnce, \A m \in Msgs : Lands(m), NEW n \in Nodes, NEW t \in tasks[n], t.op = "publish",
         NEW s, Replaced(n, t, s), unsent' = unsent,
         \A m \in Msgs : m # t.msg => Landed(m)' = Landed(m),
         Landed(t.msg)' <= Writes(t.msg),
         s.op = "publish" =>
           s.msg = t.msg /\ s.attempt < Tries(t.msg) /\ Landed(t.msg)' <= s.write
  PROVE  \A m \in Msgs : Lands(m)'
<1> SUFFICES ASSUME NEW m \in Msgs PROVE Lands(m)'
  OBVIOUS
<1>1. CASE m # t.msg
  <2>1. \A k \in Nodes : \A x \in tasks'[k] : x.op = "publish" /\ x.msg = m => x \in tasks[k]
    BY <1>1 DEF Replaced
  <2> QED
    BY <1>1, <2>1, LandsKept
<1>2. CASE m = t.msg
  <2>1. m \notin unsent
    BY <1>2 DEF OwnOnce, Own
  <2>2. \A k \in Nodes : \A x \in tasks'[k] : x.op = "publish" /\ x.msg = m => x = s
    BY <1>2 DEF OwnOnce, Own, Replaced
  <2>3. \A k \in Nodes : \A x \in tasks'[k] : x.op = "publish" /\ x.msg = m =>
          x.attempt < Tries(m) /\ Landed(m)' <= x.write
    BY <1>2, <2>2
  <2>4. Landed(m)' <= Writes(m)
    BY <1>2
  <2> QED
    BY <2>1, <2>3, <2>4 DEF Lands, Writes, Tries, WritesUpTo
<1> QED
  BY <1>1, <1>2

LEMMA LandedOther ==
  ASSUME NEW m, log' = log, late'[m] = late[m]
  PROVE  Landed(m)' = Landed(m)
<1>1. Logged(m)' = Logged(m)
  BY DEF Logged
<1> QED
  BY <1>1 DEF Landed

-----------------------------------------------------------------------------
(* One lemma per action. *)

LEMMA Stays ==
  ASSUME CInv
  PROVE  /\ DOMAIN tasks = Nodes /\ next \in [Nodes -> Nat \ {0}] /\ Len(log) \in Nat
         /\ \A n \in Nodes : next[n] >= next[n] /\ next[n] <= Len(log) + 1
         /\ log' = log => LogKept /\ log' \in Seq(Sent)
<1>1. /\ DOMAIN tasks = Nodes /\ next \in [Nodes -> Nat \ {0}] /\ log \in Seq(Sent)
      /\ Len(log) \in Nat /\ \A n \in Nodes : next[n] <= Len(log) + 1
  BY DEF CInv, IInv, TasksFit, Typed, WritesFit, Places, OffsetsFit
<1> QED
  BY <1>1 DEF LogKept

LEMMA CopiesOnly ==
  ASSUME CInv, IInv', LogKept, EnableKafka' = EnableKafka, Covered, unsent' \subseteq unsent,
         PathAssumption, \A n \in Nodes : next'[n] >= next[n], recv' = recv
  PROVE  \A c \in Conns, m \in Msgs : Copies(c, m)'
BY CopiesKept DEF CInv, PathAssumption

\* A message is sent: it becomes a publish, or a broadcast of its own node.
Sending(m, n, s) ==
  /\ Added(n, s) /\ n \in up /\ m \in unsent /\ unsent' = unsent \ {m}
  /\ Own(s) /\ s.msg = m
  /\ \/ s.op = "publish" /\ s.attempt = 0 /\ s.write = 0 /\ EnableKafka
     \/ s.op = "broadcast" /\ s.offset = 0 /\ Local(m, n)
  /\ UNCHANGED <<late, log, next, up, recv, EnableKafka>>

LEMMA SendCopies ==
  ASSUME CInv, PathAssumption, NEW m \in Msgs, HandleChat(m) \/ BroadcastSystemMsg(m)
  PROVE  CInv'
<1>1. IInv'
  BY NextHolds DEF CInv, Next
<1>2. \E n \in Nodes : \E s : Sending(m, n, s)
  <2>1. CASE HandleChat(m)
    <3> DEFINE n == NodeOf[SenderOf[m]]
               s == IF EnableKafka THEN Publishing(m, TRUE) ELSE Broadcasting(m, 0, TRUE, n)
    <3>1. m \in Chats /\ n \in Nodes
      BY <2>1 DEF HandleChat, PathAssumption
    <3>2. Begin(n, s) \/ tasks' = tasks
      BY <2>1 DEF HandleChat
    <3>3. Added(n, s)
      BY <3>1, <3>2, TasksAdded, Stays
    <3>4. /\ Own(s) /\ s.msg = m
          /\ \/ s.op = "publish" /\ s.attempt = 0 /\ s.write = 0 /\ EnableKafka
             \/ s.op = "broadcast" /\ s.offset = 0 /\ Local(m, n)
      BY <3>1 DEF Own, Publishing, Broadcasting, Local
    <3> HIDE DEF s
    <3> QED
      BY <2>1, <3>1, <3>3, <3>4 DEF HandleChat, Sendable, Sending
  <2>2. CASE BroadcastSystemMsg(m)
    <3> DEFINE n == CallerOf[m]
               s == IF EnableKafka THEN Publishing(m, FALSE) ELSE Broadcasting(m, 0, FALSE, n)
    <3>1. m \in Sysmsgs /\ n \in Nodes
      BY <2>2 DEF BroadcastSystemMsg, PathAssumption
    <3>2. Begin(n, s)
      BY <2>2 DEF BroadcastSystemMsg
    <3>3. Added(n, s)
      BY <3>1, <3>2, TasksAdded, Stays
    <3>4. /\ Own(s) /\ s.msg = m
          /\ \/ s.op = "publish" /\ s.attempt = 0 /\ s.write = 0 /\ EnableKafka
             \/ s.op = "broadcast" /\ s.offset = 0 /\ Local(m, n)
      BY <3>1 DEF Own, Publishing, Broadcasting, Local
    <3> HIDE DEF s
    <3> QED
      BY <2>2, <3>1, <3>3, <3>4 DEF BroadcastSystemMsg, Sendable, Sending
  <2> QED
    BY <2>1, <2>2
<1>3. PICK n \in Nodes : \E s : Sending(m, n, s)
  BY <1>2
<1>4. PICK s : Sending(m, n, s)
  BY <1>3
<1>5. OwnOnce'
  BY <1>4, OwnAdded DEF CInv, Places, Sending
<1>6. OffsetsFit'
  BY <1>4, OffsetsAdded, Stays DEF CInv, Places, Sending
<1>7. KafkaOnly'
  BY <1>4 DEF CInv, Places, KafkaOnly, Added, Sending
<1>8. ASSUME NEW q \in Msgs PROVE Lands(q)'
  <2>1. Lands(q)
    BY DEF CInv
  <2>2. Landed(q)' = Landed(q)
    BY <1>4, LandedOther DEF Sending
  <2>3. \A k \in Nodes : \A x \in tasks'[k] : x.op = "publish" /\ x.msg = q =>
          x \in tasks[k] \/ (x.attempt = 0 /\ x.write = 0 /\ q \in unsent)
    BY <1>4 DEF Added, Sending
  <2> QED
    BY <1>4, <2>1, <2>2, <2>3, LandsKept DEF Sending
<1>9. Covered
  BY <1>4 DEF Covered, Added, Sending
<1>10. \A c \in Conns, q \in Msgs : Copies(c, q)'
  BY <1>1, <1>4, <1>9, CopiesOnly, Stays DEF Sending
<1> QED
  BY <1>1, <1>5, <1>6, <1>7, <1>8, <1>10 DEF CInv, Places

\* The places after a publish has gone on: as s, or not at all.
LEMMA PublishPlaces ==
  ASSUME CInv, IInv', PathAssumption, NEW n \in Nodes, NEW t \in tasks[n], t.op = "publish", NEW s,
         Become(n, t, s) \/ End(n, t), s.msg = t.msg,
         s.op = "publish" \/ (s.op = "broadcast" /\ s.offset = 0 /\ Local(s.msg, n)),
         LogKept, log' \in Seq(Sent), UNCHANGED <<unsent, next, up, recv, EnableKafka>>
  PROVE  /\ Replaced(n, t, s) /\ Places'
         /\ \A c \in Conns, m \in Msgs : Copies(c, m)'
<1>1. Replaced(n, t, s)
  BY TasksReplaced, Stays
<1>2. OwnOnce'
  BY <1>1, OwnReplaced DEF CInv, Places, Own
<1>3. OffsetsFit'
  BY <1>1, OffsetsReplaced DEF CInv, Places
<1>4. EnableKafka
  BY DEF CInv, Places, KafkaOnly
<1>5. KafkaOnly'
  BY <1>4 DEF KafkaOnly
<1>6. Covered
  BY <1>1 DEF Covered, Replaced, Own, Publishes
<1>7. \A c \in Conns, m \in Msgs : Copies(c, m)'
  BY <1>6, CopiesOnly, Stays
<1> QED
  BY <1>1, <1>2, <1>3, <1>5, <1>7 DEF Places

LEMMA PublishCopies ==
  ASSUME CInv, PathAssumption, NEW n \in Nodes, NEW t \in tasks[n],
         Append1(n, t) \/ PublishDone(n, t) \/ PublishFails(n, t)
  PROVE  CInv'
<1>1. IInv'
  BY NextHolds DEF CInv, Next, TaskStep
<1>2. /\ t.op = "publish" /\ t \in PublishTask /\ t.msg \in Msgs
      /\ t.msg \in Sysmsgs => CallerOf[t.msg] = n
      /\ t.write <= WritesUpTo(t.attempt)
  <2>1. t.op = "publish"
    BY DEF Append1, PublishDone, PublishFails
  <2>2. Fits(n, t)
    BY DEF CInv, IInv, TasksFit
  <2> QED
    BY <2>1, <2>2 DEF Fits, PublishTask, BroadcastTask, Sent
<1>3. PICK m \in Msgs : m = t.msg
  BY <1>2
<1>4. PICK a \in 0..2, w \in Nat, top \in Nat :
        a = t.attempt /\ w = t.write /\ top = WritesUpTo(a)
  BY <1>2, Numbers DEF PublishTask
<1>5. PICK k \in Nat : k = Landed(m)
  BY LandedNat DEF CInv
<1>6. /\ k <= w /\ w <= top /\ top <= Writes(m) /\ Writes(m) \in Nat /\ a < Tries(m)
  <2>1. Lands(m)
    BY DEF CInv
  <2>2. a < Tries(m) /\ k <= w
    BY <1>2, <1>3, <1>4, <1>5, <2>1 DEF Lands
  <2>3. top <= Writes(m) /\ Writes(m) \in Nat
    BY <1>4, <2>2, WritesNat
  <2> QED
    BY <1>2, <1>4, <2>2, <2>3
<1>7. OwnOnce /\ \A q \in Msgs : Lands(q)
  BY DEF CInv, Places
<1>8. CASE Append1(n, t)
  <2> DEFINE s == [t EXCEPT !.write = @ + 1]
  <2>1. /\ w < top /\ log' = Append(log, m) /\ Become(n, t, s)
        /\ UNCHANGED <<unsent, late, next, up, recv, EnableKafka>>
    BY <1>3, <1>4, <1>8 DEF Append1
  <2>2. s.op = "publish" /\ s.msg = m /\ s.attempt = a /\ s.write = w + 1
    BY <1>2, <1>3, <1>4 DEF PublishTask
  <2>3. m \in Sent /\ LogKept /\ log' \in Seq(Sent)
    BY <1>2, <1>3, <2>1 DEF CInv, IInv, WritesFit, LogKept, PublishTask
  <2> HIDE DEF s
  <2>4. /\ Replaced(n, t, s) /\ Places'
        /\ \A c \in Conns, q \in Msgs : Copies(c, q)'
    BY <1>1, <1>2, <1>3, <2>1, <2>2, <2>3, PublishPlaces
  <2>5. ASSUME NEW q \in Msgs
        PROVE  Landed(q)' = Landed(q) + (IF q = m THEN 1 ELSE 0)
    <3>1. late'[q] = late[q]
      BY <2>1
    <3>2. Cardinality(Logged(q)') = Cardinality(Logged(q)) + (IF m = q THEN 1 ELSE 0)
      BY <2>1, <2>3, LoggedMore DEF CInv
    <3>3. Cardinality(Logged(q)) \in Nat /\ late[q] \in Nat
      BY LandedNat DEF CInv
    <3> QED
      BY <3>1, <3>2, <3>3 DEF Landed
  <2>6. ASSUME NEW q \in Msgs, q # m PROVE Landed(q)' = Landed(q)
    <3>1. Landed(q) \in Nat
      BY LandedNat DEF CInv
    <3> QED
      BY <2>5, <2>6, <3>1
  <2>7. Landed(m)' = k + 1
    BY <1>5, <2>5
  <2>8. Landed(m)' <= Writes(m) /\ Landed(m)' <= w + 1
    BY <1>4, <1>5, <1>6, <2>1, <2>7
  <2>9. \A q \in Msgs : Lands(q)'
    BY <1>2, <1>3, <1>6, <1>7, <2>1, <2>2, <2>4, <2>6, <2>8, PublishLands
  <2> QED
    BY <1>1, <2>4, <2>9 DEF CInv
<1>9. CASE PublishDone(n, t)
  <2>1. End(n, t) /\ UNCHANGED <<unsent, late, log, next, up, recv, EnableKafka>>
    BY <1>9 DEF PublishDone
  <2>2. /\ Replaced(n, t, t) /\ Places'
        /\ \A c \in Conns, q \in Msgs : Copies(c, q)'
    BY <1>1, <1>2, <2>1, PublishPlaces, Stays
  <2>3. ASSUME NEW q \in Msgs PROVE Lands(q)'
    <3>1. Landed(q)' = Landed(q)
      BY <2>1, LandedOther
    <3>2. \A j \in Nodes : \A x \in tasks'[j] : x \in tasks[j]
      BY <2>2 DEF Replaced
    <3> QED
      BY <1>7, <2>1, <3>1, <3>2, LandsKept
  <2> QED
    BY <1>1, <2>2, <2>3 DEF CInv
<1>10. CASE PublishFails(n, t)
  <2>1. /\ late' = [late EXCEPT ![m] = @ + top - w]
        /\ UNCHANGED <<unsent, log, next, up, recv, EnableKafka>>
    BY <1>3, <1>4, <1>10 DEF PublishFails
  <2>2. PICK s :
          /\ Become(n, t, s) \/ End(n, t)
          /\ s.msg = m
          /\ \/ /\ s.op = "publish" /\ s.attempt = a + 1 /\ s.write = top
                /\ m \in Special /\ a + 1 < maxRetryCount
             \/ s.op = "broadcast" /\ s.offset = 0 /\ Local(m, n)
             \/ End(n, t) /\ s = t
    <3>1. CASE m \in Special /\ a + 1 < maxRetryCount
      <4> DEFINE s == [t EXCEPT !.attempt = @ + 1, !.write = WritesUpTo(t.attempt)]
      <4>1. Become(n, t, s)
        BY <1>3, <1>4, <1>10, <3>1 DEF PublishFails
      <4>2. s.op = "publish" /\ s.attempt = a + 1 /\ s.msg = m /\ s.write = top
        BY <1>2, <1>3, <1>4 DEF PublishTask
      <4> HIDE DEF s
      <4> QED
        BY <3>1, <4>1, <4>2
    <3>2. CASE ~(m \in Special /\ a + 1 < maxRetryCount) /\ m \in Sysmsgs
      <4> DEFINE s == Broadcasting(m, 0, FALSE, n)
      <4>1. Become(n, t, s)
        BY <1>3, <1>4, <1>10, <3>2 DEF PublishFails
      <4>2. s.op = "broadcast" /\ s.offset = 0 /\ s.msg = m /\ Local(m, n)
        BY <1>2, <1>3, <3>2 DEF Broadcasting, Local
      <4> HIDE DEF s
      <4> QED
        BY <4>1, <4>2
    <3>3. CASE ~(m \in Special /\ a + 1 < maxRetryCount) /\ m \notin Sysmsgs
      <4>1. End(n, t)
        BY <1>3, <1>4, <1>10, <3>3 DEF PublishFails
      <4> QED
        BY <1>3, <4>1
    <3> QED
      BY <3>1, <3>2, <3>3
  <2>3. /\ Replaced(n, t, s) /\ Places'
        /\ \A c \in Conns, q \in Msgs : Copies(c, q)'
    BY <1>1, <1>2, <1>3, <2>1, <2>2, PublishPlaces, Stays
  <2>4. Landed(m)' <= top /\ Landed(m)' <= Writes(m)
    <3>1. PICK i, j \in Nat : i = Cardinality(Logged(m)) /\ j = late[m]
      BY LandedNat DEF CInv
    <3>2. k = i + j
      BY <1>5, <3>1 DEF Landed
    <3>3. late'[m] = j + top - w
      BY <2>1, <3>1 DEF CInv, IInv, WritesFit
    <3>4. Logged(m)' = Logged(m)
      BY <2>1 DEF Logged
    <3>5. Landed(m)' = i + (j + top - w)
      BY <3>1, <3>3, <3>4 DEF Landed
    <3> QED
      BY <1>6, <3>2, <3>5
  <2>5. ASSUME NEW q \in Msgs, q # m PROVE Landed(q)' = Landed(q)
    <3>1. late'[q] = late[q]
      BY <2>1, <2>5 DEF CInv, IInv, WritesFit
    <3> QED
      BY <2>1, <3>1, LandedOther
  <2>6. CASE End(n, t)
    <3> DEFINE r == [op |-> "broadcast"]
    <3>1. Replaced(n, t, r)
      BY <2>6, TasksReplaced, Stays
    <3>2. r.op # "publish"
      OBVIOUS
    <3> HIDE DEF r
    <3>3. \A q \in Msgs : Lands(q)'
      BY <1>2, <1>3, <1>7, <2>1, <2>4, <2>5, <3>1, <3>2, PublishLands
    <3> QED
      BY <1>1, <2>3, <3>3 DEF CInv
  <2>7. CASE ~End(n, t)
    <3>1. s.op = "publish" => s.attempt < Tries(m) /\ Landed(m)' <= s.write
      BY <2>2, <2>4, <2>7 DEF Tries
    <3>2. \A q \in Msgs : Lands(q)'
      BY <1>2, <1>3, <1>7, <2>1, <2>2, <2>3, <2>4, <2>5, <3>1, PublishLands
    <3> QED
      BY <1>1, <2>3, <3>2 DEF CInv
  <2> QED
    BY <2>6, <2>7
<1> QED
  BY <1>8, <1>9, <1>10

LEMMA LandsLateCopies ==
  ASSUME CInv, PathAssumption, NEW m \in Msgs, LandsLate(m)
  PROVE  CInv'
<1>1. IInv'
  BY NextHolds DEF CInv, Next
<1>2. late \in [Msgs -> Nat] /\ log \in Seq(Sent)
  BY DEF CInv, IInv, WritesFit
<1>3. /\ late' = [late EXCEPT ![m] = @ - 1] /\ log' = Append(log, m) /\ late[m] > 0
      /\ UNCHANGED <<unsent, tasks, next, up, recv, EnableKafka>>
  BY DEF LandsLate
<1>4. m \in Sent /\ LogKept /\ log' \in Seq(Sent)
  <2>1. m \in Sent
    BY <1>3 DEF CInv, IInv, WritesFit
  <2> QED
    BY <1>2, <1>3, <2>1 DEF LogKept
<1>5. OwnOnce' /\ OffsetsFit'
  <2>1. \A k \in Nodes : next[k] \in Nat /\ next[k] <= Len(log) + 1 /\ next[k] >= next[k]
    BY Stays
  <2>2. \A k \in Nodes : k \notin up => tasks[k] = {}
    BY DEF CInv, Places, OffsetsFit
  <2> QED
    BY <1>3, <1>4, <2>1, <2>2, PlacesFewer DEF CInv
<1>6. KafkaOnly'
  BY <1>2, <1>3 DEF CInv, Places, KafkaOnly
<1>7. ASSUME NEW q \in Msgs PROVE Lands(q)'
  <2>1. Lands(q)
    BY DEF CInv
  <2>2. Cardinality(Logged(q)') = Cardinality(Logged(q)) + (IF m = q THEN 1 ELSE 0)
    BY <1>3, <1>4, LoggedMore DEF CInv
  <2>3. late'[q] = late[q] - (IF m = q THEN 1 ELSE 0)
    BY <1>2, <1>3
  <2>4. Cardinality(Logged(q)) \in Nat /\ late[q] \in Nat
    BY LandedNat DEF CInv
  <2>5. Landed(q)' = Landed(q)
    BY <2>2, <2>3, <2>4 DEF Landed
  <2> QED
    BY <1>3, <2>1, <2>5, LandsKept
<1>8. Covered
  BY <1>3 DEF Covered
<1>9. \A c \in Conns, q \in Msgs : Copies(c, q)'
  BY <1>1, <1>3, <1>4, <1>8, CopiesOnly, Stays
<1> QED
  BY <1>1, <1>5, <1>6, <1>7, <1>9 DEF CInv, Places

LEMMA ConsumeCopies ==
  ASSUME CInv, PathAssumption, NEW n \in Nodes, Consume(n) \/ ReadFails(n)
  PROVE  CInv'
<1>1. IInv'
  BY NextHolds DEF CInv, Next
<1>2. /\ n \in up /\ EnableKafka /\ next[n] <= Len(log)
      /\ next' = [next EXCEPT ![n] = @ + 1]
      /\ UNCHANGED <<unsent, late, log, up, recv, EnableKafka>>
  BY DEF Consume, ReadFails
<1>3. PICK i \in Nat \ {0} : i = next[n]
  BY Stays
<1>4. PICK s : s = Broadcasting(log[i], i, TRUE, n)
  OBVIOUS
<1>5. s.op = "broadcast" /\ s.offset = i /\ s.msg = log[i] /\ ~Own(s)
  BY <1>4 DEF Broadcasting, Own
<1>6. Added(n, s)
  BY <1>3, <1>4, TasksAdded, Stays DEF Consume, ReadFails
<1>7. /\ \A k \in Nodes : next'[k] \in Nat /\ next'[k] >= next[k] /\ next'[k] <= Len(log) + 1
      /\ next'[n] = i + 1
  BY <1>2, <1>3, Stays
<1>8. OwnOnce'
  BY <1>2, <1>5, <1>6, OwnAdded DEF CInv, Places
<1>9. OffsetsFit'
  <2>1. s.offset \in Nat \ {0} /\ s.offset >= next[n] /\ s.offset < next'[n]
    BY <1>3, <1>5, <1>7
  <2> QED
    BY <1>2, <1>5, <1>6, <1>7, <2>1, OffsetsAdded DEF CInv, Places
<1>10. KafkaOnly'
  BY <1>2 DEF KafkaOnly
<1>11. ASSUME NEW q \in Msgs PROVE Lands(q)'
  <2>1. Lands(q) /\ Landed(q)' = Landed(q)
    BY <1>2, LandedOther DEF CInv
  <2>2. \A k \in Nodes : \A x \in tasks'[k] : x.op = "publish" => x \in tasks[k]
    BY <1>5, <1>6 DEF Added
  <2> QED
    BY <1>2, <2>1, <2>2, LandsKept
<1>12. Covered
  <2>1. s.offset >= next[n]
    BY <1>3, <1>5
  <2> QED
    BY <1>5, <1>6, <2>1 DEF Covered, Added
<1>13. \A c \in Conns, q \in Msgs : Copies(c, q)'
  BY <1>1, <1>2, <1>7, <1>12, CopiesOnly, Stays
<1> QED
  BY <1>1, <1>8, <1>9, <1>10, <1>11, <1>13 DEF CInv, Places

LEMMA SendToConnCopies ==
  ASSUME CInv, PathAssumption, NEW n \in Nodes, NEW t \in tasks[n], NEW c \in Conns,
         SendToConn(n, t, c)
  PROVE  CInv'
<1>1. IInv'
  BY NextHolds DEF CInv, Next, TaskStep
<1>2. /\ t.op = "broadcast" /\ c \in t.todo
      /\ recv' = recv \/ recv' = [recv EXCEPT ![c][t.msg] = @ + 1]
      /\ UNCHANGED <<unsent, late, log, next, up, EnableKafka>>
  BY DEF SendToConn
<1>3. PICK s : s = [t EXCEPT !.todo = @ \ {c}]
  OBVIOUS
<1>4. t \in BroadcastTask /\ t.msg \in Msgs
  BY <1>2 DEF CInv, IInv, TasksFit, Fits, PublishTask, BroadcastTask, Sent
<1>5. s.op = "broadcast" /\ s.msg = t.msg /\ s.offset = t.offset /\ s.todo = t.todo \ {c}
  BY <1>3, <1>4 DEF BroadcastTask
<1>6. Replaced(n, t, s)
  BY <1>3, TasksReplaced, Stays DEF SendToConn
<1>7. OwnOnce'
  BY <1>2, <1>5, <1>6, OwnReplaced DEF CInv, Places, Own
<1>8. OffsetsFit'
  BY <1>2, <1>5, <1>6, OffsetsReplaced, Stays DEF CInv, Places
<1>9. \A k \in Nodes : \A x \in tasks'[k] : x.op = "publish" => x \in tasks[k]
  BY <1>5, <1>6 DEF Replaced
<1>10. KafkaOnly'
  BY <1>2, <1>9 DEF CInv, Places, KafkaOnly
<1>11. ASSUME NEW q \in Msgs PROVE Lands(q)'
  <2>1. Lands(q) /\ Landed(q)' = Landed(q)
    BY <1>2, LandedOther DEF CInv
  <2> QED
    BY <1>2, <1>9, <2>1, LandsKept
<1>12. recv \in [Conns -> [Msgs -> Nat]]
  BY DEF CInv, IInv, Typed
<1>13. PICK m \in Msgs : m = t.msg
  BY <1>4
<1>14. /\ recv'[c][m] = recv[c][m] \/ recv'[c][m] = recv[c][m] + 1
       /\ \A d \in Conns, q \in Msgs : d # c \/ q # m => recv'[d][q] = recv[d][q]
  BY <1>2, <1>12, <1>13
<1>15. Covered
  BY <1>2, <1>5, <1>6 DEF Covered, Replaced
<1>16. ASSUME NEW d \in Conns, NEW q \in Msgs PROVE Copies(d, q)'
  <2>1. CASE d = c /\ q = m
    BY <1>1, <1>2, <1>5, <1>6, <1>13, <1>14, <2>1, CopyTaken
  <2>2. CASE d # c \/ q # m
    <3>1. NodeOf[d] \in Nodes /\ Copies(d, q)
      BY DEF PathAssumption, CInv
    <3> QED
      BY <1>1, <1>2, <1>14, <1>15, <2>2, <3>1, CopiesKept, Stays DEF CInv
  <2> QED
    BY <2>1, <2>2
<1> QED
  BY <1>1, <1>7, <1>8, <1>10, <1>11, <1>16 DEF CInv, Places

\* A crash leaves a message's publish, of which there is one, among the writes
\* that may still land.
LEMMA CrashCopies ==
  ASSUME CInv, PathAssumption, NEW n \in Nodes, Crash(n)
  PROVE  CInv'
<1>1. IInv'
  BY NextHolds DEF CInv, Next
<1>2. /\ up' = up \ {n} /\ tasks' = [tasks EXCEPT ![n] = {}]
      /\ late' = [m \in Msgs |-> IF \E t \in tasks[n] : UnderWay(t, m) THEN late[m] + 1
                                 ELSE late[m]]
      /\ UNCHANGED <<unsent, log, next, recv, EnableKafka>>
  BY DEF Crash
<1>3. \A k \in Nodes : tasks'[k] = IF k = n THEN {} ELSE tasks[k]
  BY <1>2, Stays
<1>4. LogKept /\ log' \in Seq(Sent)
  BY <1>2, Stays
<1>5. OwnOnce' /\ OffsetsFit'
  <2>1. \A k \in Nodes : next[k] \in Nat /\ next[k] <= Len(log) + 1 /\ next[k] >= next[k]
    BY Stays
  <2>2. \A k \in Nodes : k \notin up => tasks[k] = {}
    BY DEF CInv, Places, OffsetsFit
  <2>3. \A k \in Nodes : tasks'[k] \subseteq tasks[k] /\ (k \notin up' => tasks'[k] = {})
    BY <1>2, <1>3, <2>2
  <2> QED
    BY <1>2, <1>4, <2>1, <2>3, PlacesFewer DEF CInv
<1>6. KafkaOnly'
  <2>1. CASE EnableKafka
    BY <1>2, <2>1 DEF KafkaOnly
  <2>2. CASE ~EnableKafka
    <3>1. /\ log = <<>> /\ \A m \in Msgs : late[m] = 0
          /\ \A k \in Nodes : \A t \in tasks[k] : t.op # "publish"
      BY <2>2 DEF CInv, Places, KafkaOnly
    <3>2. /\ \A m \in Msgs : late'[m] = 0
          /\ \A k \in Nodes : \A t \in tasks'[k] : t.op # "publish"
      BY <1>2, <1>3, <3>1 DEF UnderWay
    <3> QED
      BY <1>2, <3>1, <3>2 DEF KafkaOnly
  <2> QED
    BY <2>1, <2>2
<1>7. ASSUME NEW q \in Msgs PROVE Lands(q)'
  <2>1. Lands(q) /\ Logged(q)' = Logged(q)
    BY <1>2 DEF CInv, Logged
  <2>2. PICK i, j \in Nat : i = Cardinality(Logged(q)) /\ j = late[q]
    BY LandedNat DEF CInv
  <2>3. Landed(q) = i + j
    BY <2>2 DEF Landed
  <2>4. CASE \E t \in tasks[n] : UnderWay(t, q)
    <3>1. PICK t \in tasks[n] : t.op = "publish" /\ t.msg = q /\ t.write < WritesUpTo(t.attempt)
      BY <2>4 DEF UnderWay
    <3>2. PICK a \in 0..2, w \in Nat, top \in Nat :
            a = t.attempt /\ w = t.write /\ top = WritesUpTo(a)
      BY <3>1, Numbers DEF CInv, IInv, TasksFit, Fits, PublishTask, BroadcastTask
    <3>3. w < top /\ i + j <= w /\ top <= Writes(q) /\ Writes(q) \in Nat
      <4>1. a < Tries(q) /\ i + j <= w
        BY <2>1, <2>3, <3>1, <3>2 DEF Lands
      <4>2. top <= Writes(q) /\ Writes(q) \in Nat
        BY <3>2, <4>1, WritesNat
      <4> QED
        BY <3>1, <3>2, <4>1, <4>2
    <3>4. late'[q] = j + 1
      BY <1>2, <2>2, <2>4
    <3>5. Landed(q)' = i + (j + 1)
      BY <2>1, <2>2, <3>4 DEF Landed
    <3>6. Landed(q)' <= Writes(q)
      BY <3>3, <3>5
    <3>7. q \notin unsent /\ \A k \in Nodes : \A x \in tasks'[k] : ~(x.op = "publish" /\ x.msg = q)
      <4>1. \A k \in Nodes : \A x \in tasks[k] : x.op = "publish" /\ x.msg = q => k = n
        BY <3>1 DEF CInv, Places, OwnOnce, Own
      <4>2. q \notin unsent
        BY <3>1 DEF CInv, Places, OwnOnce, Own
      <4> QED
        BY <1>3, <4>1, <4>2
    <3> QED
      BY <1>2, <3>6, <3>7 DEF Lands, Writes, Tries, WritesUpTo
  <2>5. CASE ~\E t \in tasks[n] : UnderWay(t, q)
    <3>1. Landed(q)' = Landed(q)
      BY <1>2, <2>5, LandedOther
    <3>2. \A k \in Nodes : \A x \in tasks'[k] : x \in tasks[k]
      BY <1>3
    <3> QED
      BY <1>2, <2>1, <3>1, <3>2, LandsKept
  <2> QED
    BY <2>4, <2>5
<1>8. Covered
  BY <1>3 DEF Covered
<1>9. \A c \in Conns, q \in Msgs : Copies(c, q)'
  BY <1>1, <1>2, <1>4, <1>8, CopiesOnly, Stays
<1> QED
  BY <1>1, <1>5, <1>6, <1>7, <1>9 DEF CInv, Places

LEMMA StartCopies ==
  ASSUME CInv, PathAssumption, NEW n \in Nodes, Start(n)
  PROVE  CInv'
<1>1. IInv'
  BY NextHolds DEF CInv, Next
<1>2. /\ n \notin up /\ up' = up \cup {n} /\ next' = [next EXCEPT ![n] = 1]
      /\ recv' = [c \in Conns |-> IF c \in Members(n) THEN NoCopies ELSE recv[c]]
      /\ UNCHANGED <<unsent, tasks, late, log, EnableKafka>>
  BY DEF Start
<1>3. \A k \in Nodes : next'[k] = IF k = n THEN 1 ELSE next[k]
  BY <1>2, Stays
<1>4. LogKept /\ log' \in Seq(Sent)
  BY <1>2, Stays
<1>5. OwnOnce' /\ OffsetsFit'
  <2>1. \A k \in Nodes : k \notin up => tasks[k] = {}
    BY DEF CInv, Places, OffsetsFit
  <2>2. \A k \in Nodes : /\ next'[k] \in Nat /\ next'[k] <= Len(log) + 1
                         /\ tasks[k] = {} \/ next'[k] >= next[k]
    BY <1>2, <1>3, <2>1, Stays
  <2>3. \A k \in Nodes : k \notin up' => tasks'[k] = {}
    BY <1>2, <2>1
  <2> QED
    BY <1>2, <1>4, <2>2, <2>3, PlacesFewer DEF CInv
<1>6. KafkaOnly'
  BY <1>2 DEF CInv, Places, KafkaOnly
<1>7. ASSUME NEW q \in Msgs PROVE Lands(q)'
  <2>1. Lands(q) /\ Landed(q)' = Landed(q)
    BY <1>2, LandedOther DEF CInv
  <2> QED
    BY <1>2, <2>1, LandsKept
<1>8. Covered
  BY <1>2 DEF Covered
<1>9. ASSUME NEW c \in Conns, NEW q \in Msgs PROVE Copies(c, q)'
  <2>1. CASE c \in Members(n)
    <3>1. recv'[c][q] = 0
      BY <1>2, <2>1 DEF NoCopies
    <3> QED
      BY <1>1, <3>1, CopiesAfresh
  <2>2. CASE c \notin Members(n)
    <3>1. NodeOf[c] # n /\ NodeOf[c] \in Nodes /\ Copies(c, q)
      BY <2>2 DEF Members, PathAssumption, CInv
    <3>2. recv'[c][q] = recv[c][q] /\ next'[NodeOf[c]] >= next[NodeOf[c]]
      BY <1>2, <1>3, <2>2, <3>1, Stays
    <3> QED
      BY <1>1, <1>2, <1>4, <1>8, <3>1, <3>2, CopiesKept DEF CInv
  <2> QED
    BY <2>1, <2>2
<1> QED
  BY <1>1, <1>5, <1>6, <1>7, <1>9 DEF CInv, Places

LEMMA IdleCopies ==
  ASSUME CInv, PathAssumption, UNCHANGED vars
  PROVE  CInv'
<1>1. IInv'
  BY NextHolds DEF CInv
<1>2. UNCHANGED <<EnableKafka, unsent, tasks, late, log, next, up, recv>>
  BY DEF vars
<1>3. LogKept /\ log' \in Seq(Sent)
  BY <1>2, Stays
<1>4. OwnOnce' /\ OffsetsFit'
  <2>1. \A k \in Nodes : k \notin up => tasks[k] = {}
    BY DEF CInv, Places, OffsetsFit
  <2>2. \A k \in Nodes : next[k] \in Nat /\ next[k] <= Len(log) + 1 /\ next[k] >= next[k]
    BY Stays
  <2> QED
    BY <1>2, <1>3, <2>1, <2>2, PlacesFewer DEF CInv
<1>5. KafkaOnly'
  BY <1>2 DEF CInv, Places, KafkaOnly
<1>6. ASSUME NEW q \in Msgs PROVE Lands(q)'
  <2>1. Lands(q) /\ Landed(q)' = Landed(q)
    BY <1>2, LandedOther DEF CInv
  <2> QED
    BY <1>2, <2>1, LandsKept
<1>7. Covered
  BY <1>2 DEF Covered
<1>8. \A c \in Conns, q \in Msgs : Copies(c, q)'
  BY <1>1, <1>2, <1>3, <1>7, CopiesOnly, Stays
<1> QED
  BY <1>1, <1>4, <1>5, <1>6, <1>8 DEF CInv, Places

LEMMA CopiesNext == PathAssumption /\ CInv /\ [Next]_vars => CInv'
<1> SUFFICES ASSUME PathAssumption, CInv, [Next]_vars PROVE CInv'
  OBVIOUS
<1>1. ASSUME NEW m \in Msgs, HandleChat(m) \/ BroadcastSystemMsg(m) PROVE CInv'
  BY <1>1, SendCopies
<1>2. ASSUME NEW m \in Msgs, LandsLate(m) PROVE CInv'
  BY <1>2, LandsLateCopies
<1>3. ASSUME NEW n \in Nodes, TaskStep(n) PROVE CInv'
  <2>1. PICK t \in tasks[n] :
          \/ Append1(n, t) \/ PublishDone(n, t) \/ PublishFails(n, t)
          \/ \E c \in Conns : SendToConn(n, t, c)
    BY <1>3 DEF TaskStep
  <2> QED
    BY <2>1, PublishCopies, SendToConnCopies
<1>4. ASSUME NEW n \in Nodes, Consume(n) \/ ReadFails(n) \/ Crash(n) \/ Start(n) PROVE CInv'
  BY <1>4, ConsumeCopies, CrashCopies, StartCopies
<1>5. CASE UNCHANGED vars
  BY <1>5, IdleCopies
<1> QED
  BY <1>1, <1>2, <1>3, <1>4, <1>5 DEF Next

LEMMA CopiesFew ==
  ASSUME CInv, PathAssumption
  PROVE  CopiesBounded
<1> SUFFICES ASSUME NEW c \in Conns, NEW m \in Msgs PROVE recv[c][m] <= Sends(m, c)
  BY DEF CopiesBounded
<1>1. PICK L : L = Logged(m)
  OBVIOUS
<1>2. PICK S : S = Sources(c, m)
  OBVIOUS
<1>3. PICK A : A = Ahead(c, m)
  OBVIOUS
<1>4. IsFiniteSet(L) /\ IsFiniteSet(S) /\ A \subseteq S
  BY <1>1, <1>2, <1>3, Sets DEF CInv
<1>5. /\ Cardinality(L) \in Nat /\ Cardinality(S) \in Nat /\ Cardinality(A) \in Nat
  BY <1>4, FS_Subset, FS_CardinalityType
<1>6. PICK r \in Nat : r = recv[c][m]
  BY DEF CInv, IInv, Typed
<1>7. r + Cardinality(A) <= Cardinality(S)
  BY <1>2, <1>3, <1>6 DEF CInv, Copies
<1>8. r <= Cardinality(S)
  BY <1>5, <1>7
<1>9. Cardinality(L) <= Writes(m) /\ Writes(m) \in Nat
  <2>1. Lands(m) /\ late[m] \in Nat /\ Writes(m) \in Nat
    BY LandedNat, WritesNat DEF CInv
  <2>2. Cardinality(L) + late[m] <= Writes(m)
    BY <1>1, <2>1 DEF Lands, Landed
  <2> QED
    BY <1>5, <2>1, <2>2
<1> PICK W \in Nat : W = WriterAttempts
  BY Numbers
<1>10. Writes(m) = IF m \in Special THEN 3 * W ELSE W
  <2>1. Tries(m) - 1 = IF m \in Special THEN 2 ELSE 0
    BY DEF Tries, maxRetryCount
  <2> QED
    BY <2>1, Numbers DEF Writes
<1>11. Sends(m, c) = CASE m \in Special -> 3 * W
                       [] m \in Sysmsgs /\ CallerOf[m] = NodeOf[c] -> W + 1
                       [] OTHER -> W
  BY DEF Sends, maxRetryCount
<1>12. m \in Sysmsgs => m \notin Special
  BY DEF PathAssumption
<1>13. CASE Local(m, NodeOf[c])
  <2>1. S = L \cup {0}
    BY <1>1, <1>2, <1>13 DEF Sources
  <2>2. Cardinality(S) <= Cardinality(L) + 1
    BY <1>4, <1>5, <2>1, FS_AddElement
  <2>3. CASE m \in Sysmsgs /\ CallerOf[m] = NodeOf[c]
    <3>1. Writes(m) = W /\ Sends(m, c) = W + 1
      BY <1>10, <1>11, <1>12, <2>3
    <3> QED
      BY <1>5, <1>6, <1>8, <1>9, <2>2, <3>1
  <2>4. CASE ~(m \in Sysmsgs /\ CallerOf[m] = NodeOf[c])
    <3>1. L = {}
      <4>1. log = <<>>
        BY <1>13, <2>4 DEF Local, CInv, Places, KafkaOnly
      <4> QED
        BY <1>1, <4>1 DEF Logged
    <3>2. Cardinality(L) = 0
      BY <3>1, FS_EmptySet
    <3>3. Sends(m, c) = Writes(m) /\ Writes(m) >= 1
      BY <1>10, <1>11, <2>4, Numbers
    <3> QED
      BY <1>5, <1>6, <1>8, <1>9, <2>2, <3>2, <3>3
  <2> QED
    BY <2>3, <2>4
<1>14. CASE ~Local(m, NodeOf[c])
  <2>1. S = L
    BY <1>1, <1>2, <1>14 DEF Sources
  <2>2. Sends(m, c) = Writes(m)
    BY <1>14, <1>10, <1>11 DEF Local
  <2> QED
    BY <1>5, <1>6, <1>8, <1>9, <2>1, <2>2
<1> QED
  BY <1>13, <1>14

\* A connection gets no more copies of a message than the Writer may write it
\* for each attempt of publishWithRetry, and of a system message one more on its
\* own node, whatever times out, is written twice, lands late, crashes or is read
\* again (producer.go:38-45, :88-117, app.go:684-700).
THEOREM CopiesSafe == Spec => []CopiesBounded
<1>1. CInv => CopiesBounded
  BY CopiesFew, PathAssumption
<1>2. CInv /\ [Next]_vars => CInv'
  BY CopiesNext, PathAssumption
<1> QED
  BY CopiesInit, <1>1, <1>2, PTL DEF Spec
=============================================================================
