---------------------------- MODULE MessagePath ----------------------------
(***************************************************************************)
(* A message on its way through the cluster: handleChat or                 *)
(* BroadcastSystemMsg on one node (internal/app/app.go), Producer.Publish  *)
(* (internal/mq/producer.go), the Kafka partition of the room, every       *)
(* node's own consumer group, the worker pool of each node and             *)
(* BroadcastLocal to the room's connections (internal/broadcast).          *)
(*                                                                         *)
(* One room, whose members do not change: joining and leaving is           *)
(* RoomManager's and ConnLifecycle's business.  Pool goroutines run        *)
(* independently; a publish may time out, kafka-go's Writer tries again    *)
(* within one call, and what had not been written when the call ended may  *)
(* still reach the log later.  A consumed message whose commit fails is    *)
(* lost.  Nodes crash and come back as new processes.                      *)
(* Whether the cluster runs Kafka is its configuration, chosen at Init.    *)
(***************************************************************************)
EXTENDS Naturals, FiniteSets, Sequences

CONSTANTS
  Nodes, Conns,
  NodeOf,        \* the node each connection is on
  ConnIDOf,      \* connctx.ConnID: NextConnID counts from 1 in every process
  Chats, Sysmsgs,
  SenderOf,      \* the connection that sends each chat
  CallerOf,      \* the node BroadcastSystemMsg is called on
  Refused,       \* the chats the rate limiter or the text filter refuses
  Special,       \* messages with MsgType > 0, which handleChat itself leaves 0
  Slow,          \* connections whose write buffer may be over the limits
  PoolSize,      \* goroutines of each node's pool
  WriterAttempts, \* what the Writer's MaxAttempts, left unset, is by default
  Batches,       \* bound: the sets of messages sent in one behaviour
  MaxWrites,     \* bound: writes to the log
  MaxLost,       \* bound: a commit fails only while fewer messages are lost
  MaxCrashes     \* bound: crashes

Msgs == Chats \cup Sysmsgs

ASSUME PathAssumption ==
  /\ NodeOf \in [Conns -> Nodes] /\ SenderOf \in [Chats -> Conns]
  /\ CallerOf \in [Sysmsgs -> Nodes] /\ Chats \cap Sysmsgs = {}
  /\ Refused \subseteq Chats /\ Special \subseteq Chats /\ Slow \subseteq Conns
  /\ Batches \subseteq SUBSET (Chats \cup Sysmsgs)
  /\ PoolSize \in Nat \ {0} /\ WriterAttempts \in Nat \ {0}
  /\ MaxWrites \in Nat /\ MaxLost \in Nat /\ MaxCrashes \in Nat

maxRetryCount == 3

VARIABLES
  EnableKafka,  \* KafkaConfig.EnableKafka: never changes
  unsent,   \* chats and system messages not sent yet
  tasks,    \* per node: the goroutines publishing or broadcasting
  late,     \* per message: the writes that outlive their publish and may still land
  log,      \* the room's partition
  next,     \* per node: the offset its consumer group reads next
  up,       \* the running nodes
  recv,     \* per connection: the copies of each message written to it
  cut,      \* the connections closed because their buffer was full
  dropped,  \* observer, per node: the offsets its full pool has refused, or whose
            \* commit failed
  crashes

vars == <<EnableKafka, unsent, tasks, late, log, next, up, recv, cut, dropped, crashes>>

Members(n) == {c \in Conns : NodeOf[c] = n}

\* write numbers the Writer's next write of the message.
Publishing(m, pooled) ==
  [op |-> "publish", msg |-> m, attempt |-> 0, write |-> 0, pooled |-> pooled]

\* The numbers of an attempt end before the next one's.
WritesUpTo(attempt) == (attempt + 1) * WriterAttempts

\* A broadcast of the log entry at an offset, or of a message kept local (0).
Broadcasting(m, offset, pooled, n) ==
  [op |-> "broadcast", msg |-> m, offset |-> offset, pooled |-> pooled,
   todo |-> Members(n)]

\* ants runs a task at once or, nonblocking, refuses it (pool.go).
PoolFree(n) == Cardinality({t \in tasks[n] : t.pooled}) < PoolSize

Begin(n, t) == tasks' = [tasks EXCEPT ![n] = @ \cup {t}]
Become(n, t, s) == tasks' = [tasks EXCEPT ![n] = (@ \ {t}) \cup {s}]
End(n, t) == tasks' = [tasks EXCEPT ![n] = @ \ {t}]

Sendable(m) ==
  /\ m \in unsent
  /\ \E batch \in Batches : (Msgs \ unsent) \cup {m} \subseteq batch

NoCopies == [m \in Msgs |-> 0]

Init ==
  /\ EnableKafka \in BOOLEAN
  /\ unsent = Msgs
  /\ tasks = [n \in Nodes |-> {}]
  /\ late = NoCopies
  /\ log = <<>>
  /\ next = [n \in Nodes |-> 1]
  /\ up = Nodes
  /\ recv = [c \in Conns |-> NoCopies]
  /\ cut = {} /\ dropped = [n \in Nodes |-> {}]
  /\ crashes = 0

-----------------------------------------------------------------------------
(* Sending. *)

\* Variant: the refusal is answered, and the chat sent on.
HandleChatUnfiltered(m) ==
  LET n == NodeOf[SenderOf[m]] IN
  /\ m \in Chats /\ Sendable(m) /\ n \in up
  /\ unsent' = unsent \ {m}
  /\ IF ~PoolFree(n) THEN UNCHANGED tasks
     ELSE Begin(n, IF EnableKafka THEN Publishing(m, TRUE)
                   ELSE Broadcasting(m, 0, TRUE, n))
  /\ UNCHANGED <<late, log, next, up, recv, cut, dropped, crashes, EnableKafka>>

\* handleChat runs on a pool goroutine; when the pool is full the chat is
\* dropped.  Without Kafka the goroutine broadcasts itself.
HandleChat(m) ==
  LET n == NodeOf[SenderOf[m]] IN
  /\ m \in Chats /\ Sendable(m) /\ n \in up
  /\ unsent' = unsent \ {m}
  /\ IF ~PoolFree(n) \/ m \in Refused THEN UNCHANGED tasks
     ELSE Begin(n, IF EnableKafka THEN Publishing(m, TRUE)
                   ELSE Broadcasting(m, 0, TRUE, n))
  /\ UNCHANGED <<late, log, next, up, recv, cut, dropped, crashes, EnableKafka>>

\* BroadcastSystemMsg runs on its caller's goroutine.
BroadcastSystemMsg(m) ==
  LET n == CallerOf[m] IN
  /\ m \in Sysmsgs /\ Sendable(m) /\ n \in up
  /\ unsent' = unsent \ {m}
  /\ Begin(n, IF EnableKafka THEN Publishing(m, FALSE)
              ELSE Broadcasting(m, 0, FALSE, n))
  /\ UNCHANGED <<late, log, next, up, recv, cut, dropped, crashes, EnableKafka>>

\* WriteMessages: the broker appends the message to the room's partition.  The
\* Writer writes again when the answer is lost, and the broker appends again.
Append1(n, t) ==
  /\ t.op = "publish" /\ t.write < WritesUpTo(t.attempt) /\ Len(log) < MaxWrites
  /\ log' = Append(log, t.msg)
  /\ Become(n, t, [t EXCEPT !.write = @ + 1])
  /\ UNCHANGED <<unsent, late, next, up, recv, cut, dropped, crashes, EnableKafka>>

PublishDone(n, t) ==
  /\ t.op = "publish" /\ t.write > t.attempt * WriterAttempts
  /\ End(n, t)
  /\ UNCHANGED <<unsent, late, log, next, up, recv, cut, dropped, crashes, EnableKafka>>

\* WriteMessages fails or runs into its timeout.  What it had not written may
\* still land, what it had written stays.  publishWithRetry tries again, a
\* system message is broadcast locally, another chat is given up.
PublishFails(n, t) ==
  /\ t.op = "publish"
  /\ late' = [late EXCEPT ![t.msg] = @ + WritesUpTo(t.attempt) - t.write]
  /\ IF t.msg \in Special /\ t.attempt + 1 < maxRetryCount
     THEN Become(n, t, [t EXCEPT !.attempt = @ + 1, !.write = WritesUpTo(t.attempt)])
     ELSE IF t.msg \in Sysmsgs
     THEN Become(n, t, Broadcasting(t.msg, 0, FALSE, n))
     ELSE End(n, t)
  /\ UNCHANGED <<unsent, log, next, up, recv, cut, dropped, crashes, EnableKafka>>

\* The Writer goes on when the call that waited for it has ended.
LandsLate(m) ==
  /\ late[m] > 0 /\ Len(log) < MaxWrites
  /\ late' = [late EXCEPT ![m] = @ - 1]
  /\ log' = Append(log, m)
  /\ UNCHANGED <<unsent, tasks, next, up, recv, cut, dropped, crashes, EnableKafka>>

-----------------------------------------------------------------------------
(* Consuming and broadcasting. *)

\* Variant: the offset is not committed with the read.
ConsumeUncommitted(n) ==
  /\ n \in up /\ EnableKafka /\ next[n] <= Len(log)
  /\ PoolFree(n) /\ Begin(n, Broadcasting(log[next[n]], next[n], TRUE, n))
  /\ UNCHANGED <<next, unsent, late, log, up, recv, cut, dropped, crashes, EnableKafka>>

\* ReadMessage commits the offset; the handler submits the broadcast to the
\* pool and ignores the error of a full one.
Consume(n) ==
  /\ n \in up /\ EnableKafka /\ next[n] <= Len(log)
  /\ next' = [next EXCEPT ![n] = @ + 1]
  /\ \/ /\ PoolFree(n)
        /\ Begin(n, Broadcasting(log[next[n]], next[n], TRUE, n))
        /\ UNCHANGED dropped
     \/ /\ ~PoolFree(n)
        /\ dropped' = [dropped EXCEPT ![n] = @ \cup {next[n]}]
        /\ UNCHANGED tasks
  /\ UNCHANGED <<unsent, late, log, up, recv, cut, crashes, EnableKafka>>

\* ReadMessage has fetched a message and cannot commit it: it returns the error
\* and no message, and the next read goes on behind it.
ReadFails(n) ==
  /\ n \in up /\ EnableKafka /\ next[n] <= Len(log)
  /\ \A k \in Nodes : Cardinality(dropped[k]) < MaxLost
  /\ next' = [next EXCEPT ![n] = @ + 1]
  /\ dropped' = [dropped EXCEPT ![n] = @ \cup {next[n]}]
  /\ UNCHANGED <<unsent, tasks, late, log, up, recv, cut, crashes, EnableKafka>>

\* Variant: nobody is the sender.
IsSenderNever(m, c) == FALSE

\* SenderConnId of a system message is "SYSTEM", which is no connection's.
IsSender(m, c) == m \in Chats /\ ConnIDOf[SenderOf[m]] = ConnIDOf[c]

\* Variant: a skipped connection stops the loop over the room.
SendToConnStops(n, t, c) ==
  /\ t.op = "broadcast" /\ c \in t.todo
  /\ IF IsSender(t.msg, c) THEN End(n, t) /\ UNCHANGED recv
     ELSE /\ recv' = [recv EXCEPT ![c][t.msg] = @ + 1]
          /\ IF t.todo = {c} THEN End(n, t)
             ELSE Become(n, t, [t EXCEPT !.todo = @ \ {c}])
  /\ UNCHANGED <<unsent, late, log, next, up, cut, dropped, crashes, EnableKafka>>

\* BroadcastLocal visits each member once, in any order.  One whose buffer is
\* over a limit is skipped, or closed, and gets nothing from then on.
SendToConn(n, t, c) ==
  /\ t.op = "broadcast" /\ c \in t.todo
  /\ \/ c \in Slow /\ cut' \in {cut, cut \cup {c}} /\ UNCHANGED recv
     \/ IsSender(t.msg, c) /\ UNCHANGED <<recv, cut>>
     \/ /\ ~IsSender(t.msg, c) /\ c \notin cut
        /\ recv' = [recv EXCEPT ![c][t.msg] = @ + 1] /\ UNCHANGED cut
  /\ IF t.todo = {c} THEN End(n, t)
     ELSE Become(n, t, [t EXCEPT !.todo = @ \ {c}])
  /\ UNCHANGED <<unsent, late, log, next, up, dropped, crashes, EnableKafka>>

-----------------------------------------------------------------------------
(* Processes. *)

\* A write of the message is at the broker or on its way there.
UnderWay(t, m) ==
  t.op = "publish" /\ t.msg = m /\ t.write < WritesUpTo(t.attempt)

\* It may land although the process is gone.
Crash(n) ==
  /\ n \in up /\ crashes < MaxCrashes
  /\ crashes' = crashes + 1
  /\ up' = up \ {n}
  /\ late' = [m \in Msgs |-> IF \E t \in tasks[n] : UnderWay(t, m) THEN late[m] + 1
                              ELSE late[m]]
  /\ tasks' = [tasks EXCEPT ![n] = {}]
  /\ UNCHANGED <<unsent, log, next, recv, cut, dropped, EnableKafka>>

\* Load draws a new random GroupID, and the reader of a group without an offset
\* begins at the first one, StartOffset being left unset.  The connections are
\* new ones.
Start(n) ==
  /\ n \notin up
  /\ up' = up \cup {n}
  /\ next' = [next EXCEPT ![n] = 1]
  /\ recv' = [c \in Conns |-> IF c \in Members(n) THEN NoCopies ELSE recv[c]]
  /\ cut' = cut \ Members(n)
  /\ dropped' = [dropped EXCEPT ![n] = {}]
  /\ UNCHANGED <<unsent, tasks, late, log, crashes, EnableKafka>>

TaskStep(n) ==
  \E t \in tasks[n] :
    \/ Append1(n, t) \/ PublishDone(n, t) \/ PublishFails(n, t)
    \/ \E c \in Conns : SendToConn(n, t, c)

Next ==
  \/ \E m \in Msgs : HandleChat(m) \/ BroadcastSystemMsg(m)
  \/ \E m \in Msgs : LandsLate(m)
  \/ \E n \in Nodes : TaskStep(n) \/ Consume(n) \/ ReadFails(n) \/ Crash(n) \/ Start(n)

Spec == Init /\ [][Next]_vars

\* Goroutines run on and the reader polls; nothing makes a client send, a late
\* write land or a node crash.
FairSpec == Spec /\ \A n \in Nodes : WF_vars(TaskStep(n)) /\ WF_vars(Consume(n))

-----------------------------------------------------------------------------
(* Properties. *)

InLog(m) == \E i \in DOMAIN log : log[i] = m

\* No connection gets more copies of a message than the Writer may write it, for
\* each attempt of publishWithRetry or for the one of another message, and of a
\* system message one more from the local broadcast after a failed publish,
\* whatever lands late (producer.go:38-45, :88-117, app.go:684-700).
Sends(m, c) ==
  CASE m \in Special -> maxRetryCount * WriterAttempts
    [] m \in Sysmsgs /\ CallerOf[m] = NodeOf[c] -> WriterAttempts + 1
    [] OTHER -> WriterAttempts
CopiesBounded == \A c \in Conns : \A m \in Msgs : recv[c][m] <= Sends(m, c)

\* No connection gets its own chat back, through whatever node and however
\* late it comes round (broadcaster.go:97-100).
NoEcho ==
  \A c \in Conns : \A m \in Chats : recv[c][m] > 0 => SenderOf[m] # c

\* No connection gets what the filter or the limiter refused (app.go:422-458),
\* and another node's messages come only through the log.
OnlyPublished ==
  \A c \in Conns : \A m \in Msgs :
    recv[c][m] > 0 =>
      /\ m \notin Refused
      /\ \/ InLog(m)
         \/ m \in Sysmsgs /\ CallerOf[m] = NodeOf[c]
         \/ ~EnableKafka /\ m \in Chats /\ NodeOf[SenderOf[m]] = NodeOf[c]

\* A member of the room that is not taken for the sender and keeps up has what
\* is in the log, its node is down, or the node's pool refused the broadcast or
\* its reader lost the message with a failed commit.
HasWhatIsLogged(c) ==
  \A m \in Msgs :
    InLog(m) /\ c \notin Slow /\ ~IsSender(m, c) =>
      \/ recv[c][m] > 0
      \/ NodeOf[c] \notin up
      \/ \E i \in dropped[NodeOf[c]] : log[i] = m

\* Messages sent and crashes end, and what is in the log stays there: in the end
\* every connection has it (app.go:213-219, consumer.go:69, 90-101,
\* broadcaster.go:46-51).
Delivered == []<>(\A c \in Conns : HasWhatIsLogged(c))
=============================================================================
