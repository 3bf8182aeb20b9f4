------------------------------ MODULE Consumer ------------------------------
(***************************************************************************)
(* The Kafka consumer of one node (internal/mq/consumer.go): the goroutine *)
(* that runs Start, and Close, called on another goroutine by App.Close.   *)
(*                                                                         *)
(* Messages are numbered in the order of the partition.  A broker may take *)
(* its time over a read or answer it with an error.  Time passes in        *)
(* seconds while the loop reads or sleeps; its other steps take none.  The *)
(* context is context.Background(), which is never cancelled.              *)
(***************************************************************************)
EXTENDS Naturals, Sequences

CONSTANTS
  readTimeout,    \* seconds a read waits for a message (5)
  MaxBackoff,     \* seconds the longest pause takes (30)
  maxRetryCount,  \* where retryCount stops (31)
  MaxMsgs,        \* bound: messages
  MaxFailures     \* bound: failed reads while the same message waits

ASSUME ConsumerAssumption ==
  /\ readTimeout \in Nat \ {0} /\ MaxBackoff \in Nat \ {0}
  /\ maxRetryCount \in Nat \ {0} /\ MaxMsgs \in Nat
  /\ MaxFailures \in Nat

VARIABLES
  pc,          \* where the loop of Start is
  stopCh,      \* "nil" until Start makes it
  readerOpen,  \* the kafka.Reader
  retryCount,
  failed,      \* the last read returned an error
  timer,       \* seconds of the read gone, or of the pause left
  msg,         \* the message in hand, 0 for none
  arrived,     \* messages in the partition
  next,        \* the message the group reads next
  handled,     \* what processMessage was called with
  lost,        \* read, but the commit failed and ReadMessage gave an error
  closing,     \* where Close is
  waited,      \* observer: the seconds the loop has paused while each message was
               \* in the partition, up to the call of Close
  failures     \* observer: the reads that failed meanwhile

observers == <<waited, failures>>
loop == <<stopCh, readerOpen, retryCount, handled, lost, closing>>
vars == <<pc, loop, failed, timer, msg, arrived, next, observers>>

Init ==
  /\ pc = "start" /\ stopCh = "nil" /\ readerOpen = TRUE
  /\ retryCount = 0 /\ failed = FALSE /\ timer = 0 /\ msg = 0
  /\ arrived = 0 /\ next = 1 /\ handled = <<>> /\ lost = {}
  /\ closing = "no"
  /\ waited = [k \in 1..MaxMsgs |-> 0] /\ failures = [k \in 1..MaxMsgs |-> 0]

Waiting == next..arrived

\* A read fails, and the messages s go on waiting.
Fails(s) ==
  /\ pc' = "select" /\ failed' = TRUE
  /\ failures' = [k \in 1..MaxMsgs |-> failures[k] + (IF k \in s THEN 1 ELSE 0)]

\* The bound.
MayFail == \A k \in Waiting : failures[k] < MaxFailures

-----------------------------------------------------------------------------
(* Start. *)

Start ==
  /\ pc = "start"
  /\ pc' = "read" /\ stopCh' = "open" /\ timer' = 0
  /\ UNCHANGED <<readerOpen, retryCount, failed, msg, arrived, next, handled,
                 lost, closing, observers>>

\* ReadMessage takes a message and commits its offset; when the commit fails
\* it returns the error without the message.
ReadMessage ==
  /\ pc = "read" /\ readerOpen /\ Waiting # {}
  /\ next' = next + 1
  /\ \/ msg' = next /\ failed' = FALSE /\ pc' = "select" /\ UNCHANGED <<lost, failures>>
     \/ MayFail /\ Fails(Waiting \ {next}) /\ lost' = lost \cup {next} /\ UNCHANGED msg
  /\ UNCHANGED <<stopCh, readerOpen, retryCount, timer, arrived, handled, closing, waited>>

\* Variant: a read that times out ends the loop.
ReadFailsStops ==
  /\ pc = "read" /\ readerOpen /\ MayFail
  /\ pc' = IF timer = readTimeout THEN "done" ELSE "select"
  /\ failed' = TRUE
  /\ failures' = [k \in 1..MaxMsgs |-> failures[k] + (IF k \in Waiting THEN 1 ELSE 0)]
  /\ UNCHANGED <<loop, timer, msg, arrived, next, waited>>

\* The read times out, or the reader or the broker answers it with an error, at any
\* moment before that.
ReadFails ==
  /\ pc = "read" /\ readerOpen /\ MayFail
  /\ Fails(Waiting)
  /\ UNCHANGED <<loop, timer, msg, arrived, next, waited>>

\* A closed reader answers io.EOF.
ReadClosed ==
  /\ pc = "read" /\ ~readerOpen
  /\ pc' = "select" /\ failed' = TRUE
  /\ UNCHANGED <<loop, timer, msg, arrived, next, observers>>

\* Variant: the message in hand is forgotten.
StopsForgets ==
  /\ pc = "select" /\ stopCh = "closed"
  /\ msg' = 0 /\ pc' = "return"
  /\ UNCHANGED <<loop, failed, timer, arrived, next, observers>>

\* The message in hand is still processed.
Stops ==
  /\ pc = "select" /\ stopCh = "closed"
  /\ pc' = IF msg # 0 THEN "drain" ELSE "return"
  /\ UNCHANGED <<loop, failed, timer, msg, arrived, next, observers>>

\* Variant: the pause doubles without a limit.
BackoffUncapped(n) == 2 ^ (n - 1)

Backoff(n) == IF 2 ^ (n - 1) < MaxBackoff THEN 2 ^ (n - 1) ELSE MaxBackoff

FailedAgain ==
  IF retryCount + 1 > maxRetryCount THEN maxRetryCount ELSE retryCount + 1

Pauses ==
  /\ pc = "select" /\ stopCh # "closed" /\ failed
  /\ pc' = "sleep"
  /\ retryCount' = FailedAgain
  /\ timer' = Backoff(FailedAgain)
  /\ UNCHANGED <<stopCh, readerOpen, failed, msg, arrived, next, handled, lost,
                 closing, observers>>

Wakes ==
  /\ pc = "sleep" /\ timer = 0
  /\ pc' = "read"
  /\ UNCHANGED <<loop, failed, timer, msg, arrived, next, observers>>

Succeeds ==
  /\ pc = "select" /\ stopCh # "closed" /\ ~failed
  /\ pc' = "process" /\ retryCount' = 0
  /\ UNCHANGED <<stopCh, readerOpen, failed, timer, msg, arrived, next, handled,
                 lost, closing, observers>>

ProcessMessage ==
  /\ pc \in {"process", "drain"}
  /\ handled' = Append(handled, msg) /\ msg' = 0 /\ timer' = 0
  /\ pc' = IF pc = "drain" THEN "return" ELSE "read"
  /\ UNCHANGED <<stopCh, readerOpen, retryCount, failed, arrived, next, lost,
                 closing, observers>>

\* The deferred close(c.stopCh) of Start; closing it twice panics.
Return ==
  /\ pc = "return"
  /\ pc' = IF stopCh = "closed" THEN "panicked" ELSE "done"
  /\ stopCh' = "closed"
  /\ UNCHANGED <<readerOpen, retryCount, failed, timer, msg, arrived, next,
                 handled, lost, closing, observers>>

-----------------------------------------------------------------------------
(* Close. *)

CloseSignals ==
  /\ closing = "no" /\ pc # "panicked"
  /\ closing' = "signalled"
  /\ stopCh' = IF stopCh = "nil" THEN "nil" ELSE "closed"
  /\ UNCHANGED <<pc, readerOpen, retryCount, failed, timer, msg, arrived, next,
                 handled, lost, observers>>

CloseReader ==
  /\ closing = "signalled" /\ pc # "panicked"
  /\ closing' = "returned" /\ readerOpen' = FALSE
  /\ UNCHANGED <<pc, stopCh, retryCount, failed, timer, msg, arrived, next,
                 handled, lost, observers>>

-----------------------------------------------------------------------------
(* Time and the broker. *)

Arrives ==
  /\ arrived < MaxMsgs
  /\ arrived' = arrived + 1
  /\ UNCHANGED <<pc, loop, failed, timer, msg, next, observers>>

\* A second passes in a read, however long the broker takes, or in a pause.
Tick ==
  /\ \/ /\ pc = "read" /\ readerOpen /\ timer < readTimeout /\ timer' = timer + 1
        /\ UNCHANGED waited
     \/ /\ pc = "sleep" /\ timer > 0 /\ timer' = timer - 1
        /\ waited' = [k \in 1..MaxMsgs |->
                        waited[k] + (IF k \in Waiting /\ closing = "no" THEN 1 ELSE 0)]
  /\ UNCHANGED <<pc, loop, failed, msg, arrived, next, failures>>

LoopStep ==
  \/ Start \/ ReadMessage \/ ReadFails \/ ReadClosed
  \/ Stops \/ Pauses \/ Wakes \/ Succeeds
  \/ ProcessMessage \/ Return

Next == LoopStep \/ CloseSignals \/ CloseReader \/ Arrives \/ Tick

Spec == Init /\ [][Next]_vars

\* The goroutine is scheduled, time passes, and a Close that began goes on.
FairSpec ==
  Spec /\ WF_vars(LoopStep) /\ WF_vars(Tick) /\ WF_vars(CloseReader)

-----------------------------------------------------------------------------
(* Properties. *)

\* The state is well typed: retryCount stays where consumer.go:93-96 stops it.
TypeOK ==
  /\ pc \in {"start", "read", "select", "sleep", "process", "drain", "return",
             "done", "panicked"}
  /\ stopCh \in {"nil", "open", "closed"}
  /\ readerOpen \in BOOLEAN /\ failed \in BOOLEAN
  /\ retryCount \in 0..maxRetryCount
  /\ timer \in Nat /\ arrived \in Nat /\ (pc = "read" => timer <= readTimeout)
  /\ waited \in [1..MaxMsgs -> Nat] /\ failures \in [1..MaxMsgs -> Nat]
  /\ next \in 1..(arrived + 1) /\ msg \in 0..arrived
  /\ handled \in Seq(1..arrived) /\ lost \subseteq 1..arrived
  /\ closing \in {"no", "signalled", "returned"}

\* Every message that was read is processed once, in the order of the
\* partition, is in hand, or was lost to a failed commit: a Close between any
\* two steps loses nothing that had been read (consumer.go:72-80, 104-109).
ReadIsHandled ==
  /\ \A i, j \in DOMAIN handled : i < j => handled[i] < handled[j]
  /\ \A k \in 1..(next - 1) :
       \/ k = msg \/ k \in lost
       \/ \E i \in DOMAIN handled : handled[i] = k
  /\ msg # 0 => \A i \in DOMAIN handled : handled[i] # msg

\* Reads that fail while nothing is sent make the pauses grow, but a message that comes
\* then sleeps through the rest of one of them only: from its arrival until it is read
\* the loop pauses for no more than one longest pause, and as much again for each read
\* that fails meanwhile, also for the commit of a message before it
\* (consumer.go:67-70, 90-101).
WaitBounded ==
  \A k \in 1..arrived : waited[k] <= MaxBackoff * (failures[k] + 1)

\* As long as nobody calls Close, and reads do not fail for ever, every message is
\* taken in the end (consumer.go:66-109).
Consumed ==
  \A k \in 1..MaxMsgs :
    (arrived >= k) ~>
      (k \in lost \/ (\E i \in DOMAIN handled : handled[i] = k) \/ closing # "no")

\* A Close that found Start's channel ends the loop by a return: consumer.go:127-128
\* calls it graceful and lets it wait for the message being processed.
EndsAfterClose == (closing = "returned" /\ stopCh = "closed") ~> (pc = "done")
=============================================================================
