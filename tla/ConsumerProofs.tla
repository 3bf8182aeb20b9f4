--------------------------- MODULE ConsumerProofs ---------------------------
(***************************************************************************)
(* Proofs about Consumer: for any number of messages and failures, what    *)
(* was read is processed once and in order, in hand, or lost to a failed   *)
(* commit, wherever Close comes in between.                                *)
(*                                                                         *)
(* ReadIsHandled is not inductive: that Append keeps the order and that a  *)
(* read forgets nothing needs InHand, where the loop has a message, and    *)
(* which one.  WaitBounded needs Patience: what of a pause each waiting    *)
(* message has behind it at each place of the loop, and how long a pause   *)
(* of the back-off can be.                                                 *)
(***************************************************************************)
EXTENDS Consumer, TLAPS, FiniteSetTheorems

Holding == pc \in {"process", "drain"} \/ (pc = "select" /\ failed = FALSE)

InHand ==
  /\ Holding => next > 1 /\ msg = next - 1
  /\ ~Holding => msg = 0
  /\ \A i \in DOMAIN handled : handled[i] < next /\ handled[i] # msg

Typed == next \in Nat \ {0} /\ msg \in Nat /\ handled \in Seq(Nat \ {0}) /\ failed \in BOOLEAN

IInv == Typed /\ InHand /\ ReadIsHandled

-----------------------------------------------------------------------------
LEMMA InitHolds == Init => IInv
<1> SUFFICES ASSUME Init PROVE IInv
  OBVIOUS
<1>1. handled = <<>> /\ next = 1 /\ msg = 0 /\ pc = "start" /\ failed = FALSE
  BY DEF Init
<1>2. next \in Nat \ {0} /\ msg \in Nat /\ handled \in Seq(Nat \ {0})
  BY <1>1
<1>3. failed \in BOOLEAN
  BY <1>1
<1> QED
  BY <1>1, <1>2, <1>3 DEF IInv, Typed, InHand, Holding, ReadIsHandled

\* A step that reads and processes nothing keeps the invariant when it keeps
\* the message in hand where it was.
LEMMA QuietHolds ==
  ASSUME IInv, UNCHANGED <<next, msg, handled, lost>>, failed' \in BOOLEAN,
         Holding' <=> Holding
  PROVE  IInv'
<1>1. Typed'
  BY DEF IInv, Typed
<1>2. InHand'
  BY DEF IInv, InHand
<1>3. ReadIsHandled'
  BY DEF IInv, ReadIsHandled
<1> QED
  BY <1>1, <1>2, <1>3 DEF IInv

LEMMA ReadHolds == ASSUME IInv, ReadMessage PROVE IInv'
<1>1. /\ pc = "read" /\ pc' = "select" /\ next' = next + 1 /\ handled' = handled
      /\ \/ msg' = next /\ failed' = FALSE /\ lost' = lost
         \/ msg' = msg /\ failed' = TRUE /\ lost' = lost \cup {next}
  BY DEF ReadMessage, Fails
<1>2. /\ next \in Nat \ {0} /\ handled \in Seq(Nat \ {0}) /\ msg = 0
      /\ \A i \in DOMAIN handled : handled[i] \in Nat /\ handled[i] < next
  BY <1>1 DEF IInv, Typed, InHand, Holding
<1>3. Typed'
  <2>1. next' \in Nat \ {0} /\ msg' \in Nat /\ handled' \in Seq(Nat \ {0})
    BY <1>1, <1>2
  <2>2. failed' \in BOOLEAN
    BY <1>1
  <2> QED
    BY <2>1, <2>2 DEF Typed
<1>4. InHand'
  <2>1. CASE msg' = next /\ failed' = FALSE
    <3>1. Holding' /\ next' > 1 /\ msg' = next' - 1
      BY <1>1, <1>2, <2>1 DEF Holding
    <3>2. \A i \in DOMAIN handled' : handled'[i] < next' /\ handled'[i] # msg'
      BY <1>1, <1>2, <2>1
    <3> QED
      BY <3>1, <3>2 DEF InHand
  <2>2. CASE msg' = msg /\ failed' = TRUE
    <3>1. ~Holding' /\ msg' = 0
      BY <1>1, <1>2, <2>2 DEF Holding
    <3>2. \A i \in DOMAIN handled' : handled'[i] < next' /\ handled'[i] # msg'
      BY <1>1, <1>2, <2>2 DEF IInv, InHand
    <3> QED
      BY <3>1, <3>2 DEF InHand
  <2> QED
    BY <1>1, <2>1, <2>2
<1>5. ReadIsHandled'
  <2>1. \A i, j \in DOMAIN handled' : i < j => handled'[i] < handled'[j]
    BY <1>1 DEF IInv, ReadIsHandled
  <2>2. \A k \in 1..(next' - 1) :
          \/ k = msg' \/ k \in lost' \/ \E i \in DOMAIN handled' : handled'[i] = k
    <3> SUFFICES ASSUME NEW k \in 1..next
                 PROVE  \/ k = msg' \/ k \in lost'
                        \/ \E i \in DOMAIN handled : handled[i] = k
      BY <1>1, <1>2
    <3>1. CASE k = next
      BY <1>1, <3>1
    <3>2. CASE k # next
      <4>1. k \in 1..(next - 1) /\ k # msg
        BY <1>2, <3>2
      <4> QED
        BY <1>1, <4>1 DEF IInv, ReadIsHandled
    <3> QED
      BY <3>1, <3>2
  <2>3. \A i \in DOMAIN handled' : handled'[i] # msg' \/ msg' = 0
    BY <1>1, <1>2
  <2> QED
    BY <2>1, <2>2, <2>3 DEF ReadIsHandled
<1> QED
  BY <1>3, <1>4, <1>5 DEF IInv

LEMMA ProcessHolds == ASSUME IInv, ProcessMessage PROVE IInv'
<1>1. /\ handled' = Append(handled, msg) /\ msg' = 0 /\ UNCHANGED <<next, lost, failed>>
      /\ pc' \in {"return", "read"} /\ Holding
  BY DEF ProcessMessage, Holding
<1>2. /\ next \in Nat \ {0} /\ handled \in Seq(Nat \ {0}) /\ failed \in BOOLEAN
      /\ next > 1 /\ msg \in Nat /\ msg = next - 1
      /\ \A i \in DOMAIN handled : handled[i] < next /\ handled[i] # msg
  BY <1>1 DEF IInv, Typed, InHand
<1>3. /\ handled' \in Seq(Nat \ {0}) /\ DOMAIN handled' = 1..(Len(handled) + 1)
      /\ DOMAIN handled = 1..Len(handled) /\ Len(handled) \in Nat
      /\ handled'[Len(handled) + 1] = msg
      /\ \A i \in DOMAIN handled : handled[i] \in Nat /\ handled'[i] = handled[i]
  BY <1>1, <1>2
<1>4. \A i \in DOMAIN handled : handled[i] < msg
  BY <1>2, <1>3
<1>5. Typed'
  BY <1>1, <1>2, <1>3 DEF Typed
<1>6. InHand'
  <2>1. ~Holding' /\ msg' = 0
    BY <1>1 DEF Holding
  <2>2. \A i \in DOMAIN handled' : handled'[i] < next' /\ handled'[i] # 0
    <3> SUFFICES ASSUME NEW i \in 1..(Len(handled) + 1)
                 PROVE  handled'[i] < next /\ handled'[i] # 0
      BY <1>1, <1>3
    <3>1. CASE i = Len(handled) + 1
      BY <1>2, <1>3, <3>1
    <3>2. CASE i \in DOMAIN handled
      BY <1>2, <1>3, <1>4, <3>2 DEF IInv, InHand
    <3> QED
      BY <1>3, <3>1, <3>2
  <2> QED
    BY <2>1, <2>2 DEF InHand
<1>7. ReadIsHandled'
  <2>1. ASSUME NEW i \in DOMAIN handled', NEW j \in DOMAIN handled', i < j
        PROVE  handled'[i] < handled'[j]
    <3>1. i \in DOMAIN handled
      BY <1>3, <2>1
    <3>2. CASE j = Len(handled) + 1
      BY <1>3, <1>4, <3>1, <3>2
    <3>3. CASE j \in DOMAIN handled
      BY <1>3, <2>1, <3>1, <3>3 DEF IInv, ReadIsHandled
    <3> QED
      BY <1>3, <3>2, <3>3
  <2>2. ASSUME NEW k \in 1..(next - 1), k \notin lost
        PROVE  \E i \in DOMAIN handled' : handled'[i] = k
    <3>1. CASE k = msg
      BY <1>3, <3>1
    <3>2. CASE \E i \in DOMAIN handled : handled[i] = k
      BY <1>3, <3>2
    <3> QED
      BY <2>2, <3>1, <3>2 DEF IInv, ReadIsHandled
  <2> QED
    BY <1>1, <2>1, <2>2 DEF ReadIsHandled
<1> QED
  BY <1>5, <1>6, <1>7 DEF IInv

LEMMA NextHolds == IInv /\ [Next]_vars => IInv'
<1> SUFFICES ASSUME IInv, [Next]_vars PROVE IInv'
  OBVIOUS
<1>1. CASE ReadMessage
  BY <1>1, ReadHolds
<1>2. CASE ProcessMessage
  BY <1>2, ProcessHolds
<1>3. failed \in BOOLEAN
  BY DEF IInv, Typed
<1>4. CASE Start \/ Wakes \/ Return
  <2>1. ~Holding /\ ~Holding' /\ UNCHANGED <<next, msg, handled, lost, failed>>
    BY <1>4 DEF Start, Wakes, Return, loop, Holding
  <2> QED
    BY <1>3, <2>1, QuietHolds
<1>5. CASE ReadFails \/ ReadClosed
  <2>1. ~Holding /\ ~Holding' /\ UNCHANGED <<next, msg, handled, lost>> /\ failed' = TRUE
    BY <1>5 DEF ReadFails, Fails, ReadClosed, loop, Holding
  <2> QED
    BY <2>1, QuietHolds
<1>6. CASE Stops
  <2>1. /\ pc = "select" /\ UNCHANGED <<next, msg, handled, lost, failed>>
        /\ pc' = IF msg # 0 THEN "drain" ELSE "return"
    BY <1>6 DEF Stops, loop
  <2>2. Holding <=> msg # 0
    BY DEF IInv, InHand, Typed
  <2>3. Holding' <=> msg # 0
    BY <2>1 DEF Holding
  <2> QED
    BY <1>3, <2>1, <2>2, <2>3, QuietHolds
<1>7. CASE Pauses \/ Succeeds
  <2>1. UNCHANGED <<next, msg, handled, lost, failed>> /\ (Holding' <=> Holding)
    BY <1>3, <1>7 DEF Pauses, Succeeds, Holding
  <2> QED
    BY <1>3, <2>1, QuietHolds
<1>8. CASE CloseSignals \/ CloseReader \/ Arrives \/ Tick \/ UNCHANGED vars
  <2>1. UNCHANGED <<pc, next, msg, handled, lost, failed>>
    BY <1>8 DEF CloseSignals, CloseReader, Arrives, Tick, loop, vars
  <2>2. Holding' <=> Holding
    BY <2>1 DEF Holding
  <2> QED
    BY <1>3, <2>1, <2>2, QuietHolds
<1> QED
  BY <1>1, <1>2, <1>4, <1>5, <1>6, <1>7, <1>8 DEF Next, LoopStep

\* Every message that was read is processed once, in the order of the
\* partition, is in hand, or was lost to a failed commit, whatever fails and
\* whenever Close is called (consumer.go:72-80, 104-109).
THEOREM ReadSafe == Spec => []ReadIsHandled
<1>1. IInv => ReadIsHandled
  BY DEF IInv
<1> QED
  BY InitHolds, NextHolds, <1>1, PTL DEF Spec

-----------------------------------------------------------------------------
(* Type correctness, and how long a message waits. *)

\* What a message has waited, with what is left of a pause, is covered by the reads
\* that failed; in front of a pause the last of them counts for what is to come.
Patience ==
  /\ WaitBounded
  /\ closing = "no" =>
       /\ readerOpen
       /\ \A k \in Waiting :
            /\ pc = "sleep" => waited[k] + timer <= MaxBackoff * (failures[k] + 1)
            /\ pc = "select" /\ failed => waited[k] <= MaxBackoff * failures[k]
  /\ pc = "sleep" => timer <= MaxBackoff
  /\ arrived <= MaxMsgs
  /\ \A k \in 1..MaxMsgs : k > arrived => waited[k] = 0 /\ failures[k] = 0

Kept == IInv /\ TypeOK /\ Patience

LEMMA PowerOfTwo ==
  ASSUME NEW n \in Nat
  PROVE  2 ^ n \in Nat
<1>1. IsFiniteSet(1..n) /\ Cardinality(1..n) = n
  BY FS_Interval
<1>2. IsFiniteSet(SUBSET (1..n)) /\ Cardinality(SUBSET (1..n)) = 2 ^ n
  BY <1>1, FS_SUBSET
<1> QED
  BY <1>2, FS_CardinalityType

\* No pause is longer than the longest.
LEMMA BackoffBounded ==
  ASSUME NEW n \in Nat \ {0}
  PROVE  Backoff(n) \in 0..MaxBackoff
<1>1. n - 1 \in Nat /\ MaxBackoff \in Nat
  BY ConsumerAssumption
<1>2. PICK p \in Nat : 2 ^ (n - 1) = p
  BY <1>1, PowerOfTwo
<1>3. Backoff(n) = IF p < MaxBackoff THEN p ELSE MaxBackoff
  BY <1>2 DEF Backoff
<1> QED
  BY <1>1, <1>3

LEMMA InitKept == Init => Kept
<1> SUFFICES ASSUME Init PROVE Kept
  OBVIOUS
<1>1. TypeOK
  <2>1. retryCount \in 0..maxRetryCount
    BY ConsumerAssumption DEF Init
  <2>2. handled \in Seq(1..arrived)
    BY DEF Init
  <2>3. readerOpen \in BOOLEAN /\ failed \in BOOLEAN
    BY DEF Init
  <2>4. waited \in [1..MaxMsgs -> Nat] /\ failures \in [1..MaxMsgs -> Nat]
    BY DEF Init
  <2> QED
    BY <2>1, <2>2, <2>3, <2>4 DEF Init, TypeOK
<1>2. Patience
  <2>1. arrived = 0 /\ next = 1 /\ MaxMsgs \in Nat
    BY ConsumerAssumption DEF Init
  <2> QED
    BY <2>1 DEF Init, Patience, WaitBounded, Waiting
<1> QED
  BY <1>1, <1>2, InitHolds DEF Kept

\* The observers only count.
LEMMA Counted ==
  ASSUME TypeOK, [Next]_vars
  PROVE  /\ waited' \in [1..MaxMsgs -> Nat] /\ failures' \in [1..MaxMsgs -> Nat]
<1>1. waited \in [1..MaxMsgs -> Nat] /\ failures \in [1..MaxMsgs -> Nat]
  BY DEF TypeOK
<1>2. \/ UNCHANGED waited
      \/ waited' = [k \in 1..MaxMsgs |->
                      waited[k] + (IF k \in Waiting /\ closing = "no" THEN 1 ELSE 0)]
  BY DEF Next, LoopStep, Start, ReadMessage, ReadFails, ReadClosed, Stops, Pauses, Wakes,
         Succeeds, ProcessMessage, Return, CloseSignals, CloseReader, Arrives, Tick, vars, observers
<1>3. \/ UNCHANGED failures
      \/ \E s : failures' = [k \in 1..MaxMsgs |-> failures[k] + (IF k \in s THEN 1 ELSE 0)]
  BY DEF Next, LoopStep, Start, ReadMessage, ReadFails, ReadClosed, Stops, Pauses, Wakes, Fails,
         Succeeds, ProcessMessage, Return, CloseSignals, CloseReader, Arrives, Tick, vars, observers
<1> QED
  BY <1>1, <1>2, <1>3

LEMMA TypeKept ==
  ASSUME IInv, TypeOK, [Next]_vars
  PROVE  TypeOK'
<1>1. /\ readTimeout \in Nat /\ MaxBackoff \in Nat /\ maxRetryCount \in Nat \ {0}
  BY ConsumerAssumption
<1>2. /\ stopCh \in {"nil", "open", "closed"}
      /\ readerOpen \in BOOLEAN /\ failed \in BOOLEAN
      /\ retryCount \in 0..maxRetryCount
      /\ timer \in Nat /\ arrived \in Nat /\ (pc = "read" => timer <= readTimeout)
      /\ next \in 1..(arrived + 1) /\ msg \in 0..arrived
      /\ handled \in Seq(1..arrived) /\ lost \subseteq 1..arrived
      /\ closing \in {"no", "signalled", "returned"}
  BY DEF TypeOK
<1>0. waited' \in [1..MaxMsgs -> Nat] /\ failures' \in [1..MaxMsgs -> Nat]
  BY Counted
<1>3. CASE ReadMessage
  <2>1. next \in 1..arrived
    BY <1>2, <1>3 DEF ReadMessage, Waiting
  <2>2. /\ msg' = msg \/ msg' = next
        /\ lost' = lost \/ lost' = lost \cup {next}
        /\ next' = next + 1 /\ pc' = "select"
    BY <1>3 DEF ReadMessage, Fails
  <2>3. lost' \subseteq 1..arrived
    BY <1>2, <2>1, <2>2
  <2>4. msg' \in 0..arrived /\ next' \in 1..(arrived + 1)
    BY <1>2, <2>1, <2>2
  <2>5. failed' = FALSE \/ failed' = TRUE
    BY <1>3 DEF ReadMessage, Fails
  <2>6. failed' \in BOOLEAN
    BY <2>5
  <2> QED
    BY <1>0, <1>2, <1>3, <2>2, <2>6, <2>3, <2>4 DEF ReadMessage, TypeOK
<1>4. CASE ProcessMessage
  <2>1. msg \in 1..arrived
    BY <1>2, <1>4 DEF ProcessMessage, IInv, InHand, Holding
  <2>2. handled' \in Seq(1..arrived)
    BY <1>2, <1>4, <2>1 DEF ProcessMessage
  <2>3. pc' \in {"return", "read"} /\ timer' = 0 /\ msg' = 0
    BY <1>4 DEF ProcessMessage
  <2> QED
    BY <1>0, <1>1, <1>2, <1>4, <2>2, <2>3 DEF ProcessMessage, TypeOK
<1>5. CASE Pauses
  <2>1. FailedAgain \in 1..maxRetryCount
    BY <1>1, <1>2 DEF FailedAgain
  <2>2. Backoff(FailedAgain) \in Nat
    BY <2>1, BackoffBounded, <1>1
  <2> QED
    BY <1>0, <1>2, <1>5, <2>1, <2>2 DEF Pauses, TypeOK
<1>6. CASE Start \/ Wakes \/ Succeeds \/ Return
  <2>1. /\ pc' \in {"read", "process", "panicked", "done"}
        /\ stopCh' \in {"nil", "open", "closed"} /\ retryCount' \in {0, retryCount}
        /\ timer' \in {0, timer} /\ (pc' = "read" => timer' = 0)
        /\ UNCHANGED <<readerOpen, failed, arrived, next, msg, handled, lost, closing>>
    BY <1>2, <1>6 DEF Start, Wakes, Succeeds, Return, loop
  <2>2. /\ retryCount' \in 0..maxRetryCount /\ timer' \in Nat
        /\ pc' = "read" => timer' <= readTimeout
    BY <1>1, <1>2, <2>1
  <2> QED
    BY <1>0, <1>2, <2>1, <2>2 DEF TypeOK
<1>7. CASE ReadFails \/ ReadClosed \/ Stops
  <2>1. /\ pc' \in {"select", "drain", "return"}
        /\ UNCHANGED <<loop, timer, msg, arrived, next>>
    BY <1>7 DEF ReadFails, Fails, ReadClosed, Stops
  <2>2. failed' = TRUE \/ failed' = failed
    BY <1>7 DEF ReadFails, Fails, ReadClosed, Stops
  <2>3. failed' \in BOOLEAN
    BY <1>2, <2>2
  <2> QED
    BY <1>0, <1>2, <2>1, <2>3 DEF TypeOK, loop
<1>8. CASE CloseSignals
  <2>1. /\ closing' = "signalled" /\ stopCh' \in {"nil", "open", "closed"}
        /\ UNCHANGED <<pc, readerOpen, retryCount, failed, timer, msg, arrived, next,
                       handled, lost>>
    BY <1>8 DEF CloseSignals
  <2> QED
    BY <1>0, <1>2, <2>1 DEF TypeOK
<1>9. CASE CloseReader
  <2>1. readerOpen' = FALSE /\ closing' = "returned"
    BY <1>9 DEF CloseReader
  <2>2. readerOpen' \in BOOLEAN
    BY <2>1
  <2> QED
    BY <1>0, <1>9, <2>1, <2>2 DEF CloseReader, TypeOK
<1>10. CASE Arrives
  <2>1. /\ arrived' \in Nat /\ 1..arrived \subseteq 1..arrived' /\ 0..arrived \subseteq 0..arrived'
        /\ 1..(arrived + 1) \subseteq 1..(arrived' + 1)
    BY <1>2, <1>10 DEF Arrives
  <2>2. handled \in Seq(1..arrived')
    BY <1>2, <2>1
  <2> QED
    BY <1>0, <1>2, <1>10, <2>1, <2>2 DEF Arrives, TypeOK, loop
<1>11. CASE Tick
  <2>1. timer' \in Nat /\ (pc' = "read" => timer' <= readTimeout)
    BY <1>1, <1>2, <1>11 DEF Tick
  <2> QED
    BY <1>0, <1>2, <1>11, <2>1 DEF Tick, TypeOK, loop
<1>12. CASE UNCHANGED vars
  BY <1>12 DEF vars, loop, observers, TypeOK
<1> QED
  BY <1>3, <1>4, <1>5, <1>6, <1>7, <1>8, <1>9, <1>10, <1>11, <1>12 DEF Next, LoopStep

\* One failure more covers one pause more.
LEMMA Covers ==
  ASSUME NEW n \in Nat
  PROVE  /\ MaxBackoff * n \in Nat /\ MaxBackoff * (n + 1) = MaxBackoff * n + MaxBackoff
         /\ MaxBackoff * (n + 1) \in Nat
<1>1. MaxBackoff \in Nat
  BY ConsumerAssumption
<1> QED
  BY <1>1, SMT

\* Steps that leave the observers and the messages alone.
LEMMA QuietPatience ==
  ASSUME TypeOK, Patience, UNCHANGED <<arrived, waited, failures>>, next' >= next,
         pc' = "sleep" => pc = "sleep" /\ timer' = timer,
         closing' = "no" =>
           /\ closing = "no" /\ readerOpen'
           /\ pc' = "select" /\ failed' => pc = "select" /\ failed,
         next' \in Nat
  PROVE  Patience'
<1>1. WaitBounded'
  BY DEF Patience, WaitBounded
<1>2. arrived \in Nat /\ next \in Nat
  BY DEF TypeOK
<1>3. ASSUME closing' = "no", NEW k \in Waiting'
      PROVE  /\ pc' = "sleep" => waited'[k] + timer' <= MaxBackoff * (failures'[k] + 1)
             /\ pc' = "select" /\ failed' => waited'[k] <= MaxBackoff * failures'[k]
  <2>1. k \in Waiting
    BY <1>2 DEF Waiting
  <2> QED
    BY <1>3, <2>1 DEF Patience
<1> QED
  BY <1>1, <1>3 DEF Patience

\* A read fails, for the messages s that go on waiting.
LEMMA FailsPatience ==
  ASSUME TypeOK, Patience, NEW s, Fails(s), UNCHANGED <<arrived, waited, closing, readerOpen>>,
         s \subseteq 1..arrived, Waiting' \subseteq s, next' \in Nat \ {0}
  PROVE  Patience'
<1>1. /\ waited \in [1..MaxMsgs -> Nat] /\ failures \in [1..MaxMsgs -> Nat] /\ arrived \in Nat
      /\ arrived <= MaxMsgs /\ MaxMsgs \in Nat
  BY ConsumerAssumption DEF TypeOK, Patience
<1>2. /\ pc' = "select"
      /\ \A k \in 1..MaxMsgs : failures'[k] = failures[k] + (IF k \in s THEN 1 ELSE 0)
  BY DEF Fails
<1>3. ASSUME NEW k \in 1..arrived
      PROVE  /\ waited[k] \in Nat /\ failures[k] \in Nat /\ k \in 1..MaxMsgs
             /\ waited[k] <= MaxBackoff * (failures[k] + 1)
  BY <1>1 DEF Patience, WaitBounded
<1>4. WaitBounded'
  <2> SUFFICES ASSUME NEW k \in 1..arrived
               PROVE  waited[k] <= MaxBackoff * (failures'[k] + 1)
    BY DEF WaitBounded
  <2>1. CASE k \in s
    <3>1. failures'[k] = failures[k] + 1 /\ failures[k] \in Nat
      BY <1>2, <1>3, <2>1
    <3>2. MaxBackoff * (failures[k] + 1) \in Nat /\ MaxBackoff \in Nat
      BY <3>1, Covers, ConsumerAssumption
    <3>3. MaxBackoff * (failures'[k] + 1) = MaxBackoff * (failures[k] + 1) + MaxBackoff
      <4>1. failures[k] + 1 \in Nat
        BY <3>1
      <4>2. MaxBackoff * ((failures[k] + 1) + 1) = MaxBackoff * (failures[k] + 1) + MaxBackoff
        BY <4>1, Covers
      <4> QED
        BY <3>1, <4>2
    <3> QED
      BY <1>3, <3>2, <3>3
  <2>2. CASE k \notin s
    <3>1. failures'[k] = failures[k]
      BY <1>2, <1>3, <2>2
    <3> QED
      BY <1>3, <3>1
  <2> QED
    BY <2>1, <2>2
<1>5. ASSUME NEW k \in Waiting'
      PROVE  waited[k] <= MaxBackoff * failures'[k]
  <2>1. k \in s /\ k \in 1..arrived
    BY <1>1, <1>5 DEF Waiting
  <2>2. failures'[k] = failures[k] + 1
    BY <1>2, <1>3, <2>1
  <2> QED
    BY <1>3, <2>1, <2>2
<1>6. \A k \in 1..MaxMsgs : k > arrived => waited[k] = 0 /\ failures'[k] = 0
  <2> SUFFICES ASSUME NEW k \in 1..MaxMsgs, k > arrived PROVE waited[k] = 0 /\ failures'[k] = 0
    OBVIOUS
  <2>1. k \notin s
    BY <1>1
  <2>2. waited[k] = 0 /\ failures[k] = 0
    BY DEF Patience
  <2> QED
    BY <1>2, <2>1, <2>2
<1> QED
  BY <1>1, <1>2, <1>4, <1>5, <1>6 DEF Patience

LEMMA PausesPatience ==
  ASSUME TypeOK, Patience, Pauses
  PROVE  Patience'
<1>1. /\ pc = "select" /\ failed /\ pc' = "sleep" /\ timer' = Backoff(FailedAgain)
      /\ UNCHANGED <<readerOpen, arrived, next, closing, waited, failures>>
  BY DEF Pauses, observers
<1>2. timer' \in 0..MaxBackoff
  <2>1. maxRetryCount \in Nat \ {0} /\ retryCount \in 0..maxRetryCount
    BY ConsumerAssumption DEF TypeOK
  <2>2. FailedAgain \in Nat \ {0}
    BY <2>1 DEF FailedAgain
  <2> QED
    BY <1>1, <2>2, BackoffBounded
<1>3. ASSUME NEW k \in Waiting, closing = "no"
      PROVE  waited[k] + timer' <= MaxBackoff * (failures[k] + 1)
  <2>1. k \in 1..MaxMsgs /\ waited[k] \in Nat /\ failures[k] \in Nat
    <3>1. /\ arrived \in Nat /\ next \in 1..(arrived + 1) /\ arrived <= MaxMsgs /\ MaxMsgs \in Nat
          /\ waited \in [1..MaxMsgs -> Nat] /\ failures \in [1..MaxMsgs -> Nat]
      BY ConsumerAssumption DEF TypeOK, Patience
    <3>2. k \in 1..MaxMsgs
      BY <3>1 DEF Waiting
    <3> QED
      BY <3>1, <3>2
  <2>2. waited[k] <= MaxBackoff * failures[k]
    BY <1>1, <1>3 DEF Patience
  <2>3. MaxBackoff * (failures[k] + 1) = MaxBackoff * failures[k] + MaxBackoff
        /\ MaxBackoff * failures[k] \in Nat /\ MaxBackoff \in Nat
    BY <2>1, Covers, ConsumerAssumption
  <2> QED
    BY <1>2, <2>1, <2>2, <2>3
<1>4. WaitBounded'
  BY <1>1 DEF Patience, WaitBounded
<1>5. pc' = "sleep" /\ timer' <= MaxBackoff /\ pc' # "select"
  BY <1>1, <1>2
<1>6. Waiting' = Waiting
  BY <1>1 DEF Waiting
<1> QED
  BY <1>1, <1>3, <1>4, <1>5, <1>6 DEF Patience

LEMMA ArrivesPatience ==
  ASSUME TypeOK, Patience, Arrives
  PROVE  Patience'
<1>1. /\ arrived < MaxMsgs /\ arrived' = arrived + 1
      /\ UNCHANGED <<pc, failed, timer, readerOpen, next, closing, waited, failures>>
  BY DEF Arrives, loop, observers
<1>2. /\ arrived \in Nat /\ next \in 1..(arrived + 1) /\ timer \in Nat
      /\ MaxMsgs \in Nat
  BY ConsumerAssumption DEF TypeOK
<1>3. waited[arrived + 1] = 0 /\ failures[arrived + 1] = 0
  BY <1>1, <1>2 DEF Patience
<1> DEFINE new == arrived + 1
<1>4. MaxBackoff * 0 = 0 /\ MaxBackoff * (0 + 1) = MaxBackoff /\ MaxBackoff \in Nat
  BY ConsumerAssumption
<1>5. WaitBounded'
  <2> SUFFICES ASSUME NEW k \in 1..(arrived + 1)
               PROVE  waited[k] <= MaxBackoff * (failures[k] + 1)
    BY <1>1 DEF WaitBounded
  <2>1. k \in 1..arrived \/ k = arrived + 1
    BY <1>2
  <2> QED
    BY <1>3, <1>4, <2>1 DEF Patience, WaitBounded
<1>6. ASSUME NEW k \in Waiting', closing = "no"
      PROVE  /\ pc = "sleep" => waited[k] + timer <= MaxBackoff * (failures[k] + 1)
             /\ pc = "select" /\ failed => waited[k] <= MaxBackoff * failures[k]
  <2>1. k \in Waiting \/ k = arrived + 1
    BY <1>1, <1>2 DEF Waiting
  <2>2. CASE k \in Waiting
    BY <1>6, <2>2 DEF Patience
  <2>3. CASE k = arrived + 1
    <3>1. pc = "sleep" => timer <= MaxBackoff
      BY DEF Patience
    <3> QED
      BY <1>2, <1>3, <1>4, <2>3, <3>1
  <2> QED
    BY <2>1, <2>2, <2>3
<1>7. arrived' <= MaxMsgs /\ \A k \in 1..MaxMsgs : k > arrived' => k > arrived
  BY <1>1, <1>2
<1> QED
  BY <1>1, <1>5, <1>6, <1>7 DEF Patience

LEMMA TickPatience ==
  ASSUME TypeOK, Patience, Tick, pc = "sleep"
  PROVE  Patience'
<1>1. /\ timer > 0 /\ timer' = timer - 1
      /\ UNCHANGED <<pc, failed, readerOpen, arrived, next, closing, failures>>
      /\ waited' = [k \in 1..MaxMsgs |->
                      waited[k] + (IF k \in Waiting /\ closing = "no" THEN 1 ELSE 0)]
  BY DEF Tick, loop
<1>2. /\ arrived \in Nat /\ next \in 1..(arrived + 1) /\ timer \in Nat
      /\ MaxMsgs \in Nat /\ MaxBackoff \in Nat /\ arrived <= MaxMsgs
      /\ waited \in [1..MaxMsgs -> Nat] /\ failures \in [1..MaxMsgs -> Nat]
  BY ConsumerAssumption DEF TypeOK, Patience
<1>3. ASSUME NEW k \in 1..arrived
      PROVE  /\ k \in 1..MaxMsgs /\ waited[k] \in Nat /\ failures[k] \in Nat
             /\ MaxBackoff * (failures[k] + 1) \in Nat
             /\ waited'[k] = waited[k] + (IF k \in Waiting /\ closing = "no" THEN 1 ELSE 0)
  <2>1. k \in 1..MaxMsgs
    BY <1>2
  <2>2. failures[k] \in Nat
    BY <1>2, <2>1
  <2> QED
    BY <1>1, <1>2, <2>1, <2>2, Covers
<1>4. ASSUME NEW k \in Waiting, closing = "no"
      PROVE  waited'[k] + timer' <= MaxBackoff * (failures[k] + 1)
  <2>1. k \in 1..arrived
    BY <1>2 DEF Waiting
  <2>2. waited[k] + timer <= MaxBackoff * (failures[k] + 1)
    BY <1>4 DEF Patience
  <2> QED
    BY <1>1, <1>2, <1>3, <1>4, <2>1, <2>2
<1>5. WaitBounded'
  <2> SUFFICES ASSUME NEW k \in 1..arrived
               PROVE  waited'[k] <= MaxBackoff * (failures[k] + 1)
    BY <1>1 DEF WaitBounded
  <2>1. CASE k \in Waiting /\ closing = "no"
    <3>1. waited'[k] + timer' <= MaxBackoff * (failures[k] + 1)
      BY <1>4, <2>1
    <3> QED
      BY <1>1, <1>2, <1>3, <2>1, <3>1
  <2>2. CASE ~(k \in Waiting /\ closing = "no")
    <3>1. waited'[k] = waited[k]
      BY <1>3, <2>2
    <3> QED
      BY <3>1 DEF Patience, WaitBounded
  <2> QED
    BY <2>1, <2>2
<1>6. ASSUME NEW k \in 1..MaxMsgs, k > arrived PROVE waited'[k] = 0 /\ failures[k] = 0
  <2>1. k \notin Waiting
    BY <1>2, <1>6 DEF Waiting
  <2>2. waited[k] = 0 /\ failures[k] = 0
    BY <1>6 DEF Patience
  <2> QED
    BY <1>1, <2>1, <2>2
<1>7. pc' = "sleep" => timer' <= MaxBackoff
  BY <1>1, <1>2 DEF Patience
<1>8. Waiting' = Waiting
  BY <1>1 DEF Waiting
<1> QED
  BY <1>1, <1>2, <1>4, <1>5, <1>6, <1>7, <1>8 DEF Patience

LEMMA PatienceKept ==
  ASSUME TypeOK, Patience, [Next]_vars
  PROVE  Patience'
<1>1. /\ arrived \in Nat /\ next \in 1..(arrived + 1)
      /\ closing = "no" => readerOpen
  BY DEF TypeOK, Patience
<1>2. CASE Start \/ Stops \/ Wakes \/ Succeeds \/ ProcessMessage \/ Return
  <2>1. /\ pc' \notin {"sleep", "select"}
        /\ UNCHANGED <<readerOpen, arrived, next, closing, waited, failures>>
    BY <1>2 DEF Start, Stops, Wakes, Succeeds, ProcessMessage, Return, loop, observers
  <2> QED
    BY <1>1, <2>1, QuietPatience
<1>3. CASE CloseSignals \/ CloseReader
  <2>1. /\ closing' # "no"
        /\ UNCHANGED <<pc, timer, failed, arrived, next, waited, failures>>
    BY <1>3 DEF CloseSignals, CloseReader, observers
  <2> QED
    BY <1>1, <2>1, QuietPatience
<1>4. CASE UNCHANGED vars
  <2>1. UNCHANGED <<pc, timer, failed, readerOpen, arrived, next, closing, waited, failures>>
    BY <1>4 DEF vars, loop, observers
  <2> QED
    BY <1>1, <2>1, QuietPatience
<1>5. CASE ReadClosed
  <2>1. /\ closing' # "no" /\ pc' = "select"
        /\ UNCHANGED <<arrived, next, waited, failures>>
    BY <1>1, <1>5 DEF ReadClosed, loop, observers
  <2> QED
    BY <1>1, <2>1, QuietPatience
<1>6. CASE ReadFails
  <2>1. Fails(Waiting) /\ UNCHANGED <<arrived, next, waited, closing, readerOpen>>
    BY <1>6 DEF ReadFails, loop
  <2>2. Waiting \subseteq 1..arrived /\ Waiting' \subseteq Waiting /\ next' \in Nat \ {0}
    BY <1>1, <2>1 DEF Waiting
  <2> QED
    BY <2>1, <2>2, FailsPatience
<1>7. CASE ReadMessage
  <2>1. /\ next' = next + 1 /\ UNCHANGED <<arrived, waited, closing, readerOpen>>
        /\ \/ pc' = "select" /\ failed' = FALSE /\ UNCHANGED failures
           \/ Fails(Waiting \ {next})
    BY <1>7 DEF ReadMessage
  <2>2. CASE pc' = "select" /\ failed' = FALSE /\ UNCHANGED failures
    BY <1>1, <2>1, <2>2, QuietPatience
  <2>3. CASE Fails(Waiting \ {next})
    <3>1. /\ Waiting \ {next} \subseteq 1..arrived /\ Waiting' \subseteq Waiting \ {next}
          /\ next' \in Nat \ {0}
      BY <1>1, <2>1 DEF Waiting
    <3> QED
      BY <2>1, <2>3, <3>1, FailsPatience
  <2> QED
    BY <2>1, <2>2, <2>3
<1>8. CASE Pauses
  BY <1>8, PausesPatience
<1>9. CASE Arrives
  BY <1>9, ArrivesPatience
<1>10. CASE Tick
  <2>1. CASE pc = "sleep"
    BY <1>10, <2>1, TickPatience
  <2>2. CASE pc # "sleep"
    <3>1. UNCHANGED <<pc, failed, readerOpen, arrived, next, closing, waited, failures>>
          /\ pc = "read"
      BY <1>10, <2>2 DEF Tick, loop
    <3> QED
      BY <1>1, <3>1, QuietPatience
  <2> QED
    BY <2>1, <2>2
<1> QED
  BY <1>2, <1>3, <1>4, <1>5, <1>6, <1>7, <1>8, <1>9, <1>10 DEF Next, LoopStep

LEMMA NextKept == Kept /\ [Next]_vars => Kept'
BY NextHolds, TypeKept, PatienceKept DEF Kept

\* The state is well typed: the retry counter stays within its limit and no
\* message that did not arrive is read or handled (consumer.go:83-109).
THEOREM TypeCorrect == Spec => []TypeOK
<1>1. Kept => TypeOK
  BY DEF Kept
<1> QED
  BY InitKept, NextKept, <1>1, PTL DEF Spec

\* Whatever fails or times out, and however often, the loop does not pause over a
\* waiting message for longer than the longest pause, and as much again for each read
\* that fails meanwhile (consumer.go:67-70, 90-101).
THEOREM WaitSafe == Spec => []WaitBounded
<1>1. Kept => WaitBounded
  BY DEF Kept, Patience
<1> QED
  BY InitKept, NextKept, <1>1, PTL DEF Spec
=============================================================================
