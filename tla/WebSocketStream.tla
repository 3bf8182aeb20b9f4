-------------------------- MODULE WebSocketStream --------------------------
(***************************************************************************)
(* What a connection makes of its bytes: handleHandshake and               *)
(* handleWebSocketTraffic (internal/server/event_handler.go) with          *)
(* DecodeWebSocketFrames (websocket.go), and what it sends back.           *)
(*                                                                         *)
(* A client sends a handshake request, waits for the answer and sends its  *)
(* frames; TCP delivers the bytes in pieces of any size up to gnet's read  *)
(* buffer.  A frame is its header; of the payload, which is unmasked and   *)
(* handed on as it is, only the close code matters.                        *)
(***************************************************************************)
EXTENDS Frames, FiniteSets, FiniteSetsExt, SequencesExt

CONSTANTS
  MaxPayload,   \* MaxWebSocketPayloadSize (64 KB)
  MaxHandshake, \* limit of HandshakeBuffer (4096)
  MaxBuffer,    \* limit of ReadBuffer (130 KB)
  ReadCap,      \* gnet's read buffer (64 KB)
  ClientFrames, \* the frames clients send
  MaxFrames,    \* bound: frames a client sends
  PushLengths,  \* lengths of broadcasts and error messages
  MaxPushes     \* bound: broadcasts and error messages

Opcodes ==
  {"continuation", "text", "binary", "reserved", "close", "ping", "pong", "reservedControl"}
Control == {"close", "ping", "pong", "reservedControl"}

\* code: the first two bytes of the payload of a close frame.
FrameType ==
  [op : Opcodes, fin : BOOLEAN, rsv : BOOLEAN, masked : BOOLEAN,
   field : Seq(Byte), code : Nat]

MaskSize == 4
MaxFrame == 10 + MaskSize + MaxPayload

ASSUME StreamAssumption ==
  /\ MaxPayload \in Nat /\ MaxHandshake \in Nat \ {0} /\ MaxBuffer \in Nat
  /\ ReadCap \in Nat \ {0} /\ MaxFrames \in Nat /\ MaxPushes \in Nat
  /\ PushLengths \subseteq 0..MaxInt32
  /\ \A f \in ClientFrames : f \in FrameType /\ IsLengthField(f.field)

\* MaxFrame - 1 bytes of a frame may be left over when the next piece comes.
ASSUME BufferAssumption == MaxFrame - 1 + ReadCap <= MaxBuffer

\* What decodeOneFrame refuses by the first two bytes.
BadHeader(f) ==
  \/ f.rsv \/ ~f.fin \/ ~f.masked
  \/ f.op \in {"continuation", "reserved", "reservedControl"}
  \/ f.op \in Control /\ f.field[1] > 125

\* What it refuses by the length.
BadLength(f) == TooLong(f.field) \/ AnnouncedLength(f.field) > MaxPayload

Legal(f) == ~BadHeader(f) /\ ~BadLength(f)

\* The bytes of a frame; of one that is refused by its length, those up to the mask.
Size(f) ==
  1 + Len(f.field) + MaskSize + (IF BadLength(f) THEN 0 ELSE AnnouncedLength(f.field))

Request == [size : 1..(MaxHandshake + 1), valid : BOOLEAN]

VARIABLES
  request, frames,  \* what the client sends
  ends,             \* how many bytes the first i frames take, for each i
  HandshakeDone,
  received,         \* bytes received of the request, later of the frames
  consumed,         \* bytes of the frames taken out of ReadBuffer
  pending,          \* the decoded frames the callback has still to look at, by number
  handled,          \* observer: those it answered, handed to the pool or had nothing to do for
  dropped,          \* observer: those the pool refused
  outbound,         \* the frames queued for the client
  pushed,           \* observer: the lengths of the broadcasts among them
  closing,          \* a callback has returned gnet.Close
  closed

input == <<request, frames, ends>>
progress == <<pending, handled, dropped>>
vars == <<input, HandshakeDone, received, consumed, progress, outbound, pushed, closing, closed>>

Ends(s) ==
  LET end[i \in 0..Len(s)] == IF i = 0 THEN 0 ELSE end[i - 1] + Size(s[i]) IN end

\* What follows a frame that is refused makes no difference.
Init ==
  /\ request \in Request
  /\ frames \in {s \in BoundedSeq(ClientFrames, MaxFrames) :
                   \A i \in 1..(Len(s) - 1) : Legal(s[i])}
  /\ ends = Ends(frames)
  /\ HandshakeDone = FALSE /\ received = 0 /\ consumed = 0
  /\ pending = <<>> /\ handled = <<>> /\ dropped = {}
  /\ outbound = <<>> /\ pushed = <<>> /\ closing = FALSE /\ closed = FALSE

\* The bytes before frame i.
Start(i) == ends[i - 1]

-----------------------------------------------------------------------------
(* The handshake. *)

\* The client sends nothing more before the answer.
OnTrafficHandshake(k) ==
  /\ ~closing /\ ~HandshakeDone
  /\ k <= request.size - received
  /\ IF received + k > MaxHandshake \/ (received + k = request.size /\ ~request.valid)
     THEN closing' = TRUE /\ UNCHANGED <<HandshakeDone, received>>
     ELSE /\ HandshakeDone' = (received + k = request.size)
          /\ received' = IF HandshakeDone' THEN 0 ELSE received + k
          /\ UNCHANGED closing
  /\ UNCHANGED <<input, consumed, progress, outbound, pushed, closed>>

-----------------------------------------------------------------------------
(* The frames. *)

\* decodeOneFrame refuses a frame as soon as the bytes that tell are there.
Refused(i, n) ==
  \/ BadHeader(frames[i]) /\ Start(i) + 2 <= n
  \/ BadLength(frames[i]) /\ Start(i) + 1 + Len(frames[i].field) <= n

\* DecodeWebSocketFrames: the frames that are complete when n bytes have come.
Decoded(n) == {i \in DOMAIN frames : Start(i) >= consumed /\ ends[i] <= n}

\* Variant: the consumed bytes stay in the buffer.
ConsumedKept(n) == consumed

Consumed(n) == IF Decoded(n) = {} THEN consumed ELSE ends[Max(Decoded(n))]

InOrder(s) ==
  CHOOSE q \in [1..Cardinality(s) -> s] :
    \A k, l \in DOMAIN q : k < l => q[k] < q[l]

\* Variant: a buffer that is full counts as too long.
OverLimitEarly(n) == n - consumed >= MaxBuffer

OverLimit(n) == n - consumed > MaxBuffer

\* buildServerFrame: no mask, and always FIN.
ServerFrame(op, len, code) == [op |-> op, field |-> LengthField(len), code |-> code]

\* Variant: the code of the client is not looked at.
CloseCodeNormal(f) == 1000

CloseCode(f) == IF AnnouncedLength(f.field) >= 2 THEN f.code ELSE 1000

\* A ping is answered with its payload, a close frame with its code.
Reply(f) ==
  IF f.op = "ping" THEN ServerFrame("pong", AnnouncedLength(f.field), 0)
  ELSE ServerFrame("close", 2, CloseCode(f))

\* A piece of k bytes is decoded; an error closes the connection and drops the
\* frames decoded before it.
OnTrafficFrames(k) ==
  LET n == received + k IN
  /\ ~closing /\ HandshakeDone /\ pending = <<>>
  /\ n <= ends[Len(frames)]
  /\ received' = n
  /\ IF OverLimit(n) \/ \E i \in DOMAIN frames : Start(i) >= consumed /\ Refused(i, n)
     THEN closing' = TRUE /\ UNCHANGED <<consumed, pending>>
     ELSE /\ consumed' = Consumed(n)
          /\ pending' = InOrder(Decoded(n))
          /\ UNCHANGED closing
  /\ UNCHANGED <<input, HandshakeDone, handled, dropped, outbound, pushed, closed>>

\* The callback goes through the decoded frames, and each answer is queued with
\* an AsyncWrite of its own.
Frame == frames[Head(pending)]

AnswerPing ==
  /\ pending # <<>> /\ Frame.op = "ping"
  /\ outbound' = Append(outbound, Reply(Frame))
  /\ handled' = Append(handled, Head(pending))
  /\ pending' = Tail(pending)
  /\ UNCHANGED <<input, HandshakeDone, received, consumed, dropped, pushed, closing, closed>>

\* Variant: the frames after a close frame are handled too.
AnswerCloseAndGoOn ==
  /\ pending # <<>> /\ Frame.op = "close"
  /\ outbound' = Append(outbound, Reply(Frame))
  /\ handled' = Append(handled, Head(pending))
  /\ pending' = Tail(pending)
  /\ closing' = TRUE
  /\ UNCHANGED <<input, HandshakeDone, received, consumed, dropped, pushed, closed>>

\* What was decoded behind a close frame is forgotten.
AnswerClose ==
  /\ pending # <<>> /\ Frame.op = "close"
  /\ outbound' = Append(outbound, Reply(Frame))
  /\ handled' = Append(handled, Head(pending))
  /\ pending' = <<>>
  /\ closing' = TRUE
  /\ UNCHANGED <<input, HandshakeDone, received, consumed, dropped, pushed, closed>>

\* Variant: a refusal ends the callback.
SubmitOrReturn ==
  /\ pending # <<>> /\ Frame.op = "binary"
  /\ \/ /\ handled' = Append(handled, Head(pending))
        /\ pending' = Tail(pending)
        /\ UNCHANGED dropped
     \/ /\ dropped' = dropped \cup {Head(pending)}
        /\ pending' = <<>>
        /\ UNCHANGED handled
  /\ UNCHANGED <<input, HandshakeDone, received, consumed, outbound, pushed, closing, closed>>

\* The pool does not block: it takes a task or refuses it, and the frame is lost.
SubmitBinary ==
  /\ pending # <<>> /\ Frame.op = "binary"
  /\ \/ handled' = Append(handled, Head(pending)) /\ UNCHANGED dropped
     \/ dropped' = dropped \cup {Head(pending)} /\ UNCHANGED handled
  /\ pending' = Tail(pending)
  /\ UNCHANGED <<input, HandshakeDone, received, consumed, outbound, pushed, closing, closed>>

\* The switch has no case for a text frame or a pong.
PassOver ==
  /\ pending # <<>> /\ Frame.op \notin {"ping", "close", "binary"}
  /\ handled' = Append(handled, Head(pending))
  /\ pending' = Tail(pending)
  /\ UNCHANGED <<input, HandshakeDone, received, consumed, dropped, outbound, pushed, closing, closed>>

\* gnet closes the connection when the callback that asked for it has returned.
LoopCloses ==
  /\ closing /\ ~closed /\ closed' = TRUE
  /\ UNCHANGED <<input, HandshakeDone, received, consumed, progress, outbound, pushed, closing>>

\* A pool goroutine queues a broadcast or an error message at any moment before that,
\* behind an answer to a close frame too.
Push(len) ==
  /\ ~closed /\ HandshakeDone /\ Len(pushed) < MaxPushes
  /\ outbound' = Append(outbound, ServerFrame("binary", len, 0))
  /\ pushed' = Append(pushed, len)
  /\ UNCHANGED <<input, HandshakeDone, received, consumed, progress, closing, closed>>

Next ==
  \/ \E k \in 1..ReadCap : OnTrafficHandshake(k) \/ OnTrafficFrames(k)
  \/ AnswerPing \/ AnswerClose \/ SubmitBinary \/ PassOver \/ LoopCloses
  \/ \E len \in PushLengths : Push(len)

Spec == Init /\ [][Next]_vars

-----------------------------------------------------------------------------
(* Properties. *)

\* The state is well typed: nothing is taken out of the buffer that has not come
\* (event_handler.go:163-167).
TypeOK ==
  /\ request \in Request /\ frames \in Seq(ClientFrames)
  /\ ends \in [0..Len(frames) -> Nat]
  /\ HandshakeDone \in BOOLEAN /\ closing \in BOOLEAN /\ closed \in BOOLEAN
  /\ received \in Nat /\ consumed \in 0..received
  /\ pending \in Seq(DOMAIN frames) /\ handled \in Seq(DOMAIN frames)
  /\ dropped \subseteq DOMAIN frames
  /\ pushed \in Seq(PushLengths)
  /\ outbound \in Seq([op : {"pong", "close", "binary"}, field : Seq(Byte), code : Nat])

CompleteUpTo(n) == Cardinality({i \in DOMAIN frames : ends[i] <= n})

\* However the bytes are cut into pieces, a connection that stays open and waits for
\* the next piece has handled the frames that have come, each once and in order,
\* but for those the pool refused (event_handler.go:150-167, websocket.go:118-136).
CaughtUp ==
  ~closing /\ HandshakeDone /\ pending = <<>> =>
    handled = InOrder((1..CompleteUpTo(received)) \ dropped)

\* At any moment, and however a connection ended, the frames that were handled or
\* refused by the pool are a beginning of what was sent, in order; only binary
\* frames are refused, and nothing follows a close frame
\* (event_handler.go:169-207).
HandledInOrder ==
  \E m \in 0..Len(frames) :
    /\ handled = InOrder((1..m) \ dropped)
    /\ dropped \subseteq {i \in 1..m : frames[i].op = "binary"}
    /\ \A i \in 1..m : frames[i].op = "close" => i = m

\* A client that sends a valid request and valid frames is never closed: the
\* limit of the read buffer is not reached by what one read adds to an
\* unfinished frame (event_handler.go:153-156).
ClosedForCause ==
  closing => \/ ~request.valid \/ request.size > MaxHandshake
             \/ \E i \in DOMAIN frames : frames[i].op = "close" \/ ~Legal(frames[i])

\* The lengths a client would read out of the queued headers of a kind.
OfKind(op) == InOrder({k \in DOMAIN outbound : outbound[k].op = op})
Queue(op) == [k \in DOMAIN OfKind(op) |-> AnnouncedLength(outbound[OfKind(op)[k]].field)]

Gone(op) == {i \in Range(handled) : frames[i].op = op}

\* Among whatever pool goroutines queue before, between and behind them, there is
\* queued a pong of the same length for each ping that was handled, in order, and
\* each broadcast is as long as it was made; a close frame that was handled is
\* answered once, with its own code, and no pong comes after that
\* (event_handler.go:171-184, frame.go:43-60).
RepliesQueued ==
  /\ LET pings == InOrder(Gone("ping")) IN
       Queue("pong") = [k \in DOMAIN pings |-> AnnouncedLength(frames[pings[k]].field)]
  /\ Queue("binary") = pushed
  /\ LET closes == {k \in DOMAIN outbound : outbound[k].op = "close"} IN
       /\ closes # {} <=> Gone("close") # {}
       /\ \A k \in closes :
            /\ \A l \in (k + 1)..Len(outbound) : outbound[l].op = "binary"
            /\ \A i \in Gone("close") : Size(frames[i]) >= 8 => outbound[k].code = frames[i].code
=============================================================================
