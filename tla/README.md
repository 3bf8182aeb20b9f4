# barrage: a verification development

barrage is a WebSocket "danmaku" (live comment) server: clients connect to a
node, join a room and send chat messages, which the node publishes to Kafka and
every node broadcasts to the members it holds. The code is Go on the event-loop
engine gnet, with a goroutine pool (ants), kafka-go, and etcd or Consul for
service discovery. This directory holds TLA+ models of the parts of it that are
concurrent, distributed or otherwise hard to test, TLC runs that check them on
small instances, and TLAPS proofs of the most important invariants for every
value of the parameters. Paths below are relative to `src/`.

`PROJECT.json` names, for every definition, the lines of code it stands for; for
every property, a mutated definition ("Variant:" in the modules) under which TLC
must find it violated; and every hazard of the code with the properties that
watch it.

## 1. Inventory

| Component | State | Operations | Interacts with |
|---|---|---|---|
| Event handler (`internal/server/event_handler.go`) | `ConnContext` per connection; `CurrConnCount`, `AllConns` of App | `OnOpen`, `OnTraffic`, `OnClose`, one at a time per event-loop | pool (`Submit`), room manager, per-user counts |
| App (`internal/app/app.go`) | `userConnCount`, limiter buckets, banned users | `handleJoinRoom`, `handleChat`, heartbeat, `KickConn`, `KickUser`, `BroadcastSystemMsg`, `BroadcastGlobalSystemMsg`, `Close` | all others; runs on pool goroutines, a ticker goroutine and the caller's |
| Rate limiter (`app.go:87-137`) | tokens and last update per user | `Allow` | wall clock |
| Room manager (`internal/room/manager.go`) | buckets of rooms; per room shard maps, counters, bitmap, idle mark | `AddConnInLoop`, `RemoveConnInLoop`, `Range*`, cleaner | event-loops, pool goroutines, cleaner goroutine |
| Loop registry and dispatcher (`internal/app/loop_*.go`) | loop -> number, number -> loop | `GetOrAssign`, `Bind`, `Dispatch` | joins, kicks, global messages |
| Producer, consumer (`internal/mq`) | Kafka writer; reader, `stopCh`, back-off | `Publish`, `publishWithRetry`, `Start`, `Close` | Kafka, pool |
| Broadcaster (`internal/broadcast`) | none | `BroadcastLocal`, `sendToConn` | room manager, gnet's `AsyncWrite` |
| WebSocket codec (`internal/server/websocket.go`, `protocol/ws`) | handshake and read buffers of the context | handshake, `DecodeWebSocketFrames`, frame builders | event handler |
| Registries and registrar (`internal/registry/service.go`) | the kind configured, lease, `stopCh`, ticker | `NewRegistry`, `Register`, `Heartbeat`, `Deregister`, `Stop` | etcd, Consul, `New`, `Close` |
| Text filter (`internal/filter`) | current word list, time and size of the file loaded | `LoadNow`, `reloadIfChanged`, `Contains` | file system, `handleChat` |
| Configuration, metrics, protobuf, `_deprecated`, test client | | | see section 7 |

What makes it hard, and what each component owes:

* **Connections.** Callbacks of different event-loops run in parallel, join
  requests run on pool goroutines while `OnClose` of the same connection may run
  on its loop, and no lock protects `ConnContext`. Owed: the connection limit,
  exact counters, no user over his limit, nothing left behind by a closed
  connection, silent connections closed.
* **Rooms.** Several loops share a room's counters; the shard maps have no lock
  and rely on a calling contract; the cleaner removes rooms other goroutines
  still hold. Owed: an index that behaves as one atomic map, empty rooms
  collected.
* **Messages.** Publishes time out and land late, pools refuse tasks, nodes crash
  and read the partition again. Owed: bounded copies, no echo, nothing the filter
  refused, delivery.
* **Consumer, registrar, filter.** Loops with time, retries and calls that fail,
  stopped or killed at any point. Owed: nothing read is lost or done twice, the
  dead are forgotten, the last change is loaded.
* **Limiter.** Arithmetic over a wall clock that may be set back. Owed: a bound
  on what passes in any window, and no rejection of the quiet.
* **Codec.** Bytes cut anywhere, lengths in three encodings, answers and
  broadcasts queued by different goroutines. Owed: the same frames, once and in
  order, but for those a full pool refuses, and an answer queued for each that asks.

## 2. Modules

| Module | Models | State and actions |
|---|---|---|
| `ConnLifecycle` | event handler, joins, heartbeat | `phase[c]` is where the callbacks of a connection stand; `job[w]` the request a pool goroutine is in. One action per access to shared state: `OnOpenCount` / `OnOpenRefuse` / `OnOpenRegister`, `OnCloseUnregister` / `Check` / `Unindex` / `Release`, `JoinCheck` / `Count` / `SetUser` / `SetRoom` / `SetLoop` / `Index`, `HeartbeatUnregister` / `HeartbeatClose`. `LoopFree` is gnet's "one callback per loop". |
| `ConnLifecycleProofs` | | theorems |
| `RoomManager` | room index | one action per map access, atomic operation or critical section; a room is an object that goroutines may hold after the bucket has dropped it. `addOnLoop`, chosen in the initial state, says whether callers keep the documented contract (manager.go:143-145) or do what the code does. In both a connection may be asked into one room after another, on two goroutines at once, and be added behind its `OnClose` (`seat`). A data race may abort the process (`Fatal`) or lose the write (`MapWrite`). |
| `RoomIndex` | what `RoomManager` promises | the abstract specification: which rooms list which connection. An entry is made or deleted atomically, only during a call about that connection and room; the cleaner drops a room only while each of its members is in such a call. `RoomManager` implements it (`ImplementsIndex`). |
| `RoomManagerProofs` | | theorems, with the refinement |
| `LoopRouting` | loop registry, dispatcher, kicks, global messages | joins, repeated and overlapping ones of any user, step between the two locks (`work`); a call visits `AllConns` one connection at a time; each loop has a queue of tasks. `Dispatch` and a task's `AsyncWrite` may fail, which their callers ignore (`lost`). |
| `LoopRoutingProofs` | | theorems |
| `RateLimiter` | `RateLimiter.Allow` | buckets, the wall clock (`Tick`, `StepBack`), and an observer that opens a window at any moment and counts what passes. |
| `RateLimiterProofs` | | theorems, also about `TextFilter` |
| `MessagePath` | chat, publish, partition, consume, broadcast | tasks of each node, the log, the writes the Writer makes and repeats within an attempt and those that may still land, offsets read, dropped or lost with a failed commit, buffers over their limits, crashes and restarts. Composes producer, consumer handler, pool and broadcaster over several nodes. |
| `MessagePathProofs` | | theorems |
| `Consumer` | the consumer's loop and `Close` | the program counter of the loop, `stopCh`, back-off timer, messages read, handled and lost; a read times out, fails at any moment, or fails in its commit. |
| `ConsumerProofs` | | theorems |
| `Registrar` | choice of a registry, registration with etcd or Consul | `kind` is the configuration; the program counter of `New`, `Register` and `heartbeatLoop`, lives of lease, keys and Consul service; each call may take any time and fail before or after the registry has done it. |
| `RegistrarProofs` | | theorems |
| `Frames` | the length of a frame on the wire | operators only: what `buildServerFrame` writes and `decodeOneFrame` reads, byte by byte. |
| `WebSocketStream` | `OnTraffic`, the decoder, the replies | what was received, consumed and handled of a stream of frames, cut into pieces of any size; a frame is its header (FIN, RSV, opcode, mask bit, length field) and its close code. The callback goes through the decoded frames one per step (`pending`): a pong or a close frame is queued, a binary frame is taken or refused by the pool (`dropped`). `outbound` is what is queued for the client, by the event-loop and, between its frames and behind its close frame, by pool goroutines (`Push`) until gnet closes the connection. |
| `WebSocketStreamProofs` | | theorems, also about `Frames` |
| `TextFilter` | word list reload | editor (writes, truncates, deletes) and loader interleaved between `Stat`, open, scan and store; a file that changes while it is scanned may give a mixture (`Torn`). |
| `MC*` | | constants for TLC |

Data is abstract throughout: a message is a value with the attributes the code
branches on, a frame its header, a file a version with a size and a time.
Variables marked "observer" record history for properties; no guard reads them.

## 3. Runs

Ten runs that pass and two that show a disagreement between code and comment. Bounds
are chosen so that the named interleavings occur; each takes two minutes or less.

| Run | Bounds | Shows |
|---|---|---|
| `conn_admission` | 3 connections on 2 loops, limit 2, fairness | `AdmissionLimit`, `SlotsConserved` through the add-compare-take-back of OnOpen; `ReachableWhileOpen`, `UnregisteredWhenClosed`; `SilentClosed`. Three connections for two slots are the least with a refusal racing an admission. |
| `conn_joins` | 2 connections with 2 and 1 joins, 2 goroutines, 2 users, limit 1 per user | `UserLimit` under overlapping joins and closes; `RoomIndexReleased` and `UserCountReleased`: what is left behind is only what section 6 describes. |
| `rooms` | 3 connections, 2 on one loop, 2 rooms, 1 goroutine, cleaner, fairness. The contract kept: three joins into one room or one into each of two; the code's callers: two joins into one | `ShardIndexExact`, `LocalCountExact`, `JoinedIsListed`, `ImplementsIndex`, `EmptyRoomsCollected` of the contract, `CountersAgree` of both, races included. Joins may be of one connection or of several. Three objects let two be held while a third is in use. |
| `room_race` (violation) | 1 connection, 1 goroutine, 1 room | `RaceFree` fails: app.go:405 adds on a pool goroutine what manager.go:144 asks to be done on the loop. |
| `rate_limit` | one user (buckets are independent), rate 2, capacity 3, clock up to 4, 6 seconds forward and any steps back | `WindowBound`, `QuietUserPasses`; a bucket's bound (`BurstBounded`) is a theorem. |
| `path` | 2 nodes, 3 connections, one slow; pools of 1; 2 writes of the Writer in an attempt, 3 in all; one message lost by a failed commit; a crash and restart; a gift that is retried, a chat and a refused chat, or a chat and a system message; with and without Kafka; fairness | `CopiesBounded`, `NoEcho`, `OnlyPublished`, `Delivered`. |
| `consumer` | 2 messages, time-out 2, longest pause 4, 2 failed reads while one waits, a Close at any time, fairness | `ReadIsHandled`, `WaitBounded`, `Consumed`. A message behind two failed reads meets three pauses. |
| `consumer_close` (violation) | 1 message | `EndsAfterClose` fails: `Close` closes `stopCh`, `Start` returns and closes it again, and panics (consumer.go:64), where consumer.go:127-128 calls it graceful. |
| `registrar` | every kind of registry; lease and heartbeat of 3 seconds, 4 for Consul's removal, calls of any length, fairness | `DeadIsForgotten`, `Vanishes`: whatever call a node died in, and whether it was stopped or hangs in a call for ever. |
| `loops` | 2 loops with a connection each, 2 users, 2 goroutines, 2 joins of any connection as any user, 2 calls of any kind | `NumbersAgree`, `JoinedIsRouted`, `KickComplete`, `GlobalComplete`. Two calls let one's tasks be in the queues while another visits. |
| `stream_frames` | every sequence of up to 3 frames out of one of each kind the decoder tells apart, payloads up to 2 bytes, reads up to 13, so that one read may bring a frame and a part of the next; any binary frame refused; one broadcast of 125, 126, 65535 or 65536 bytes | `CaughtUp`, `HandledInOrder`, `ClosedForCause`, `RepliesQueued`. |
| `filter` | 4 writes with repeating sizes, truncations before each, one unreadable version, fairness | `UnchangedIsLoaded`, `Converges`. |

The type invariants of `ConnLifecycle` and `RateLimiter`, which the proofs rest on,
and of `TextFilter`, which says that no unreadable version comes into use, are
checked along with these, and theorems too, as are `Registrar`'s, `Consumer`'s,
`RoomManager`'s and `WebSocketStream`'s, which the runs leave out as what says least.
`CHECK_DEADLOCK FALSE` is set where the system really stops: all clients served,
messages sent or processes dead. `TextFilter` never stops and is checked for deadlock.

In `path`, `Batches` lists the sets of messages one behaviour may send: the gift
with its three attempts, a chat with a refused one, or a chat and a system message.
Two kinds together
multiply the states by fifty and add no interaction the properties see, since
messages meet only in the pools and the log. In `WebSocketStream` the limits are
scaled and the encodings are not (a length below 126 that is sent in 16 or 64 bits
is a frame of its own; the boundaries at 126 and 65536 are met in the frames that
are sent); `BufferAssumption` is what relates them (a frame less one byte and one
read fit the limit: 64 KB + 10 + 64 KB <= 130 KB in the code).

## 4. Fairness

* Callbacks, goroutines and timers that have begun go on: weak fairness of a
  thread's next step (Go's scheduler is fair, no lock is held across a blocking
  call of these parts).
* A requested close is processed by its loop although other callbacks keep the
  loop busy: strong fairness of `OnCloseUnregister` once `closeReq` is set
  (gnet queues the request; the queue is served in order).
* The cleaner's ticker visits every room again and again, and idle time passes
  between visits: strong fairness of `CleanLock` and `Age`.
* `select` takes `stopCh` in the end when a tick is ready every time too: strong
  fairness of `Stopped` in `Registrar` (Go's select picks at random). Of the
  registry only that time passes and that it removes what is due; no call of the
  node has to return, since their context has no deadline.
* Nothing makes a client send or close, an administrator call, a late write
  land, a read or a commit fail, a node crash, or an editor write. In `Consumer`
  reads fail a bounded number of times while a message waits (`MaxFailures`), so
  `Consumed` is about a broker that answers in the end.

## 5. Proofs

Checked by TLAPS for every value of the constants that satisfies the named
assumptions of the modules:

* `ConnLifecycleProofs`: `TypeCorrect`, `AdmissionSafe` (at most `MaxConns`
  admitted however many connections race), `SlotsSafe` (the counter counts the
  slots held), `TableSafe` and `UnregisteredSafe` (what `AllConns` lists),
  `UserLimitSafe` (no user over `MaxConnsPerUser`), `IndexReleased` (no room lists a
  closed connection that was patient), `UserCountSafe` (what a user is charged is
  given back). Assumptions: connections and
  goroutines are finite sets and disjoint, each connection has one loop, limits
  are natural numbers. `AdmissionLimit` is not inductive: it needs
  `SlotsConserved`, the counter being the number of holders, transient holders of
  refused opens included. `UserLimit` counts connections, the code counts
  charges; `UserBacked` says that every connection that carries a user, and every
  join that was counted and has not yet written `UserID`, backs a charge of its
  own (`Tokens`), so a join that overwrites the user, a close that runs in
  between and a second join can only leave the count too high, never too low.
  `JobsSound` and `CtxSound` say which phases and ids go together. `IInv` is the
  conjunction; the proof has a step for each action and conjunct.
  `RoomIndexReleased` needs `Traced` beside it: the one request of a patient
  connection has one holder, its place tells which ids the context has, and the
  entry it leaves is the one the context names; what other connections do frames
  it (`TracedKept`). `UserCountReleased` is about the moments at which no join
  runs; `Balanced` says what holds in between: what a user was charged, with what
  the requests of impatient connections have still to charge, is covered by the
  patient connections and requests that carry it and by the joins of impatient
  ones. A patient connection has its user from its one request (`Carried`), so when
  it turns impatient it takes one join to the other side and at most one cover
  with it (`Widened`); the step is then taken with the patience it leaves.
* `RoomManagerProofs`: `TypeCorrect` and `CountersSafe` for the contract and for the callers there
  are, and `ShardIndexSafe`, `LocalCountSafe`, `JoinedListed` and
  `IndexImplemented`, the refinement of `RoomIndex`, whose properties speak of the
  contract of manager.go:143-145 (`addOnLoop`, which no step changes). They hold for
  connections that join any number of rooms, overlapping, and after their close. None of
  the three invariants is inductive, since a call updates a map, two counters, a bit and an idle mark
  one after another and several loops and the cleaner are in such calls at once.
  `OnLoop` gives each shard one thread; `Present`, `CountExact` and `BitExact` then
  say, by the place of that thread, how far the map, the counter and the bit of
  its shard differ; `RoomCounted` makes a room's counter the number of its
  connections plus what the calls under way still owe it. `StepKinds` reduces the
  steps of a call to six kinds (a look, a room made, a connection put, one
  deleted, an end, a move), so that each part of the invariant is disturbed by two
  or three of them. The refinement needs `Placing`: an object is in one bucket
  entry at most (`OneBucket`); what the calls and the cleaner hold is what the
  bucket has, as long as it has it (`Fetched`, `Swept`); a connection in a call is
  seated in the call's room or gone, and one being removed is gone (`Seats`), so a late add
  takes nobody's place; one that was added is listed or on its way (`JoinKept`); and a room about to be collected
  has only members whose call has put them in and is still counting them
  (`Collectable`). Every action then maps to `Begin`, `End`, `Enter`, `Leave`, `Drop`
  or a stutter (`StepRefines`, `NextRefines`). `CountersSafe` leaves the races in:
  the two counters of a room are told apart by the calls between their two adds
  (`Summed`), which no lost write of a map touches. The sum over the loops is a
  recursive function, so the module first shows that there is one and that it
  changes with a term (`SumsExist`, `SumChanged`), by an induction over the subsets
  of the loops that is stated with sets (`SubsetInduction`). Conns, loops and
  goroutines are finite sets.
* `RateLimiterProofs`: `TypeCorrect`, `BurstSafe`, `WindowSafe`, `QuietPasses`. `WindowBound` is
  not inductive: tokens left over count towards later seconds. `Spent` bounds
  tokens passed and tokens left together at the user's last message, and
  `ClockBehind` says that the wall clock never runs ahead of the seconds observed
  to pass. The lemmas on multiplication supply the arithmetic with a symbolic rate.
  `QuietUserPasses`, an action property, needs `InDebt`: refilling over a negative
  interval takes tokens away, never more than `rate` for each second the clock was
  stepped back.
* `RegistrarProofs`: `TypeCorrect`, `DeadForgotten`. `DeadIsForgotten` needs `Alive`
  (no second of a running node is counted, so its keys may have a whole life when
  it dies) and `OwnSteps` (only an etcd node has a lease, which may be longer than
  Consul's patience). What every step of the node does to lives and leases is one
  formula (`NodeEffect`).
* `LoopRoutingProofs`: `NumbersSafe`, `RoutingSafe`, `KickSafe`, `GlobalSafe`. `Counted` says that
  the next number is how many loops have one; `Resolved` what a join between the
  two locks may rely on, whichever joins of other loops, or of the same connection,
  come in. `KickComplete` and `GlobalComplete` are about quiet states only; `Comes` says
  what holds in all the others, of each call and connection: the write that was
  made, the tasks and writes for it in the queues and the visit that is to come are
  together at most one, and exactly one as long as it is owed and not lost and the
  connection is open. A task taken from a queue moves the places of
  those behind it, a bijection (`PutCounts`, `TakeCounts`).
* `MessagePathProofs`: `NoEchoSafe`, `OnlyPublishedSafe`, `CopiesSafe`, for any number of
  nodes, retries, late writes and crashes. `TasksFit` says where a message under way may
  be: a publish of a system message at its caller's node, a broadcast of what is
  in the log or was never meant for it. `CopiesBounded` needs two counts. `Copies`:
  what a connection has got of a message and the places more of it can come from
  (`Ahead`: offsets its node has yet to read or is broadcasting, and the local
  broadcast its node may make) are no more than all the places there are
  (`Sources`). `Lands`: the entries the message has in the log and the writes of it
  that may still land are no more than the writes the Writer may make in all its
  attempts, and for the publish under way no more than the writes it has begun, so
  that no write lands twice and each repetition is paid for by an attempt. `Places` makes the counts work: a message has one publish or local broadcast at a
  time, a node one broadcast per offset, and none before the offset is read. A step
  either takes nothing away (`CopiesKept`), writes one copy and takes its place away
  (`CopyTaken`), or begins a process that has written nothing (`CopiesAfresh`).
* `WebSocketStreamProofs`: `TypeCorrect`, `CaughtUpSafe`, `OrderSafe`, `ClosedForCauseSafe`,
  `RepliesSafe`, `LengthsAgree`, for any frames in pieces of any size, with a pool that
  refuses any binary frame. `Kept` says where
  the decoder and the callback stand: the first m frames are gone through, those up to
  h wait for the callback, and the one after h has not come. So less than a frame is
  left over when a piece comes, and the buffer never
  overflows (`NeverFull`, from `BufferAssumption`: 130 KB hold a frame of 64 KB and one
  read of 64 KB). Where a frame ends is a recursive function, shown to exist a
  frame at a time (`EndsSound`) and to rise (`EndsRise`); a set of numbers can be
  put in order in one way (`OrderUnique`, `OrderExists`), and a frame that is behind
  all of a set is appended to its order (`InOrderAppended`). `LengthsAgree`: the
  length that is written is the length that is read, for every length below 2^31,
  by way of `Uint16Sound` and `Uint64Sound` on the digits; TLC meets the boundaries
  only. `RepliesQueued` is about what lies among other goroutines' frames: `Longer`
  says how the lengths of a kind grow when a frame is queued behind the others;
  `AnswerPingFound` and `AnswerCloseFound` are the two frames the callback answers, and
  `Stands` says where the callback is, and that no close frame has been answered while
  frames are pending.
* `ConsumerProofs`: `TypeCorrect`, `ReadSafe`, `WaitSafe`. `InHand` ties the program
  counter and the last error to the message in hand, which is the last one read.
  `WaitBounded` needs `Patience`: what a message has waited and what is left of a
  pause are together covered by the reads that failed while it waited and one more pause;
  in front of a pause, by those reads alone, the last of which counts for the pause to come.
  `BackoffBounded` is the arithmetic of the shift and the cap.
* `RateLimiterProofs`, about `TextFilter`, which it extends too (both are checks of
  `handleChat`, and share no name): `FilterTypeCorrect`, `LoadedSafe`. `Past` says that no later state of the file has
  the stamp of an earlier one unless two states share one; `Faithful`, that while
  the file has the stamp the loader has seen, what the loader has read is the file,
  and is whole. That no unreadable version comes into use rests on the same.

Only model-checked: liveness (`SilentClosed`, `EmptyRoomsCollected`, `Delivered`,
`Consumed`, `Vanishes`, `Converges`), which rests on fairness
and is out of the provers' reach. Every invariant and every other action property
that a passing run checks is a theorem.

## 6. What the code does against its own words

Listed as findings and shown by a run each:

* Joins (app.go:405) and broadcasts use the shard maps on pool goroutines while
  `OnClose` uses them on the event-loop; manager.go:144 asks for the owning loop.
* Both `Close` and `Start`'s deferred call close the consumer's `stopCh`, so a `Close`
  that finds the channel ends in a panic (consumer.go:64, :136), where
  consumer.go:127-128 and docs/learning-guide.md:251-258 call it graceful and let it
  wait for the message being processed. It does not wait either, and one that comes
  before `Start` signals nothing.

Met while modelling. The models contain the behaviour, and the properties are
stated so that they say exactly how far it goes:

* A close during a join, or a second JOIN on a connection, leaves an entry in the
  room index or a charge in `userConnCount` (event_handler.go:102-106 undoes what
  the context shows at that instant). `RoomIndexReleased` and `UserCountReleased`
  show that only such connections leave anything behind, a charge for a join at
  most.
* The connection counter counts connections that are being refused, so an open may
  be refused while fewer than `MaxConns` are served (event_handler.go:46).
* A second JOIN into another room leaves the connection listed in the first for ever:
  `OnClose` removes it from the last one only (app.go:394-405). `RoomManager` has it;
  `ImplementsIndex` lets a connection be in several rooms, and `JoinedIsListed` and
  `EmptyRoomsCollected` speak of the last room and of rooms that are empty.
* The cleaner may take the room from under a join between `GetOrCreate` and its
  count (manager.go:155, 341); the connection is then in no listed room. This is
  `orphaned` in `JoinedIsListed`.
* With the code's callers, a bit of `ActiveLoops` can stay set for an empty shard, and
  an idle mark can be erased by the join that the close overtook, so that the cleaner
  never collects the room: `EmptyRoomsCollected` is claimed under the contract only.
* `ConnID`s are numbered from 1 in every process and `sendToConn` compares bare
  IDs (broadcaster.go:98): a message is also withheld from the connection with
  the sender's number on every other node. `Delivered` excepts it (`IsSender`).
* Messages of one room are broadcast by independent pool goroutines, so the order
  of the partition (docs/architecture-diagrams.md:103) is not kept; a full pool
  drops a message already committed; a new process reads the partition from its
  first offset (a new group each time, config.go:64). A read whose commit fails loses
  its message (consumer.go:69, 90-101).
* producer.go:59 and :105 and docs/learning-guide.md:219-222 say that the key makes Kafka drop
  the copies of a retried special message. Kafka's producers are idempotent by
  sequence numbers, which this Writer does not use, not by keys: every attempt may append
  the message, and the Writer, made without `MaxAttempts` (producer.go:38-45), writes
  several times within one, of plain chats too. `CopiesBounded` counts what comes of it:
  up to `maxRetryCount * WriterAttempts` copies of a special message.
* Nothing in the build sets `MsgType`: the gifts, props and coloured comments that
  producer.go:56-59 describes are never published as such, and `publishWithRetry`
  runs only for a caller to come. `path` checks it as it stands.
* The tier of premium users (broadcaster.go:80, 1.5 MB) is followed by the test for
  everybody (512 KB), so it skips nobody that the second would not;
  docs/architecture-diagrams.md:250 gives premium users 1.5 MB.
* The health check registered with Consul asks for
  `http://<ListenAddr>:<port>/health` (service.go:134): ListenAddr has a scheme
  and a port of its own, and `/health` is served by the metrics server on another
  one. The check cannot pass, and the agent removes a running node after 30
  seconds (service.go:402 says the agent takes the place of the heartbeat).
  `Registrar` takes the check as critical; `DeadIsForgotten` and `Vanishes` speak
  of dead and stopped nodes. `Stop` deregisters nothing from Consul.
* The etcd lease and the heartbeat have the same period, so the lease may be
  revoked just before the heartbeat, which then finds no key and registers
  nothing; the metadata may expire between the two renewals, and no heartbeat
  writes metadata that is gone; the errors of that second renewal are dropped;
  `Stop` returns before the deregistration. `GetServices` of etcd gives every
  service of every name, with the port 0 (service.go:317-356).
* app.go:589 promises to disconnect the given connection and app.go:703-704 to reach all
  connections of the node. One that has not joined has number 0: while that is not bound
  the call misses it; and an `Execute` or an `AsyncWrite` that fails is ignored
  (app.go:606, :632, :724). `KickComplete` and `GlobalComplete` say that nothing else is missed
  (`lost`), joined or not.
* Frames decoded before an invalid one in the same buffer are dropped
  (websocket.go:128): whether they are handled depends on how TCP cut the bytes.
* event_handler.go:180 and docs/DEVELOPMENT_SUMMARY.md:44 say that a client gets its close code
  back. The frame with the code is queued with `AsyncWrite`, and the same callback asks
  gnet to close the connection before that is written (event_handler.go:183-184):
  `RepliesQueued` is about what is queued, and nothing here says that a client reads it.
* A binary frame that the full pool refuses is dropped without a word, and the frames
  behind it are handled (event_handler.go:197-202): `CaughtUp` and `HandledInOrder` except
  those frames by name (`dropped`).
* `handleChat` reads the context's room and user again for each use; a JOIN on the
  same connection that runs meanwhile may give one message the old user and the
  new room (app.go:416-469). No module has both.
* A second change of the word file with the same size within one tick of the file
  system's clock is never loaded (reloadable_filter.go:93): `doubled`.

## 7. Not modelled

* `Metrics`: counters nothing decides on. `Configuration`: I/O; its values are
  CONSTANTS. Protobuf code is generated. `_deprecated` is not part of the build.
  The test client is JavaScript with vendored packages. `internal/common` is
  imported by nothing in the build.
* `StaticRegistry` is never made by `New` (app.go:224), and `Deregister` of Consul
  and `GetServices` are called by nothing in the build.
* `sendToConn`'s thresholds are one choice (a connection is slow or not): what they
  compare is gnet's buffer, and they only choose whom to skip.
* The HTTP upgrade is a request that is valid or not, and of a certain size;
  unmasking is a copy and left out.

## 8. Plan

Done so far, in this order: `ConnLifecycle` (the state every other part hangs
on), `RoomManager` with `RoomIndex`, `RateLimiter`, `MessagePath`, `Consumer`,
`Registrar`, `LoopRouting`, `WebSocketStream`, `TextFilter`; proofs of
`ConnLifecycle` and `RateLimiter`; then every kind of registry in `Registrar`,
truncation and reading under a writer in `TextFilter`, headers and replies in
`WebSocketStream`, `Frames` with its proofs; then the proofs of `Registrar`,
`LoopRouting`, `MessagePath`, `Consumer` and `TextFilter`, `IndexReleased` and
`QuietPasses`; then `RoomManager` under its contract, with the refinement of
`RoomIndex`; then the counting proofs, `GlobalSafe`, `WaitSafe`, `CopiesSafe`,
`UserCountSafe` and `CountersSafe`; then the proofs of `WebSocketStream`; then the failures
that callers ignore (`Dispatch`, `Submit`, failed commits, the Writer's own retries) and joins
without limits in `RoomManager` and `LoopRouting`, with the proofs over again.

Next, extending the model:

1. the tiers of `sendToConn` with the write buffer as state (asynchronous writes
   between the test and the queue), beside `MessagePath`;
2. a chat and a JOIN of one connection on two goroutines, with the limiter that is
   charged and the room that is written to.

Next, proving more:

1. that the observers `lost` and `dropped` grow only by an ignored error, as theorems about
   steps;
2. the safety half of the liveness properties: that nothing a live node has still
   to do can be lost, for `Consumed` and `Converges`.

No module to be proved about declares a RECURSIVE operator.
