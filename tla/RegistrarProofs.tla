-------------------------- MODULE RegistrarProofs --------------------------
(***************************************************************************)
(* Proofs about Registrar: a dead node is forgotten in time, for every     *)
(* length of a lease, of the heartbeat's period and of Consul's patience.  *)
(*                                                                         *)
(* DeadIsForgotten is not inductive.  Alive says that nobody counts the    *)
(* seconds of a node that runs, so that its keys may have a whole life     *)
(* when it dies; OwnSteps says that only an etcd node has a lease and      *)
(* metadata, since a lease may be longer than Consul's patience.           *)
(***************************************************************************)
EXTENDS Registrar, TLAPS

Alive == pc # "dead" => deadFor = 0

ConsulSteps == {"new", "register", "start", "done", "unregistered", "dead"}

OwnSteps ==
  /\ kind # "etcd" => lease = 0 /\ meta = 0 /\ pc \in ConsulSteps
  /\ pc = "register" => kind = "consul"

IInv == TypeOK /\ Alive /\ OwnSteps /\ DeadIsForgotten

Steps ==
  ConsulSteps \cup {"grant", "put", "putMeta", "select", "get", "regrant", "reput",
                    "getMeta", "reputMeta", "delete", "deleteMeta"}

-----------------------------------------------------------------------------

LEMMA LifetimeType == kind \in Kinds => Lifetime \in Nat \ {0}
  BY RegistrarAssumption DEF Lifetime

LEMMA InitHolds == Init => IInv
<1> SUFFICES ASSUME Init PROVE IInv
  OBVIOUS
<1>1. Lifetime \in Nat
  BY LifetimeType DEF Init
<1>2. due \in BOOLEAN
  BY Zenon DEF Init
<1>3. TypeOK
  BY <1>1, <1>2, RegistrarAssumption, SMT DEF Init, TypeOK, Starting
<1> QED
  BY <1>3 DEF Init, IInv, Alive, OwnSteps, ConsulSteps, DeadIsForgotten

-----------------------------------------------------------------------------
(* The steps of the node: whatever the registry did, the node runs or dies *)
(* just now, and the keys have a life at most.                             *)

\* What the steps of a node do.
NodeEffect ==
  /\ pc # "dead" /\ pc' \in Steps
  /\ pc' = "register" => kind = "consul"
  /\ kind' = kind /\ deadFor' = deadFor /\ stop' = stop
  /\ clock' \in {clock, 0} /\ due' \in {due, FALSE}
  /\ \/ /\ kind = "etcd"
        /\ lease' \in {lease, TTL + 1}
        /\ key' \in {key, lease, 0} /\ meta' \in {meta, lease, 0}
     \/ /\ kind # "etcd" /\ pc' \in ConsulSteps
        /\ lease' = lease /\ meta' = meta
        /\ key' = key \/ (kind = "consul" /\ key' = ReapAfter + 1)

LEMMA NodeEffectHolds ==
  ASSUME IInv, NodeEffect
  PROVE  IInv'
<1> USE RegistrarAssumption
<1> USE DEF NodeEffect
<1>1. Lifetime' = Lifetime /\ Lifetime \in Nat
  BY LifetimeType DEF Lifetime, IInv, TypeOK
<1>2. kind = "etcd" => Lifetime = TTL
  BY DEF Lifetime
<1>3. deadFor' = 0
  BY DEF IInv, Alive
<1>4. lease' \in 0..(TTL + 1) /\ meta' \in 0..(TTL + 1)
  BY DEF IInv, TypeOK
<1>5. key' \in 0..(Lifetime + 1)
  BY <1>1, <1>2 DEF IInv, TypeOK, Lifetime
<1>6. clock' \in 0..(Interval - 1)
  BY DEF IInv, TypeOK
<1>7. due' \in BOOLEAN
  BY Zenon DEF IInv, TypeOK
<1>8. TypeOK'
  BY <1>1, <1>3, <1>4, <1>5, <1>6, <1>7 DEF IInv, TypeOK, Steps, ConsulSteps, Starting
<1>9. OwnSteps'
  BY DEF IInv, OwnSteps
<1>10. DeadIsForgotten'
  <2>1. PICK k \in 0..(Lifetime + 1) : key' = k
    BY <1>5
  <2>2. PICK m \in 0..(TTL + 1) : meta' = m /\ (m > 0 => m <= Lifetime + 1)
    BY <1>1, <1>2, <1>4, <1>9 DEF OwnSteps
  <2>3. /\ k > 0 => 0 + k <= Lifetime + 1
        /\ m > 0 => 0 + m <= Lifetime + 1
    BY <1>1, <2>2
  <2> QED
    BY <1>1, <1>3, <2>1, <2>2, <2>3, Zenon DEF DeadIsForgotten
<1> QED
  BY <1>3, <1>8, <1>9, <1>10 DEF IInv, Alive

LEMMA NodeHolds ==
  ASSUME IInv, NodeStep \/ Ticked
  PROVE  IInv'
<1> USE DEF GoTo, Call, Steps, ConsulSteps, etcd, ticker, NodeEffect
<1>1. /\ kind # "etcd" => pc \in ConsulSteps
      /\ pc = "register" => kind = "consul"
  BY DEF IInv, OwnSteps
<1>2. ASSUME New PROVE NodeEffect
  <2>1. CASE kind = "etcd"
    BY <1>1, <1>2, <2>1 DEF New, NewEtcdRegistry, NewConsulRegistry
  <2>2. CASE kind # "etcd"
    BY <1>1, <1>2, <2>2 DEF New, NewEtcdRegistry, NewConsulRegistry
  <2> QED
    BY <2>1, <2>2
<1>3. ASSUME Register PROVE NodeEffect
  BY <1>1, <1>3 DEF Register, RegisterService
<1>4. ASSUME Grant \/ Regrant PROVE NodeEffect
  BY <1>1, <1>4 DEF Grant, Regrant, GrantLease
<1>5. ASSUME PutKey \/ ReputKey PROVE NodeEffect
  BY <1>1, <1>5 DEF PutKey, ReputKey, PutService
<1>6. ASSUME PutMeta \/ ReputMeta PROVE NodeEffect
  BY <1>1, <1>6 DEF PutMeta, ReputMeta, PutMetadata
<1>7. ASSUME StartLoop PROVE NodeEffect
  <2>1. CASE kind = "etcd"
    BY <1>1, <1>7, <2>1 DEF StartLoop
  <2>2. CASE kind # "etcd"
    BY <1>1, <1>7, <2>2 DEF StartLoop
  <2> QED
    BY <2>1, <2>2
<1>8. ASSUME Ticked \/ Stopped PROVE NodeEffect
  BY <1>1, <1>8 DEF Ticked, Stopped
<1>9. ASSUME GetKey \/ GetMeta PROVE NodeEffect
  BY <1>1, <1>9 DEF GetKey, GetMeta
<1>10. ASSUME DeleteKey \/ DeleteMeta PROVE NodeEffect
  BY <1>1, <1>10 DEF DeleteKey, DeleteMeta, DeleteService, DeleteMetadata
<1> HIDE DEF NodeEffect
<1> QED
  BY <1>2, <1>3, <1>4, <1>5, <1>6, <1>7, <1>8, <1>9, <1>10, NodeEffectHolds
  DEF NodeStep

-----------------------------------------------------------------------------
(* The process, the registry and time. *)

LEMMA DieHolds ==
  ASSUME IInv, Die
  PROVE  IInv'
<1> USE DEF Die, etcd, ticker
<1>1. deadFor = 0 /\ Lifetime \in Nat /\ Lifetime' = Lifetime
  BY LifetimeType DEF IInv, Alive, TypeOK, Lifetime
<1>2. TypeOK'
  BY <1>1 DEF IInv, TypeOK
<1>3. OwnSteps'
  BY DEF IInv, OwnSteps, ConsulSteps
<1>4. key \in 0..(Lifetime + 1) /\ meta \in 0..(Lifetime + 1)
  BY <1>1, RegistrarAssumption DEF IInv, TypeOK, OwnSteps, Lifetime
<1> QED
  BY <1>1, <1>2, <1>3, <1>4 DEF IInv, Alive, DeadIsForgotten

LEMMA StopHolds ==
  ASSUME IInv, Stop \/ StopReturns
  PROVE  IInv'
<1>1. UNCHANGED <<kind, pc, lease, key, meta, clock, due, deadFor>> /\ Lifetime' = Lifetime
  BY DEF Stop, StopReturns, etcd, ticker, Lifetime
<1>2. stop' \in {"no", "closed", "logged"}
  BY DEF Stop, StopReturns
<1> QED
  BY <1>1, <1>2 DEF IInv, TypeOK, Alive, OwnSteps, DeadIsForgotten

\* A life that is over is taken away.
LEMMA RevokeHolds ==
  ASSUME IInv, Revoke
  PROVE  IInv'
<1>1. UNCHANGED <<kind, pc, clock, due, stop, deadFor>> /\ Lifetime' = Lifetime
  BY DEF Revoke, ticker, Lifetime
<1>2. lease' \in {lease, 0} /\ key' \in {key, 0} /\ meta' \in {meta, 0}
  BY DEF Revoke
<1>3. kind \in Kinds /\ Lifetime \in Nat /\ TTL \in Nat
  BY LifetimeType, RegistrarAssumption DEF IInv, TypeOK
<1>4. TypeOK'
  BY <1>1, <1>2, <1>3 DEF IInv, TypeOK
<1>5. OwnSteps' /\ Alive'
  BY <1>1, <1>2 DEF IInv, OwnSteps, Alive
<1>6. DeadIsForgotten'
  <2>1. key' > 0 => key' = key
    BY <1>2
  <2>2. meta' > 0 => meta' = meta
    BY <1>2
  <2> QED
    BY <1>1, <2>1, <2>2, Zenon DEF IInv, DeadIsForgotten
<1> QED
  BY <1>4, <1>5, <1>6 DEF IInv

\* A second: what is left gets shorter as the node is dead for longer, and a
\* life that is over stops the clock until the registry has seen it.
LEMMA TickHolds ==
  ASSUME IInv, Tick
  PROVE  IInv'
<1> USE RegistrarAssumption
<1>1. UNCHANGED <<kind, pc, stop>> /\ Lifetime' = Lifetime
  BY DEF Tick, Lifetime
<1>2. kind \in Kinds /\ Lifetime \in Nat /\ deadFor \in 0..(Lifetime + 1)
  BY LifetimeType DEF IInv, TypeOK
<1>3. ASSUME NEW life \in Nat PROVE Older(life) \in 0..life
  BY <1>2, <1>3 DEF Older
<1>4. ASSUME NEW life \in Nat, life # 1, life <= Lifetime + 1, life > 0
      PROVE  Older(life) = life - 1
  BY <1>2, <1>4 DEF Older
<1>5. lease' = Older(lease) /\ key' = Older(key) /\ meta' = Older(meta)
  BY DEF Tick
<1>6. TypeOK'
  <2>1. lease' \in 0..(TTL + 1) /\ key' \in 0..(Lifetime + 1) /\ meta' \in 0..(TTL + 1)
    BY <1>2, <1>3, <1>5 DEF IInv, TypeOK
  <2>2. clock' \in 0..(Interval - 1)
    BY DEF Tick, IInv, TypeOK
  <2>3. due' \in BOOLEAN
    BY Zenon DEF Tick
  <2>4. deadFor' \in 0..(Lifetime + 1)
    BY <1>2 DEF Tick
  <2> QED
    BY <1>1, <2>1, <2>2, <2>3, <2>4 DEF IInv, TypeOK
<1>7. OwnSteps'
  BY <1>1, <1>3, <1>5 DEF IInv, OwnSteps
<1>8. Alive'
  BY <1>1 DEF Tick, IInv, Alive
<1>9. DeadIsForgotten'
  <2> SUFFICES ASSUME pc = "dead"
               PROVE  /\ key' > 0 => deadFor' + key' <= Lifetime + 1
                      /\ meta' > 0 => deadFor' + meta' <= Lifetime + 1
    BY <1>1, Zenon DEF DeadIsForgotten
  <2>1. ASSUME NEW life \in Nat, life # 1,
               life > 0 => deadFor + life <= Lifetime + 1
        PROVE  Older(life) > 0 => deadFor' + Older(life) <= Lifetime + 1
    <3>1. CASE life = 0
      BY <1>2, <2>1, <3>1, <1>3
    <3>2. CASE life > 0
      <4>1. Older(life) = life - 1
        BY <1>2, <1>4, <2>1, <3>2
      <4>2. deadFor' = deadFor + 1
        BY <1>2, <2>1, <3>2 DEF Tick
      <4> QED
        BY <1>2, <2>1, <3>2, <4>1, <4>2
    <3> QED
      BY <2>1, <3>1, <3>2
  <2>2. /\ key \in Nat /\ key # 1 /\ (key > 0 => deadFor + key <= Lifetime + 1)
        /\ meta \in Nat /\ meta # 1 /\ (meta > 0 => deadFor + meta <= Lifetime + 1)
    BY <1>2 DEF Tick, IInv, TypeOK, DeadIsForgotten
  <2> QED
    BY <1>5, <2>1, <2>2, Zenon
<1> QED
  BY <1>6, <1>7, <1>8, <1>9 DEF IInv

-----------------------------------------------------------------------------
LEMMA NextHolds == IInv /\ [Next]_vars => IInv'
<1> SUFFICES ASSUME IInv, [Next]_vars PROVE IInv'
  OBVIOUS
<1>1. CASE NodeStep \/ Ticked
  BY <1>1, NodeHolds
<1>2. CASE Die
  BY <1>2, DieHolds
<1>3. CASE Stop \/ StopReturns
  BY <1>3, StopHolds
<1>4. CASE Revoke
  BY <1>4, RevokeHolds
<1>5. CASE Tick
  BY <1>5, TickHolds
<1>6. CASE UNCHANGED vars
  <2>1. UNCHANGED <<kind, pc, lease, key, meta, clock, due, stop, deadFor>> /\ Lifetime' = Lifetime
    BY <1>6 DEF vars, etcd, ticker, Lifetime
  <2> QED
    BY <2>1 DEF IInv, TypeOK, Alive, OwnSteps, DeadIsForgotten
<1> QED
  BY <1>1, <1>2, <1>3, <1>4, <1>5, <1>6 DEF Next

\* No key outlives the lease it was put with, whatever the node and the
\* registry do (service.go:248-262).
THEOREM TypeCorrect == Spec => []TypeOK
<1>1. IInv => TypeOK
  BY DEF IInv
<1> QED
  BY InitHolds, NextHolds, <1>1, PTL DEF Spec

\* Nothing is found of a node that has been dead for a lease, or for as long as
\* Consul keeps a critical service, whatever call it died in
\* (service.go:133-138, 241-258).
THEOREM DeadForgotten == Spec => []DeadIsForgotten
<1>1. IInv => DeadIsForgotten
  BY DEF IInv
<1> QED
  BY InitHolds, NextHolds, <1>1, PTL DEF Spec
=============================================================================
