----------------------------- MODULE Registrar -----------------------------
(***************************************************************************)
(* The registration of a node (internal/registry/service.go, App.New and   *)
(* App.StartRegistry): which registry the configuration selects, Register, *)
(* the heartbeat loop that renews an etcd lease, Stop, and what the        *)
(* registry keeps: for etcd the service key and its meta key, each bound   *)
(* to a lease, for Consul the service and its health check.  The node may  *)
(* die at any moment; NodeId holds the process ID, so it never comes back  *)
(* under the same key.                                                     *)
(*                                                                         *)
(* Every call is a step, may take any time and may fail, before or after   *)
(* the registry has done it.  A key's life is what is left of its lease in *)
(* seconds plus one: 1 is a lease that has run out and that etcd has not   *)
(* revoked yet, 0 is no key.  A Consul service has the life its agent      *)
(* gives a service whose check is critical: the check asks the WebSocket   *)
(* address, scheme and all, for /health, which only the metrics server     *)
(* answers, so it never passes.                                            *)
(***************************************************************************)
EXTENDS Naturals

CONSTANTS
  TTL,       \* seconds of a lease (10)
  Interval,  \* seconds between two heartbeats (10)
  ReapAfter  \* DeregisterCriticalServiceAfter (30)

ASSUME RegistrarAssumption ==
  TTL \in Nat \ {0} /\ Interval \in Nat \ {0} /\ ReapAfter \in Nat \ {0}

\* RegistryType; "none" is "static" or an empty RegistryAddr, "unknown" a type
\* that NewRegistry does not know.
Kinds == {"etcd", "consul", "none", "unknown"}

VARIABLES
  kind,     \* the configuration: never changes
  pc,       \* main in New and Register, then the goroutine of heartbeatLoop
  lease,    \* life of the lease granted last
  key,      \* life of /services/<id>, or of the service at the Consul agent
  meta,     \* life of /services/<id>/meta
  clock,    \* seconds since the ticker fired
  due,      \* ticker.C holds a tick
  stop,     \* "no", "closed": Stop was called, "logged": App.Close went on
  deadFor   \* observer: seconds since the process died

etcd == <<lease, key, meta>>
ticker == <<clock, due>>
vars == <<kind, pc, lease, key, meta, clock, due, stop, deadFor>>

\* Before StartRegistry has returned.
Starting == {"new", "register", "grant", "put", "putMeta", "start"}

Lifetime == IF kind = "consul" THEN ReapAfter ELSE TTL

Init ==
  /\ kind \in Kinds /\ pc = "new"
  /\ lease = 0 /\ key = 0 /\ meta = 0
  /\ clock = 0 /\ due = FALSE /\ stop = "no" /\ deadFor = 0

GoTo(l) == pc' = l /\ UNCHANGED <<kind, stop, deadFor>>

\* What the calls do at the registry; a lease that was revoked cannot be attached.
GrantLease == lease' = TTL + 1 /\ UNCHANGED <<key, meta>>

\* Variant: the key is put without the lease: its life never gets shorter.
PutServiceUnleased == key' = TTL + 2 /\ UNCHANGED <<lease, meta>>

PutService == lease > 0 /\ key' = lease /\ UNCHANGED <<lease, meta>>
PutMetadata == lease > 0 /\ meta' = lease /\ UNCHANGED <<lease, key>>
DeleteService == key' = 0 /\ UNCHANGED <<lease, meta>>
DeleteMetadata == meta' = 0 /\ UNCHANGED <<lease, key>>

\* Variant: a service is kept however long its check is critical.
RegisterServiceForGood == key' = ReapAfter + 2 /\ UNCHANGED <<lease, meta>>

\* The check begins critical.
RegisterService == key' = ReapAfter + 1 /\ UNCHANGED <<lease, meta>>

\* An error does not say whether the registry has done it.
Call(from, effect, succeeded, failed) ==
  /\ pc = from
  /\ \/ effect /\ GoTo(succeeded)
     \/ (effect \/ UNCHANGED etcd) /\ GoTo(failed)
  /\ UNCHANGED ticker

-----------------------------------------------------------------------------
(* New and Register.  When a call fails, main ends the process. *)

\* Making a client may fail.
NewEtcdRegistry == kind = "etcd" /\ (GoTo("grant") \/ GoTo("dead"))

NewConsulRegistry == kind = "consul" /\ (GoTo("register") \/ GoTo("dead"))

\* New, with NewRegistry; StartRegistry has nothing to do without a Registrar.
New ==
  /\ pc = "new"
  /\ \/ NewEtcdRegistry
     \/ NewConsulRegistry
     \/ kind = "none" /\ GoTo("unregistered")
     \/ kind = "unknown" /\ GoTo("dead")
  /\ UNCHANGED <<etcd, ticker>>

Register == Call("register", RegisterService, "start", "dead")

Grant == Call("grant", GrantLease, "put", "dead")

PutKey == Call("put", PutService, "putMeta", "dead")

PutMeta == Call("putMeta", PutMetadata, "start", "dead")

\* go s.heartbeatLoop(ctx): the ticker begins to run; without etcd the loop
\* returns at once.
StartLoop ==
  /\ pc = "start"
  /\ GoTo(IF kind = "etcd" THEN "select" ELSE "done") /\ clock' = 0 /\ UNCHANGED <<due, etcd>>

-----------------------------------------------------------------------------
(* heartbeatLoop: select picks any of the channels that are ready. *)

Ticked ==
  /\ pc = "select" /\ due
  /\ due' = FALSE /\ GoTo("get") /\ UNCHANGED <<clock, etcd>>

Stopped ==
  /\ pc = "select" /\ stop # "no"
  /\ GoTo("delete") /\ UNCHANGED <<ticker, etcd>>

\* The key that is not there is an error, which is logged.
GetKey ==
  /\ pc = "get"
  /\ \/ key > 0 /\ GoTo("regrant")
     \/ GoTo("select")
  /\ UNCHANGED <<ticker, etcd>>

Regrant == Call("regrant", GrantLease, "reput", "select")

ReputKey == Call("reput", PutService, "getMeta", "select")

GetMeta ==
  /\ pc = "getMeta"
  /\ \/ meta > 0 /\ GoTo("reputMeta")
     \/ GoTo("select")
  /\ UNCHANGED <<ticker, etcd>>

ReputMeta == Call("reputMeta", PutMetadata, "select", "select")

\* Variant: a failed delete leads back into the loop.
DeleteKeyAgain == Call("delete", DeleteService, "deleteMeta", "select")

\* Deregister.  The loop ends also when the delete failed.
DeleteKey == Call("delete", DeleteService, "deleteMeta", "done")

DeleteMeta == Call("deleteMeta", DeleteMetadata, "done", "done")

-----------------------------------------------------------------------------
(* App.Close, the process, the registry and time. *)

\* Close has a Registrar to stop; nobody may be left to see stopCh closed.
Stop ==
  /\ stop = "no" /\ pc \notin Starting \cup {"unregistered", "dead"}
  /\ stop' = "closed" /\ UNCHANGED <<kind, pc, etcd, ticker, deadFor>>

\* Stop returned: Close logs that the node is deregistered and goes on.
StopReturns ==
  /\ stop = "closed" /\ pc # "dead"
  /\ stop' = "logged" /\ UNCHANGED <<kind, pc, etcd, ticker, deadFor>>

\* A crash, or main returning after Close.
Die ==
  /\ pc # "dead"
  /\ pc' = "dead" /\ UNCHANGED <<kind, etcd, ticker, stop, deadFor>>

\* etcd revokes a lease some time after it ran out, and the keys with it; the
\* Consul agent looks for services to remove from time to time.
Revoke ==
  /\ 1 \in {lease, key, meta}
  /\ lease' = IF lease = 1 THEN 0 ELSE lease
  /\ key' = IF key = 1 THEN 0 ELSE key
  /\ meta' = IF meta = 1 THEN 0 ELSE meta
  /\ UNCHANGED <<kind, pc, ticker, stop, deadFor>>

Older(life) == IF life \in 2..(Lifetime + 1) THEN life - 1 ELSE life

Tick ==
  /\ 1 \notin {lease, key, meta}
  /\ lease' = Older(lease) /\ key' = Older(key) /\ meta' = Older(meta)
  /\ clock' = (clock + 1) % Interval
  /\ due' = (due \/ (clock + 1 = Interval /\ pc \notin Starting))
  /\ deadFor' = IF pc = "dead" /\ deadFor <= Lifetime THEN deadFor + 1 ELSE deadFor
  /\ UNCHANGED <<kind, pc, stop>>

NodeStep ==
  \/ New \/ Register \/ Grant \/ PutKey \/ PutMeta \/ StartLoop
  \/ Stopped \/ GetKey \/ Regrant \/ ReputKey \/ GetMeta \/ ReputMeta
  \/ DeleteKey \/ DeleteMeta

Next ==
  \/ NodeStep \/ Ticked
  \/ Stop \/ StopReturns \/ Die
  \/ Revoke \/ Tick

Spec == Init /\ [][Next]_vars

\* Time passes, the registry removes what is due, and select takes the stop
\* channel in the end when a tick is ready every time too.  No call has to
\* return: the context is context.Background() and etcd may be out of reach.
FairSpec == Spec /\ WF_vars(Tick) /\ WF_vars(Revoke) /\ SF_vars(Stopped)

-----------------------------------------------------------------------------
(* Properties. *)

\* The state is well typed: no key outlives the lease it was put with
\* (service.go:248-262).
TypeOK ==
  /\ kind \in Kinds
  /\ pc \in Starting \cup {"unregistered", "select", "get", "regrant", "reput",
             "getMeta", "reputMeta", "delete", "deleteMeta", "done", "dead"}
  /\ lease \in 0..(TTL + 1) /\ key \in 0..(Lifetime + 1) /\ meta \in 0..(TTL + 1)
  /\ clock \in 0..(Interval - 1) /\ due \in BOOLEAN
  /\ stop \in {"no", "closed", "logged"} /\ deadFor \in 0..(Lifetime + 1)

\* A dead node is found for no longer than a lease, or than Consul keeps a
\* service in critical state, whatever call it died in (service.go:133-138,
\* 241-258).
DeadIsForgotten ==
  pc = "dead" => /\ key > 0 => deadFor + key <= Lifetime + 1
                 /\ meta > 0 => deadFor + meta <= Lifetime + 1

\* A node that died, or that was stopped, is no longer found from some moment
\* on: no heartbeat under way puts its keys back (service.go:415-425), and a
\* Consul service, which nobody deregisters (service.go:408), is removed by
\* its agent.
Vanishes == (pc = "dead" \/ stop # "no") ~> [](key = 0 /\ meta = 0)
=============================================================================
