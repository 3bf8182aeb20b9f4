---------------------------- MODULE RateLimiter ----------------------------
(***************************************************************************)
(* The token bucket of handleChat (internal/app/app.go, RateLimiter).      *)
(* Allow runs under the limiter's mutex and reads the wall clock in whole  *)
(* seconds; the clock may be stepped back.  rate and capacity are          *)
(* integers, so the float64 token counts stay integers.                    *)
(*                                                                         *)
(* What the limiter promises is about any stretch of time, so an observer  *)
(* opens a window at an arbitrary moment and counts what passes in it.     *)
(* Time is measured by the clock's forward steps: stepping back and forth  *)
(* again counts.                                                           *)
(***************************************************************************)
EXTENDS Integers

CONSTANTS
  Users,
  rate,         \* tokens a second
  capacity,     \* the bucket's size
  MaxClock,     \* bound: the wall clock
  MaxElapsed    \* bound: seconds the clock has moved forward

ASSUME RateAssumption == rate \in Nat /\ capacity \in Nat
ASSUME BoundsAssumption == MaxClock \in Nat /\ MaxElapsed \in Nat

VARIABLES
  users,       \* the users that have a bucket
  tokens,      \* userBucket.tokens
  lastUpdate,  \* userBucket.lastUpdate
  now,         \* time.Now().Unix()
  elapsed,     \* observer: seconds the clock has moved forward
  back,        \* observer: seconds it was stepped back, all in all
  seen,        \* observer: elapsed at the user's last message
  opened,      \* observer: elapsed when the user's window opened
  passed       \* observer: messages of the user allowed in the window

vars == <<users, tokens, lastUpdate, now, elapsed, back, seen, opened,
          passed>>

Init ==
  /\ users = {}
  /\ tokens = [u \in Users |-> 0]
  /\ lastUpdate = [u \in Users |-> 0]
  /\ now \in 0..MaxClock
  /\ elapsed = 0
  /\ back = 0
  /\ seen = [u \in Users |-> 0]
  /\ opened = [u \in Users |-> 0]
  /\ passed = [u \in Users |-> 0]

-----------------------------------------------------------------------------
\* Variant: the bucket is not stored, every message is the first one.
AllowFirstUnstored(u) ==
  /\ u \notin users
  /\ seen' = [seen EXCEPT ![u] = elapsed]
  /\ passed' = [passed EXCEPT ![u] = @ + 1]
  /\ UNCHANGED <<users, tokens, lastUpdate, now, elapsed, back, opened>>

\* The first message makes the bucket and is always allowed.
AllowFirst(u) ==
  /\ u \notin users
  /\ users' = users \cup {u}
  /\ tokens' = [tokens EXCEPT ![u] = capacity - 1]
  /\ lastUpdate' = [lastUpdate EXCEPT ![u] = now]
  /\ seen' = [seen EXCEPT ![u] = elapsed]
  /\ passed' = [passed EXCEPT ![u] = @ + 1]
  /\ UNCHANGED <<now, elapsed, back, opened>>

\* Variant: the refill is not capped.
RefilledUncapped(u) == tokens[u] + (now - lastUpdate[u]) * rate

Refilled(u) ==
  LET t == tokens[u] + (now - lastUpdate[u]) * rate IN
  IF t > capacity THEN capacity ELSE t

\* Later messages refill the bucket first, whether they are allowed or not.
Touch(u) ==
  /\ u \in users
  /\ lastUpdate' = [lastUpdate EXCEPT ![u] = now]
  /\ seen' = [seen EXCEPT ![u] = elapsed]
  /\ UNCHANGED <<users, now, elapsed, back, opened>>

AllowNext(u) ==
  /\ Touch(u)
  /\ Refilled(u) >= 1
  /\ tokens' = [tokens EXCEPT ![u] = Refilled(u) - 1]
  /\ passed' = [passed EXCEPT ![u] = @ + 1]

\* Variant: a rejected message is charged too.
RejectCharged(u) ==
  /\ Touch(u)
  /\ Refilled(u) < 1
  /\ tokens' = [tokens EXCEPT ![u] = Refilled(u) - 1]
  /\ UNCHANGED passed

Reject(u) ==
  /\ Touch(u)
  /\ Refilled(u) < 1
  /\ tokens' = [tokens EXCEPT ![u] = Refilled(u)]
  /\ UNCHANGED passed

-----------------------------------------------------------------------------
Tick ==
  /\ now < MaxClock /\ elapsed < MaxElapsed
  /\ now' = now + 1
  /\ elapsed' = elapsed + 1
  /\ UNCHANGED <<users, tokens, lastUpdate, back, seen, opened, passed>>

StepBack ==
  /\ now' \in 0..(now - 1)
  /\ back' = back + (now - now')
  /\ UNCHANGED <<users, tokens, lastUpdate, elapsed, seen, opened, passed>>

OpenWindow(u) ==
  /\ opened' = [opened EXCEPT ![u] = elapsed]
  /\ passed' = [passed EXCEPT ![u] = 0]
  /\ UNCHANGED <<users, tokens, lastUpdate, now, elapsed, back, seen>>

Next ==
  \/ \E u \in Users : AllowFirst(u) \/ AllowNext(u) \/ Reject(u) \/ OpenWindow(u)
  \/ Tick
  \/ StepBack

Spec == Init /\ [][Next]_vars

-----------------------------------------------------------------------------
(* Properties. *)

\* The state is well typed, and a user without a bucket has had no message
\* allowed (app.go:114-121).
TypeOK ==
  /\ users \subseteq Users
  /\ tokens \in [Users -> Int]
  /\ lastUpdate \in [Users -> Nat]
  /\ now \in Nat
  /\ elapsed \in Nat
  /\ back \in Nat
  /\ seen \in [Users -> Nat]
  /\ opened \in [Users -> Nat]
  /\ passed \in [Users -> Nat]
  /\ \A u \in Users \ users : tokens[u] = 0 /\ passed[u] = 0

\* A bucket never holds more than its capacity: a pause buys no more than one
\* burst (app.go:126-128).
BurstBounded == \A u \in users : tokens[u] <= capacity

Burst == IF capacity = 0 THEN 1 ELSE capacity

\* In any stretch of time a user gets at most one burst and rate messages for
\* each second of it, also when the clock is stepped back in between
\* (app.go:86-137).
WindowBound ==
  \A u \in Users : passed[u] <= Burst + rate * (elapsed - opened[u])

\* A user who has been quiet for longer than the clock was ever stepped back is
\* not rejected: with a clock that only moves forward, one message a second
\* always passes (app.go:123-136).
QuietUserPasses ==
  [][rate > 0 /\ capacity > 0 =>
       \A u \in users : Reject(u) => now - lastUpdate[u] <= back]_vars
=============================================================================
