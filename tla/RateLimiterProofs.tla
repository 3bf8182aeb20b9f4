------------------------- MODULE RateLimiterProofs -------------------------
(***************************************************************************)
(* WindowBound for every rate, capacity and set of users, and any clock;   *)
(* at the end, TextFilter, the other check handleChat makes.               *)
(*                                                                         *)
(* What passed in the window is not bounded by itself: tokens left over    *)
(* count towards later seconds.  The inductive invariant bounds the sum of *)
(* both at the user's last message, and says that the wall clock never     *)
(* runs ahead of the time observed to pass, however it is stepped back.    *)
(***************************************************************************)
EXTENDS RateLimiter, TextFilter, TLAPS

\* No bucket is over its capacity.
Capped == \A u \in users : tokens[u] <= capacity

\* A bucket is refilled for no more time than has passed.
ClockBehind ==
  /\ \A u \in Users : seen[u] <= elapsed /\ opened[u] <= elapsed
  /\ \A u \in users : now - lastUpdate[u] <= elapsed - seen[u]

\* Passed and still in the bucket, at the user's last message in the window.
Spent ==
  \A u \in users :
    IF seen[u] < opened[u] THEN passed[u] = 0
    ELSE passed[u] + tokens[u] <= capacity + rate * (seen[u] - opened[u])

IInv == TypeOK /\ Capped /\ ClockBehind /\ Spent /\ WindowBound

-----------------------------------------------------------------------------
(* Multiplication by the rate. *)

LEMMA Distributes ==
  ASSUME NEW a \in Int, NEW b \in Int, NEW c \in Int
  PROVE  a * (b + c) = a * b + a * c
  BY SMT

LEMMA Monotone ==
  ASSUME NEW a \in Nat, NEW b \in Int, NEW c \in Int, b <= c
  PROVE  a * b <= a * c
<1>1. c - b \in Nat
  OBVIOUS
<1>2. a * (c - b) \in Nat
  BY <1>1, SMT
<1>3. a * c = a * b + a * (c - b)
  BY Distributes, c = b + (c - b)
<1>4. a * b \in Int /\ a * c \in Int
  BY SMT
<1> QED
  BY <1>2, <1>3, <1>4

LEMMA Difference ==
  ASSUME NEW a \in Nat, NEW b \in Nat, b <= a
  PROVE  a - b \in Nat
  OBVIOUS

\* The refill lets a user's sum grow by at most rate for each second.
LEMMA RefillBound ==
  ASSUME IInv, NEW u \in users
  PROVE  /\ Refilled(u) \in Int
         /\ Refilled(u) <= capacity
         /\ opened[u] <= seen[u] =>
              passed[u] + Refilled(u) <= capacity + rate * (elapsed - opened[u])
<1> USE RateAssumption
<1>1. /\ u \in Users /\ tokens[u] \in Int /\ lastUpdate[u] \in Nat /\ now \in Nat
      /\ elapsed \in Nat /\ seen[u] \in Nat /\ opened[u] \in Nat /\ passed[u] \in Nat
  BY DEF IInv, TypeOK
<1> DEFINE gain == rate * (now - lastUpdate[u])
           time == rate * (elapsed - seen[u])
           before == rate * (seen[u] - opened[u])
<1>2. gain \in Int /\ time \in Int /\ before \in Int
  BY <1>1, SMT
<1>3. (now - lastUpdate[u]) * rate = gain
  BY <1>1, SMT
<1>4. gain <= time
  <2>1. now - lastUpdate[u] \in Int /\ elapsed - seen[u] \in Int
    BY <1>1
  <2>2. now - lastUpdate[u] <= elapsed - seen[u]
    BY DEF IInv, ClockBehind
  <2> QED
    BY <2>1, <2>2, Monotone
<1>5. rate * (elapsed - opened[u]) = before + time
  <2>1. elapsed - opened[u] = (seen[u] - opened[u]) + (elapsed - seen[u])
    BY <1>1
  <2>2. seen[u] - opened[u] \in Int /\ elapsed - seen[u] \in Int
    BY <1>1
  <2> QED
    BY <2>1, <2>2, Distributes
<1>6. Refilled(u) = IF tokens[u] + gain > capacity THEN capacity ELSE tokens[u] + gain
  BY <1>3 DEF Refilled
<1>7. Refilled(u) \in Int /\ Refilled(u) <= capacity /\ Refilled(u) <= tokens[u] + gain
  <2> HIDE DEF gain
  <2> QED
    BY <1>1, <1>2, <1>6
<1>8. opened[u] <= seen[u] => passed[u] + tokens[u] <= capacity + before
  BY <1>1 DEF IInv, Spent
<1> HIDE DEF gain, time, before
<1> QED
  BY <1>1, <1>2, <1>4, <1>5, <1>7, <1>8

-----------------------------------------------------------------------------
LEMMA InitHolds == Init => IInv
  <1> SUFFICES ASSUME Init PROVE IInv
    OBVIOUS
  <1> USE RateAssumption, BoundsAssumption
  <1>1. TypeOK
    BY DEF Init, TypeOK
  <1>2. Capped /\ Spent
    BY DEF Init, Capped, Spent
  <1>3. ClockBehind
    BY DEF Init, ClockBehind
  <1>4. WindowBound
    <2> SUFFICES ASSUME NEW u \in Users
                 PROVE  passed[u] <= Burst + rate * (elapsed - opened[u])
      BY DEF WindowBound
    <2>1. passed[u] = 0 /\ elapsed - opened[u] = 0
      BY DEF Init
    <2>2. rate * 0 = 0
      BY SMT
    <2> QED
      BY <2>1, <2>2 DEF Burst
  <1> QED
    BY <1>1, <1>2, <1>3, <1>4 DEF IInv

\* The bound never shrinks while the window stays open.
LEMMA BoundGrows ==
  ASSUME NEW o \in Nat, NEW e \in Nat, NEW f \in Nat, e <= f
  PROVE  /\ rate * (e - o) \in Int /\ rate * (f - o) \in Int
         /\ rate * (e - o) <= rate * (f - o)
<1> USE RateAssumption
<1>1. e - o \in Int /\ f - o \in Int /\ e - o <= f - o
  OBVIOUS
<1> QED
  BY <1>1, Monotone, SMT

LEMMA RateOfNone == rate * 0 = 0
  BY RateAssumption, SMT

\* A message of u: its bucket holds t and its window p afterwards.
LEMMA MessageStep ==
  ASSUME IInv, NEW u \in Users, NEW t \in Int, NEW p \in Nat,
         users' = users \cup {u},
         tokens' = [tokens EXCEPT ![u] = t],
         lastUpdate' = [lastUpdate EXCEPT ![u] = now],
         seen' = [seen EXCEPT ![u] = elapsed],
         passed' = [passed EXCEPT ![u] = p],
         UNCHANGED <<now, elapsed, back, opened>>,
         t <= capacity,
         p + t <= capacity + rate * (elapsed - opened[u]),
         p <= Burst + rate * (elapsed - opened[u])
  PROVE  IInv'
<1> USE RateAssumption
<1>1. TypeOK'
  BY DEF IInv, TypeOK
<1>2. Capped'
  BY DEF IInv, TypeOK, Capped
<1>3. ClockBehind'
  BY DEF IInv, TypeOK, ClockBehind
<1>4. Spent'
  <2> SUFFICES ASSUME NEW v \in users'
               PROVE  IF seen'[v] < opened'[v] THEN passed'[v] = 0
                      ELSE passed'[v] + tokens'[v] <= capacity + rate * (seen'[v] - opened'[v])
    BY DEF Spent
  <2>1. CASE v = u
    <3>1. /\ seen'[u] = elapsed /\ opened'[u] = opened[u]
          /\ passed'[u] = p /\ tokens'[u] = t
      BY DEF IInv, TypeOK
    <3>2. ~(elapsed < opened[u])
      BY DEF IInv, TypeOK, ClockBehind
    <3> QED
      BY <2>1, <3>1, <3>2
  <2>2. CASE v # u
    <3>1. v \in users /\ seen'[v] = seen[v] /\ opened'[v] = opened[v]
          /\ passed'[v] = passed[v] /\ tokens'[v] = tokens[v]
      BY <2>2 DEF IInv, TypeOK
    <3> QED
      BY <3>1 DEF IInv, Spent
  <2> QED
    BY <2>1, <2>2
<1>5. WindowBound'
  <2> SUFFICES ASSUME NEW v \in Users
               PROVE  passed'[v] <= Burst + rate * (elapsed - opened[v])
    BY DEF WindowBound, Burst
  <2>1. CASE v = u
    BY <2>1 DEF IInv, TypeOK
  <2>2. CASE v # u
    <3>1. passed'[v] = passed[v]
      BY <2>2 DEF IInv, TypeOK
    <3> QED
      BY <3>1 DEF IInv, WindowBound
  <2> QED
    BY <2>1, <2>2
<1> QED
  BY <1>1, <1>2, <1>3, <1>4, <1>5 DEF IInv

LEMMA NextPreserves == IInv /\ [Next]_vars => IInv'
<1> SUFFICES ASSUME IInv, [Next]_vars PROVE IInv'
  OBVIOUS
<1> USE RateAssumption
<1>1. ASSUME NEW u \in Users, AllowFirst(u) PROVE IInv'
  <2>1. passed[u] = 0 /\ capacity - 1 \in Int /\ 1 \in Nat
    BY <1>1 DEF AllowFirst, IInv, TypeOK
  <2>2. passed' = [passed EXCEPT ![u] = 1]
    BY <1>1, <2>1 DEF AllowFirst, IInv, TypeOK
  <2>3. opened[u] \in Nat /\ elapsed \in Nat /\ opened[u] <= elapsed
    BY DEF IInv, TypeOK, ClockBehind
  <2>4. rate * (elapsed - opened[u]) \in Int /\ 0 <= rate * (elapsed - opened[u])
    <3>1. rate * (opened[u] - opened[u]) = 0
      BY <2>3, RateOfNone
    <3> QED
      BY <2>3, <3>1, BoundGrows
  <2>5. /\ capacity - 1 <= capacity
        /\ 1 + (capacity - 1) <= capacity + rate * (elapsed - opened[u])
        /\ 1 <= Burst + rate * (elapsed - opened[u])
    BY <2>4 DEF Burst
  <2> QED
    BY <1>1, <2>1, <2>2, <2>5, MessageStep DEF AllowFirst
<1>2. ASSUME NEW u \in Users, AllowNext(u) PROVE IInv'
  <2>1. u \in users /\ Refilled(u) >= 1
    BY <1>2 DEF AllowNext, Touch
  <2>2. /\ Refilled(u) \in Int /\ Refilled(u) <= capacity
        /\ opened[u] <= seen[u] =>
             passed[u] + Refilled(u) <= capacity + rate * (elapsed - opened[u])
    BY <2>1, RefillBound
  <2>3. /\ opened[u] \in Nat /\ elapsed \in Nat /\ opened[u] <= elapsed
        /\ seen[u] \in Nat /\ passed[u] \in Nat
    BY DEF IInv, TypeOK, ClockBehind
  <2>4. rate * (elapsed - opened[u]) \in Int /\ 0 <= rate * (elapsed - opened[u])
    <3>1. rate * (opened[u] - opened[u]) = 0
      BY <2>3, RateOfNone
    <3> QED
      BY <2>3, <3>1, BoundGrows
  <2>5. seen[u] < opened[u] => passed[u] = 0
    BY <2>1 DEF IInv, Spent
  <2>6. passed[u] + Refilled(u) <= capacity + rate * (elapsed - opened[u])
    BY <2>2, <2>3, <2>4, <2>5
  <2>7. capacity <= Burst /\ Burst \in Nat
    BY DEF Burst
  <2>8. /\ Refilled(u) - 1 \in Int /\ Refilled(u) - 1 <= capacity
        /\ passed[u] + 1 \in Nat
        /\ (passed[u] + 1) + (Refilled(u) - 1) <= capacity + rate * (elapsed - opened[u])
        /\ passed[u] + 1 <= Burst + rate * (elapsed - opened[u])
    BY <2>1, <2>2, <2>3, <2>4, <2>6, <2>7
  <2>9. users' = users \cup {u} /\ passed' = [passed EXCEPT ![u] = passed[u] + 1]
    BY <1>2, <2>1 DEF AllowNext, Touch
  <2> QED
    BY <1>2, <2>8, <2>9, MessageStep DEF AllowNext, Touch
<1>3. ASSUME NEW u \in Users, Reject(u) PROVE IInv'
  <2>1. u \in users
    BY <1>3 DEF Reject, Touch
  <2>2. /\ Refilled(u) \in Int /\ Refilled(u) <= capacity
        /\ opened[u] <= seen[u] =>
             passed[u] + Refilled(u) <= capacity + rate * (elapsed - opened[u])
    BY <2>1, RefillBound
  <2>3. /\ opened[u] \in Nat /\ elapsed \in Nat /\ opened[u] <= elapsed
        /\ seen[u] \in Nat /\ passed[u] \in Nat
    BY DEF IInv, TypeOK, ClockBehind
  <2>4. rate * (elapsed - opened[u]) \in Int /\ 0 <= rate * (elapsed - opened[u])
    <3>1. rate * (opened[u] - opened[u]) = 0
      BY <2>3, RateOfNone
    <3> QED
      BY <2>3, <3>1, BoundGrows
  <2>5. seen[u] < opened[u] => passed[u] = 0
    BY <2>1 DEF IInv, Spent
  <2>6. passed[u] + Refilled(u) <= capacity + rate * (elapsed - opened[u])
    BY <2>2, <2>3, <2>4, <2>5
  <2>7. passed[u] <= Burst + rate * (elapsed - opened[u])
    BY DEF IInv, WindowBound
  <2>8. users' = users \cup {u} /\ passed' = [passed EXCEPT ![u] = passed[u]]
    BY <1>3, <2>1 DEF Reject, Touch, IInv, TypeOK
  <2> QED
    BY <1>3, <2>2, <2>3, <2>6, <2>7, <2>8, MessageStep DEF Reject, Touch
<1>4. ASSUME NEW u \in Users, OpenWindow(u) PROVE IInv'
  <2>1. TypeOK' /\ Capped' /\ ClockBehind'
    BY <1>4 DEF OpenWindow, IInv, TypeOK, Capped, ClockBehind
  <2>2. ASSUME NEW v \in Users, v # u
        PROVE  opened'[v] = opened[v] /\ passed'[v] = passed[v]
    BY <1>4, <2>2 DEF OpenWindow, IInv, TypeOK
  <2>3. opened'[u] = elapsed /\ passed'[u] = 0 /\ elapsed \in Nat
    BY <1>4 DEF OpenWindow, IInv, TypeOK
  <2>4. rate * (elapsed - elapsed) = 0
    BY <2>3, RateOfNone
  <2>5. Spent'
    <3> SUFFICES ASSUME NEW v \in users
                 PROVE  IF seen[v] < opened'[v] THEN passed'[v] = 0
                        ELSE passed'[v] + tokens[v] <= capacity + rate * (seen[v] - opened'[v])
      BY <1>4 DEF OpenWindow, Spent
    <3>1. CASE v = u
      <4>1. seen[u] \in Nat /\ seen[u] <= elapsed /\ tokens[u] \in Int
        BY <3>1 DEF IInv, TypeOK, ClockBehind
      <4>2. tokens[u] <= capacity
        BY <3>1 DEF IInv, Capped
      <4>3. ~(seen[u] < elapsed) => seen[u] = elapsed
        BY <2>3, <4>1
      <4>4. CASE seen[u] < elapsed
        BY <2>3, <3>1, <4>4
      <4>5. CASE seen[u] = elapsed
        <5>1. rate * (seen[v] - opened'[v]) = 0
          BY <2>3, <2>4, <3>1, <4>5
        <5> QED
          BY <2>3, <3>1, <4>1, <4>2, <4>5, <5>1
      <4> QED
        BY <3>1, <4>3, <4>4, <4>5
    <3>2. CASE v # u
      BY <2>2, <3>2 DEF IInv, TypeOK, Spent
    <3> QED
      BY <3>1, <3>2
  <2>6. WindowBound'
    <3> SUFFICES ASSUME NEW v \in Users
                 PROVE  passed'[v] <= Burst + rate * (elapsed - opened'[v])
      BY <1>4 DEF OpenWindow, WindowBound, Burst
    <3>1. CASE v = u
      BY <2>3, <2>4, <3>1 DEF Burst
    <3>2. CASE v # u
      BY <2>2, <3>2 DEF IInv, WindowBound
    <3> QED
      BY <3>1, <3>2
  <2> QED
    BY <2>1, <2>5, <2>6 DEF IInv
<1>5. CASE Tick
  <2>1. TypeOK' /\ Capped' /\ ClockBehind' /\ Spent'
    BY <1>5 DEF Tick, IInv, TypeOK, Capped, ClockBehind, Spent
  <2>2. WindowBound'
    <3> SUFFICES ASSUME NEW v \in Users
                 PROVE  passed[v] <= Burst + rate * ((elapsed + 1) - opened[v])
      BY <1>5 DEF Tick, WindowBound, Burst
    <3>1. opened[v] \in Nat /\ elapsed \in Nat /\ passed[v] \in Nat
      BY DEF IInv, TypeOK
    <3>2. passed[v] <= Burst + rate * (elapsed - opened[v])
      BY DEF IInv, WindowBound
    <3>3. /\ rate * (elapsed - opened[v]) \in Int
          /\ rate * ((elapsed + 1) - opened[v]) \in Int
          /\ rate * (elapsed - opened[v]) <= rate * ((elapsed + 1) - opened[v])
      BY <3>1, BoundGrows
    <3>4. Burst \in Nat
      BY DEF Burst
    <3> QED
      BY <3>1, <3>2, <3>3, <3>4
  <2> QED
    BY <2>1, <2>2 DEF IInv
<1>6. CASE StepBack
  <2>1. now' \in Nat /\ now' <= now
    BY <1>6 DEF StepBack, IInv, TypeOK
  <2>2. back' \in Nat
    <3>1. now \in Nat /\ back \in Nat
      BY DEF IInv, TypeOK
    <3>2. now - now' \in Nat
      BY <2>1, <3>1, Difference
    <3>3. back' = back + (now - now')
      BY <1>6 DEF StepBack
    <3> QED
      BY <3>1, <3>2, <3>3
  <2>3. TypeOK'
    BY <1>6, <2>1, <2>2 DEF StepBack, IInv, TypeOK
  <2>4. Capped' /\ Spent' /\ WindowBound'
    BY <1>6 DEF StepBack, IInv, Capped, Spent, WindowBound, Burst
  <2>5. ClockBehind'
    BY <1>6, <2>1 DEF StepBack, IInv, TypeOK, ClockBehind
  <2> QED
    BY <2>3, <2>4, <2>5 DEF IInv
<1>7. CASE UNCHANGED vars
  BY <1>7 DEF vars, IInv, TypeOK, Capped, ClockBehind, Spent, WindowBound, Burst
<1> QED
  BY <1>1, <1>2, <1>3, <1>4, <1>5, <1>6, <1>7 DEF Next

-----------------------------------------------------------------------------
\* The state stays well typed (app.go:86-137).
THEOREM TypeCorrect == Spec => []TypeOK
<1>1. IInv => TypeOK
  BY DEF IInv
<1> QED
  BY InitHolds, NextPreserves, <1>1, PTL DEF Spec

\* No bucket ever holds more than one burst (app.go:126-128).
THEOREM BurstSafe == Spec => []BurstBounded
<1>1. IInv => BurstBounded
  BY DEF IInv, Capped, BurstBounded
<1> QED
  BY InitHolds, NextPreserves, <1>1, PTL DEF Spec

\* In any stretch of time at most one burst and rate messages a second pass,
\* whatever the wall clock does (app.go:109-137).
THEOREM WindowSafe == Spec => []WindowBound
<1>1. IInv => WindowBound
  BY DEF IInv
<1> QED
  BY InitHolds, NextPreserves, <1>1, PTL DEF Spec

-----------------------------------------------------------------------------
(* QuietUserPasses.  A clock that is stepped back makes a refill take       *)
(* tokens away; InDebt says that it takes no more than it was stepped back. *)

InDebt ==
  capacity > 0 => \A u \in users :
    /\ tokens[u] + rate * back >= 0
    /\ tokens[u] + rate * (back + (now - lastUpdate[u])) >= 0

QInv == IInv /\ InDebt

\* What the refill leaves in the bucket when it stays below the capacity.
LEMMA RefillInDebt ==
  ASSUME QInv, capacity > 0, NEW u \in users
  PROVE  /\ Refilled(u) \in Int /\ Refilled(u) + rate * back >= 0
         /\ rate > 0 /\ now - lastUpdate[u] > back => Refilled(u) >= 1
<1> USE RateAssumption
<1>1. /\ u \in Users /\ tokens[u] \in Int /\ lastUpdate[u] \in Nat /\ now \in Nat
      /\ back \in Nat /\ rate \in Nat /\ capacity \in Nat
  BY DEF QInv, IInv, TypeOK
<1> DEFINE gap == now - lastUpdate[u]
           gain == rate * gap
           debt == rate * back
<1>2. gap \in Int /\ gain \in Int /\ debt \in Nat /\ gap * rate = gain
  BY <1>1, SMT
<1>3. rate * (back + gap) = debt + gain
  BY <1>1, <1>2, Distributes
<1>4. tokens[u] + debt >= 0 /\ tokens[u] + (debt + gain) >= 0
  BY <1>3 DEF QInv, InDebt
<1>5. Refilled(u) = IF tokens[u] + gain > capacity THEN capacity ELSE tokens[u] + gain
  BY <1>2 DEF Refilled
<1>6. ASSUME rate > 0, gap > back PROVE gain >= debt + 1
  <2>1. rate * (back + 1) = debt + rate /\ rate * (back + 1) <= gain
    <3>1. rate * (back + 1) = debt + rate * 1 /\ rate * 1 = rate
      BY <1>1, Distributes, SMT
    <3>2. back + 1 <= gap
      BY <1>1, <1>2, <1>6
    <3>3. rate * (back + 1) <= rate * gap
      BY <1>1, <1>2, <3>2, Monotone
    <3> QED
      BY <3>1, <3>3
  <2> QED
    BY <1>1, <1>2, <1>6, <2>1
<1> HIDE DEF gain, debt
<1>7. Refilled(u) \in Int /\ Refilled(u) + debt >= 0
  BY <1>1, <1>2, <1>4, <1>5
<1>8. rate > 0 /\ gap > back => Refilled(u) >= 1
  BY <1>1, <1>2, <1>4, <1>5, <1>6
<1> QED
  BY <1>7, <1>8 DEF debt

LEMMA DebtHolds == QInv /\ [Next]_vars => QInv'
<1> SUFFICES ASSUME QInv, [Next]_vars, capacity > 0 PROVE InDebt'
  BY NextPreserves DEF QInv, InDebt
<1> USE RateAssumption
<1>1. /\ IInv' /\ rate \in Nat /\ capacity \in Nat /\ now \in Nat /\ back \in Nat
      /\ \A u \in users : u \in Users /\ tokens[u] \in Int /\ lastUpdate[u] \in Nat
      /\ rate * back \in Nat
  <2>1. now \in Nat /\ back \in Nat /\ rate \in Nat
    BY DEF QInv, IInv, TypeOK
  <2>2. rate * back \in Nat
    BY <2>1, SMT
  <2> QED
    BY <2>1, <2>2, NextPreserves DEF QInv, IInv, TypeOK
<1>2. ASSUME NEW u \in Users, UNCHANGED <<now, back>>, users' \subseteq users \cup {u},
             lastUpdate' = [lastUpdate EXCEPT ![u] = now],
             NEW n \in Int, tokens' = [tokens EXCEPT ![u] = n], n + rate * back >= 0
      PROVE  InDebt'
  <2>1. tokens \in [Users -> Int] /\ lastUpdate \in [Users -> Nat]
    BY DEF QInv, IInv, TypeOK
  <2>2. tokens'[u] = n /\ lastUpdate'[u] = now /\ back + (now - now) = back
    BY <1>1, <1>2, <2>1
  <2>3. \A v \in users : v # u => tokens'[v] = tokens[v] /\ lastUpdate'[v] = lastUpdate[v]
    BY <1>1, <1>2, <2>1
  <2> SUFFICES ASSUME NEW v \in users'
               PROVE  /\ tokens'[v] + rate * back >= 0
                      /\ tokens'[v] + rate * (back + (now - lastUpdate'[v])) >= 0
    BY <1>2 DEF InDebt
  <2>4. CASE v = u
    BY <1>2, <2>2, <2>4
  <2>5. CASE v # u
    BY <1>2, <2>3, <2>5 DEF QInv, InDebt
  <2> QED
    BY <2>4, <2>5
<1>3. ASSUME NEW u \in Users, AllowFirst(u) PROVE InDebt'
  <2>1. capacity - 1 \in Int /\ (capacity - 1) + rate * back >= 0
    BY <1>1
  <2> QED
    BY <1>2, <1>3, <2>1 DEF AllowFirst
<1>4. ASSUME NEW u \in Users, AllowNext(u) \/ Reject(u) PROVE InDebt'
  <2>1. u \in users
    BY <1>4 DEF AllowNext, Reject, Touch
  <2>2. Refilled(u) \in Int /\ Refilled(u) + rate * back >= 0
    BY <2>1, RefillInDebt
  <2>3. CASE AllowNext(u)
    <3>1. Refilled(u) - 1 \in Int /\ (Refilled(u) - 1) + rate * back >= 0
      BY <1>1, <2>2, <2>3 DEF AllowNext
    <3> QED
      BY <1>2, <2>3, <3>1 DEF AllowNext, Touch
  <2>4. CASE Reject(u)
    BY <1>2, <2>2, <2>4 DEF Reject, Touch
  <2> QED
    BY <1>4, <2>3, <2>4
<1>5. CASE Tick
  <2>1. /\ UNCHANGED <<users, tokens, lastUpdate, back>>
        /\ now' = now + 1
    BY <1>5 DEF Tick
  <2> SUFFICES ASSUME NEW u \in users
               PROVE  tokens[u] + rate * (back + ((now + 1) - lastUpdate[u])) >= 0
    BY <2>1 DEF QInv, InDebt
  <2> DEFINE gap == back + (now - lastUpdate[u])
             next == back + ((now + 1) - lastUpdate[u])
  <2>2. gap \in Int /\ next \in Int /\ gap <= next
    BY <1>1
  <2>3. rate * gap <= rate * next /\ rate * gap \in Int /\ rate * next \in Int
    BY <1>1, <2>2, Monotone, SMT
  <2>4. tokens[u] + rate * gap >= 0
    BY DEF QInv, InDebt
  <2> HIDE DEF gap, next
  <2> QED
    BY <1>1, <2>3, <2>4 DEF next
<1>6. CASE StepBack
  <2>1. PICK t \in 0..(now - 1) : now' = t
    BY <1>6 DEF StepBack
  <2>2. UNCHANGED <<users, tokens, lastUpdate>> /\ back' = back + (now - t)
    BY <1>6, <2>1 DEF StepBack
  <2>3. now - t \in Nat /\ rate * (now - t) \in Nat
    BY <1>1, <2>1, SMT
  <2>4. rate * (back + (now - t)) = rate * back + rate * (now - t)
    BY <1>1, <2>3, Distributes
  <2> SUFFICES ASSUME NEW u \in users
               PROVE  /\ tokens[u] + rate * (back + (now - t)) >= 0
                      /\ tokens[u] + rate * ((back + (now - t)) + (t - lastUpdate[u])) >= 0
    BY <2>1, <2>2 DEF InDebt
  <2>5. (back + (now - t)) + (t - lastUpdate[u]) = back + (now - lastUpdate[u])
    BY <1>1, <2>1
  <2>6. /\ tokens[u] + rate * back >= 0
        /\ tokens[u] + rate * (back + (now - lastUpdate[u])) >= 0
    BY DEF QInv, InDebt
  <2> QED
    BY <1>1, <2>3, <2>4, <2>5, <2>6
<1>7. CASE (\E u \in Users : OpenWindow(u)) \/ UNCHANGED vars
  BY <1>7 DEF OpenWindow, vars, QInv, InDebt
<1> QED
  BY <1>3, <1>4, <1>5, <1>6, <1>7 DEF Next

\* A user who has been quiet for longer than the clock was ever stepped back is
\* not rejected, for every rate and capacity (app.go:123-136).
THEOREM QuietPasses == Spec => QuietUserPasses
<1>1. Init => QInv
  BY InitHolds DEF Init, QInv, InDebt
<1>2. QInv => (rate > 0 /\ capacity > 0 =>
                 \A u \in users : Reject(u) => now - lastUpdate[u] <= back)
  <2> SUFFICES ASSUME QInv, rate > 0, capacity > 0, NEW u \in users, Reject(u)
               PROVE  now - lastUpdate[u] <= back
    OBVIOUS
  <2>1. Refilled(u) < 1 /\ Refilled(u) \in Int
    BY RefillInDebt DEF Reject
  <2>2. ~(now - lastUpdate[u] > back)
    BY <2>1, RefillInDebt
  <2> QED
    BY <2>2 DEF QInv, IInv, TypeOK
<1> QED
  BY <1>1, <1>2, DebtHolds, PTL DEF Spec, QuietUserPasses

-----------------------------------------------------------------------------
(***************************************************************************)
(* TextFilter, which handleChat asks after the limiter, for any number of  *)
(* versions: an editor that truncates, writes and removes the file at any  *)
(* moment never makes the loader take for loaded what it has not loaded.   *)
(*                                                                         *)
(* UnchangedIsLoaded needs what a stamp taken earlier says of the file as  *)
(* it is now: it is Past, so no later change can have it again unless two  *)
(* states share a stamp, and while the file still has the stamp the loader *)
(* has seen, what the loader has read is the file, and is whole (Faithful).*)
(***************************************************************************)

FTyped ==
  /\ file \in Versions \cup {Empty, Missing}
  /\ version \in Nat /\ mtime \in Nat \ {0}
  /\ doubled \in BOOLEAN /\ touched \in BOOLEAN
  /\ stamp \in Nat \X Nat /\ stat \in Nat \X Nat

\* A stamp the file has or had.
Past(x) == x[1] <= mtime /\ (x[1] = mtime => x[2] \in given)

Stamped == Past(stamp) /\ Past(stat) /\ (Present => Size(file) \in given)

Faithful ==
  /\ touched => pc = "read"
  /\ pc \in {"read", "store"} /\ Present /\ stat = FileStamp /\ ~doubled
       => read = file /\ ~touched
  /\ Present /\ stamp = FileStamp /\ ~doubled => current = file

FInv == FTyped /\ Stamped /\ Faithful

-----------------------------------------------------------------------------
LEMMA SizesKnown ==
  /\ \A f \in Versions \cup {Empty} : Size(f) \in Nat
  /\ Missing \notin Versions /\ Missing # Empty
<1>1. MaxVersion \in Nat /\ SizeOf \in [Versions -> Nat \ {0}]
  BY FilterAssumption
<1> QED
  BY <1>1 DEF Size, Versions, Missing, Empty

LEMMA InitLoaded ==
  ASSUME FilterInit PROVE FInv
<1>1. /\ file \in {0, Missing} /\ version = 0 /\ mtime = 1 /\ given = {SizeOf[0]}
      /\ stamp = <<0, 0>> /\ stat = <<0, 0>> /\ pc = "load"
      /\ doubled = FALSE /\ touched = FALSE
  BY DEF FilterInit, NoStamp
<1>2. MaxVersion \in Nat
  BY FilterAssumption
<1>3. FTyped
  <2>1. file \in Versions \cup {Empty, Missing}
    BY <1>1, <1>2 DEF Versions
  <2>2. doubled \in BOOLEAN /\ touched \in BOOLEAN
    BY <1>1
  <2> QED
    BY <1>1, <2>1, <2>2 DEF FTyped
<1>4. Stamped
  BY <1>1, <1>2 DEF Stamped, Past, Present, Size, Empty
<1>5. Faithful
  BY <1>1 DEF Faithful, FileStamp
<1> QED
  BY <1>3, <1>4, <1>5 DEF FInv

\* A write or a truncation: no stamp taken before is the file's any more.
LEMMA ChangesHolds ==
  ASSUME FInv, NEW f \in Versions \cup {Empty}, Changes(f), version' \in Nat
  PROVE  FInv'
<1>1. /\ UNCHANGED <<current, stamp, pc, stat, read>>
      /\ file' = f /\ mtime' \in {mtime, mtime + 1}
      /\ given' = (IF mtime' = mtime THEN given ELSE {}) \cup {Size(f)}
  BY DEF Changes, loader
<1>2. doubled' \in BOOLEAN /\ touched' \in BOOLEAN /\ (touched' => pc = "read")
      /\ (~doubled' => ~doubled)
      /\ (~doubled' => Size(f) \notin (IF mtime' = mtime THEN given ELSE {}))
  BY DEF Changes
<1>3. PICK t \in Nat \ {0} : mtime = t
  BY DEF FInv, FTyped
<1>4. PICK u \in {t, t + 1} : mtime' = u
  BY <1>1, <1>3
<1>5. Size(f) \in Nat
  BY SizesKnown DEF FInv
<1>6. FTyped'
  BY <1>1, <1>2, <1>3, <1>4 DEF FInv, FTyped
<1>7. ASSUME NEW x \in Nat \X Nat, Past(x)
      PROVE  x[1] <= u /\ (x[1] = u => x[2] \in given') /\ (~doubled' => x # <<u, Size(f)>>)
  <2>1. x[1] \in Nat /\ x[1] <= t /\ (x[1] = t => x[2] \in given)
    BY <1>3, <1>7 DEF Past
  <2>2. CASE u = t
    BY <1>1, <1>2, <1>3, <1>4, <2>1, <2>2
  <2>3. CASE u = t + 1
    BY <1>3, <2>1, <2>3
  <2> QED
    BY <1>4, <2>2, <2>3
<1>8. /\ stamp \in Nat \X Nat /\ stat \in Nat \X Nat /\ Past(stamp) /\ Past(stat)
  BY DEF FInv, FTyped, Stamped
<1>9. Stamped'
  BY <1>1, <1>4, <1>7, <1>8 DEF Stamped, Past
<1>10. ~doubled' => stamp' # FileStamp' /\ stat' # FileStamp'
  BY <1>1, <1>4, <1>7, <1>8 DEF FileStamp
<1>11. Faithful'
  BY <1>1, <1>2, <1>10 DEF Faithful
<1> QED
  BY <1>6, <1>9, <1>11 DEF FInv

LEMMA EditorHolds ==
  ASSUME FInv, Writes \/ Truncates \/ Deletes
  PROVE  FInv'
<1>1. CASE Writes
  <2>1. version + 1 \in Versions /\ version' \in Nat /\ Changes(version + 1)
    BY <1>1, FilterAssumption DEF Writes, FInv, FTyped, Versions
  <2> QED
    BY <2>1, ChangesHolds
<1>2. CASE Truncates
  BY <1>2, ChangesHolds DEF Truncates, FInv, FTyped
<1>3. CASE Deletes
  <2>1. /\ UNCHANGED <<version, mtime, given, doubled, current, stamp, pc, stat, read>>
        /\ ~Present'
    BY <1>3 DEF Deletes, loader, Present
  <2>2. touched' \in BOOLEAN /\ (touched' => pc = "read")
    BY <1>3 DEF Deletes
  <2>3. FTyped'
    BY <1>3, <2>1, <2>2 DEF FInv, FTyped, Deletes
  <2>4. Stamped' /\ Faithful'
    BY <2>1, <2>2 DEF FInv, Stamped, Past, Faithful
  <2> QED
    BY <2>3, <2>4 DEF FInv
<1> QED
  BY <1>1, <1>2, <1>3

\* The loader reads what it has opened, and remembers the stamp it had seen
\* before it opened.
LEMMA LoadHolds ==
  ASSUME FInv, Load
  PROVE  FInv'
<1>1. UNCHANGED <<file, version, mtime, given, doubled>> /\ touched \in BOOLEAN
  BY DEF Load, Poll, LoadStat, LoadOpen, LoadRead,
         LoadStore, editor, FInv, FTyped
<1>2. /\ Present' = Present /\ FileStamp' = FileStamp
      /\ \A x : Past(x)' = Past(x)
  BY <1>1 DEF Present, FileStamp, Past
<1>3. CASE Poll
  <2>1. UNCHANGED <<touched, current, stamp, stat, read>> /\ pc = "idle" /\ pc' \in {"load", "idle"}
    BY <1>3 DEF Poll
  <2> QED
    BY <1>1, <1>2, <2>1 DEF FInv, FTyped, Stamped, Faithful
<1>4. CASE LoadStat
  <2>1. /\ UNCHANGED <<touched, current, stamp, read>> /\ pc = "load" /\ pc' \in {"open", "idle"}
        /\ stat' = stat \/ (Present /\ stat' = FileStamp)
    BY <1>4 DEF LoadStat
  <2>2. Present => FileStamp \in Nat \X Nat /\ Past(FileStamp)
    BY SizesKnown DEF Present, FileStamp, Past, FInv, FTyped, Stamped
  <2>3. FTyped' /\ Stamped'
    BY <1>1, <1>2, <2>1, <2>2 DEF FInv, FTyped, Stamped
  <2>4. Faithful'
    BY <1>1, <1>2, <2>1 DEF FInv, Faithful
  <2> QED
    BY <2>3, <2>4 DEF FInv
<1>5. CASE LoadOpen
  <2>1. /\ UNCHANGED <<touched, current, stamp, stat>> /\ pc = "open"
        /\ (pc' = "read" /\ read' = file) \/ pc' = "idle"
    BY <1>5 DEF LoadOpen
  <2>2. FTyped' /\ Stamped'
    BY <1>1, <1>2, <2>1 DEF FInv, FTyped, Stamped
  <2>3. Faithful'
    BY <1>1, <1>2, <2>1 DEF FInv, Faithful
  <2> QED
    BY <2>2, <2>3 DEF FInv
<1>6. CASE LoadRead
  <2>1. /\ UNCHANGED <<current, stamp, stat>> /\ pc = "read"
        /\ (pc' = "store" /\ read' \in Scanned) \/ pc' = "idle"
    BY <1>6 DEF LoadRead
  <2>2. touched' = FALSE
    BY <1>6 DEF LoadRead
  <2>3. ~touched => Scanned = {read}
    BY DEF Scanned
  <2>4. touched' \in BOOLEAN
    BY <2>2
  <2>5. FTyped' /\ Stamped'
    BY <1>1, <1>2, <2>1, <2>4 DEF FInv, FTyped, Stamped
  <2>6. Faithful'
    BY <1>1, <1>2, <2>1, <2>2, <2>3 DEF FInv, Faithful
  <2> QED
    BY <2>5, <2>6 DEF FInv
<1>7. CASE LoadStore
  <2>1. UNCHANGED <<touched, stat, read>> /\ pc = "store" /\ current' = read /\ stamp' = stat
        /\ pc' = "idle"
    BY <1>7 DEF LoadStore
  <2>2. FTyped' /\ Stamped'
    BY <1>1, <1>2, <2>1 DEF FInv, FTyped, Stamped
  <2>3. Faithful'
    BY <1>1, <1>2, <2>1 DEF FInv, Faithful
  <2> QED
    BY <2>2, <2>3 DEF FInv
<1> QED
  BY <1>3, <1>4, <1>5, <1>6, <1>7 DEF Load

LEMMA NextLoaded == FInv /\ [FilterNext]_filterVars => FInv'
<1> SUFFICES ASSUME FInv, [FilterNext]_filterVars PROVE FInv'
  OBVIOUS
<1>1. CASE UNCHANGED filterVars
  BY <1>1 DEF filterVars, editor, loader, FInv, FTyped, Stamped, Past, Faithful,
         Present, FileStamp
<1> QED
  BY <1>1, EditorHolds, LoadHolds DEF FilterNext

\* Unless two changes in one tick of the clock kept the size, a stamp that says
\* the file has not changed is the stamp of the words in use, wherever between
\* Stat, open, read and store the editor came (reloadable_filter.go:81-121).
THEOREM LoadedSafe == FilterSpec => []UnchangedIsLoaded
<1>1. FInv => UnchangedIsLoaded
  BY DEF FInv, Faithful, UnchangedIsLoaded, Loadable
<1>2. FilterInit => FInv
  BY InitLoaded
<1> QED
  BY <1>1, <1>2, NextLoaded, PTL DEF FilterSpec

-----------------------------------------------------------------------------
(* Type correctness. *)

\* A version is written once and truncates the one before at most once, so the
\* bound on versions bounds the clock.
Clock == mtime <= 2 * version + 2 /\ (file \in Versions => mtime <= 2 * version + 1)

\* What could not be read is not stored.
Checked == pc = "store" => read \notin Unreadable

Kept == FilterTypeOK /\ Clock /\ Checked

LEMMA Numbers ==
  /\ MaxVersion \in Nat /\ Versions = 0..MaxVersion
  /\ Empty \notin Versions
  /\ Missing \notin Versions \cup {Empty}
  /\ Unreadable \cap {Fallback, Missing, Empty, Torn} = {}
<1>1. MaxVersion \in Nat /\ Unreadable \subseteq 0..MaxVersion
  BY FilterAssumption DEF Versions
<1> QED
  BY <1>1 DEF Versions, Fallback, Missing, Empty, Torn

LEMMA StampsKnown ==
  ASSUME FilterTypeOK, Present
  PROVE  FileStamp \in Stamps
BY DEF FilterTypeOK, FileStamp, Stamps, Sizes, Present

LEMMA InitKept ==
  ASSUME FilterInit PROVE Kept
<1>1. /\ file \in {0, Missing} /\ version = 0 /\ mtime = 1 /\ given = {Size(0)}
      /\ current = Fallback /\ stamp = NoStamp /\ pc = "load"
      /\ stat = NoStamp /\ read = Fallback
      /\ doubled \in BOOLEAN /\ touched \in BOOLEAN /\ force \in BOOLEAN
  <2>1. Size(0) = SizeOf[0]
    BY Numbers DEF Size, Empty
  <2> QED
    BY <2>1 DEF FilterInit
<1>2. 0 \in Versions /\ given \subseteq Sizes /\ NoStamp \in Stamps
  BY <1>1, Numbers DEF Sizes, Stamps
<1>3. mtime \in 1..(2 * MaxVersion + 1)
  BY <1>1, Numbers
<1>4. FilterTypeOK
  BY <1>1, <1>2, <1>3 DEF FilterTypeOK
<1> QED
  BY <1>1, <1>4 DEF Kept, Clock, Checked

LEMMA ChangesKept ==
  ASSUME Kept, NEW f \in Versions \cup {Empty}, Changes(f),
         version < MaxVersion,
         \/ f = version + 1 /\ version' = version + 1
         \/ f = Empty /\ file \in Versions /\ version' = version
  PROVE  Kept'
<1>1. /\ UNCHANGED <<current, stamp, pc, stat, read, force>>
      /\ file' = f /\ mtime' \in {mtime, mtime + 1}
      /\ given' \subseteq given \cup {Size(f)}
  BY DEF Changes, loader
<1>2. doubled' \in BOOLEAN /\ touched' \in BOOLEAN
  BY DEF Changes
<1>3. version \in 0..MaxVersion /\ mtime \in Nat \ {0} /\ MaxVersion \in Nat
  BY Numbers DEF Kept, FilterTypeOK
<1>4. /\ version' \in Versions /\ mtime' \in 1..(2 * MaxVersion + 1)
      /\ mtime' <= 2 * version' + 2 /\ (f \in Versions => mtime' <= 2 * version' + 1)
  BY <1>1, <1>3, Numbers DEF Kept, Clock
<1>5. given' \subseteq Sizes
  BY <1>1 DEF Kept, FilterTypeOK, Sizes
<1>6. FilterTypeOK'
  BY <1>1, <1>2, <1>4, <1>5 DEF Kept, FilterTypeOK, Stamps, Sizes, Size
<1>7. Clock' /\ Checked'
  BY <1>1, <1>4 DEF Kept, Clock, Checked
<1> QED
  BY <1>6, <1>7 DEF Kept

LEMMA EditorKept ==
  ASSUME Kept, Writes \/ Truncates \/ Deletes
  PROVE  Kept'
<1>1. CASE Writes
  <2>1. version + 1 \in Versions /\ Changes(version + 1)
    BY <1>1, Numbers DEF Writes, Kept, FilterTypeOK
  <2> QED
    BY <1>1, <2>1, ChangesKept DEF Writes
<1>2. CASE Truncates
  <2>1. file \in Versions
    BY <1>2 DEF Truncates, Present, Kept, FilterTypeOK
  <2> QED
    BY <1>2, <2>1, ChangesKept DEF Truncates
<1>3. CASE Deletes
  <2>1. /\ UNCHANGED <<version, mtime, given, doubled, current, stamp, pc, stat, read, force>>
        /\ file' = Missing /\ touched' \in BOOLEAN
    BY <1>3 DEF Deletes, loader
  <2>2. FilterTypeOK'
    BY <2>1 DEF Kept, FilterTypeOK, Stamps, Sizes, Size
  <2> QED
    BY <2>1, <2>2, Numbers DEF Kept, Clock, Checked
<1> QED
  BY <1>1, <1>2, <1>3

LEMMA LoadKept ==
  ASSUME Kept, Load
  PROVE  Kept'
<1>1. UNCHANGED <<file, version, mtime, given, doubled>>
  BY DEF Load, Poll, LoadStat, LoadOpen, LoadRead,
         LoadStore, editor
<1>2. Clock'
  BY <1>1 DEF Kept, Clock
<1>3. /\ file \in Versions \cup {Empty, Missing} /\ version \in Versions
      /\ mtime \in 1..(2 * MaxVersion + 1) /\ given \subseteq Sizes /\ doubled \in BOOLEAN
  BY DEF Kept, FilterTypeOK
<1>4. SUFFICES /\ touched' \in BOOLEAN /\ force' \in BOOLEAN
               /\ pc' \in {"idle", "load", "open", "read", "store"}
               /\ stamp' \in Stamps /\ stat' \in Stamps
               /\ current' \in (Versions \ Unreadable)
                            \cup {Fallback, Empty, Torn}
               /\ read' \in Versions \cup {Fallback, Empty, Torn}
               /\ pc' = "store" => read' \notin Unreadable
  BY <1>1, <1>2, <1>3 DEF Kept, FilterTypeOK, Checked, Stamps, Sizes, Size
<1>5. /\ touched \in BOOLEAN /\ force \in BOOLEAN
      /\ stamp \in Stamps /\ stat \in Stamps
      /\ current \in (Versions \ Unreadable)
                  \cup {Fallback, Empty, Torn}
      /\ read \in Versions \cup {Fallback, Empty, Torn}
      /\ pc = "store" => read \notin Unreadable
  BY DEF Kept, FilterTypeOK, Checked
<1>6. CASE Poll
  <2>1. /\ UNCHANGED <<touched, current, stamp, stat, read>> /\ pc' \in {"load", "idle"}
        /\ force' = FALSE
    BY <1>6 DEF Poll
  <2> QED
    BY <1>5, <2>1
<1>7. CASE LoadStat
  <2>1. /\ UNCHANGED <<touched, current, stamp, force, read>> /\ pc' \in {"open", "idle"}
        /\ stat' = stat \/ (Present /\ stat' = FileStamp)
    BY <1>7 DEF LoadStat
  <2>2. Present => FileStamp \in Stamps
    BY StampsKnown DEF Kept
  <2> QED
    BY <1>5, <2>1, <2>2
<1>8. CASE LoadOpen
  <2>1. /\ UNCHANGED <<touched, current, stamp, force, stat>> /\ pc' \in {"read", "idle"}
        /\ read' = read \/ (Present /\ read' = file)
    BY <1>8 DEF LoadOpen
  <2> QED
    BY <1>3, <1>5, <2>1 DEF Present
<1>9. CASE LoadRead
  <2>1. /\ UNCHANGED <<current, stamp, force, stat>>
        /\ \/ read' \in Scanned \ Unreadable /\ pc' = "store"
           \/ read' = read /\ pc' = "idle"
    BY <1>9 DEF LoadRead
  <2>2. touched' = FALSE
    BY <1>9 DEF LoadRead
  <2>3. Scanned \subseteq Versions \cup {Fallback, Empty, Torn}
    BY <1>3, <1>5 DEF Scanned
  <2> QED
    BY <1>5, <2>1, <2>2, <2>3
<1>10. CASE LoadStore
  <2>1. /\ UNCHANGED <<touched, force, stat, read>> /\ pc = "store" /\ pc' = "idle"
        /\ current' = read /\ stamp' = stat
    BY <1>10 DEF LoadStore
  <2> QED
    BY <1>5, <2>1
<1> QED
  BY <1>6, <1>7, <1>8, <1>9, <1>10 DEF Load

\* The words in use are the fallback or come from a file that could be read,
\* whatever is deleted, truncated or damaged while it is loaded
\* (reloadable_filter.go:100-121, word_loader.go:28-30).
THEOREM FilterTypeCorrect == FilterSpec => []FilterTypeOK
<1>1. Kept => FilterTypeOK
  BY DEF Kept
<1>2. Kept /\ [FilterNext]_filterVars => Kept'
  <2> SUFFICES ASSUME Kept, [FilterNext]_filterVars PROVE Kept'
    OBVIOUS
  <2>1. CASE UNCHANGED filterVars
    BY <2>1 DEF filterVars, editor, loader, Kept, FilterTypeOK, Clock, Checked,
           Stamps, Sizes, Size
  <2> QED
    BY <2>1, EditorKept, LoadKept DEF FilterNext
<1>3. FilterInit => Kept
  BY InitKept
<1> QED
  BY <1>1, <1>2, <1>3, PTL DEF FilterSpec
=============================================================================
