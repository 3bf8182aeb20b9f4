----------------------- MODULE WebSocketStreamProofs -----------------------
(***************************************************************************)
(* Proofs about WebSocketStream and Frames, for any frames, in pieces of   *)
(* any size, with a pool that may refuse any of them and goroutines that   *)
(* queue frames of their own at any moment: the frames a connection has    *)
(* handled, with those refused, are a beginning of what was sent, and all  *)
(* that has come whenever it waits; no client is closed without a cause; a *)
(* frame's length is read as it was written; and each ping and close frame *)
(* that was handled has its answer in the queue.                           *)
(*                                                                         *)
(* KeptAt says where the decoder stands: m frames are gone through, those  *)
(* pending follow, and the buffer begins behind them, with less than a     *)
(* frame left over between two pieces.  The rest is counting: where a      *)
(* frame ends is a sum over those before it (EndsSound, EndsRise), and the *)
(* frames that are complete are consecutive, so that they have one order   *)
(* (InOrderSound).  For the replies, what is queued for the client is read *)
(* kind by kind: Longer says how the lengths of a kind grow with a frame   *)
(* queued behind the others.                                               *)
(***************************************************************************)
EXTENDS WebSocketStream, TLAPS, FiniteSetTheorems, SequenceTheorems, WellFoundedInduction

Typed ==
  /\ request \in Request /\ frames \in Seq(ClientFrames)
  /\ HandshakeDone \in BOOLEAN /\ closing \in BOOLEAN /\ closed \in BOOLEAN
  /\ received \in Nat /\ consumed \in Nat

\* Each frame ends a frame's size after the one before it, and only the last
\* one may be refused.
Cut ==
  /\ ends \in [0..Len(frames) -> Nat] /\ ends[0] = 0
  /\ \A i \in 1..Len(frames) : ends[i] = ends[i - 1] + Size(frames[i])

\* The frames after m, up to h, are pending.
Waiting(m, h) == h \in m..Len(frames) /\ pending = [k \in 1..(h - m) |-> m + k]

\* The first m frames are gone through.
Done(m) ==
  /\ m \in 0..Len(frames) /\ handled = InOrder((1..m) \ dropped)
  /\ dropped \subseteq {i \in 1..m : frames[i].op = "binary"}
  /\ \A i \in 1..m : frames[i].op = "close" => i = m /\ closing

\* The first h frames are decoded, and the next one has not come.
Taken(h) ==
  /\ consumed <= received /\ (~HandshakeDone => h = 0 /\ consumed = 0)
  /\ \A i \in 1..h : ~BadHeader(frames[i])
  /\ ~closing => consumed = ends[h]
  /\ ~closing /\ HandshakeDone =>
       /\ received <= ends[Len(frames)]
       /\ \A i \in 1..Len(frames) : ends[i] <= received => i <= h

KeptAt(m, h) ==
  /\ Waiting(m, h) /\ Done(m) /\ Taken(h)
  /\ closing => pending = <<>>

Kept == \E m, h \in 0..Len(frames) : KeptAt(m, h)

IInv == Typed /\ Cut /\ Kept /\ ClosedForCause

-----------------------------------------------------------------------------
(* Counting.  What starts at 0 and is carried from each number to the next   *)
(* holds of all of them.                                                     *)

LEMMA LeastNat ==
  ASSUME NEW T \in SUBSET Nat, T # {}
  PROVE  \E x \in T : \A y \in T : x <= y
<1>1. IsWellFoundedOn(OpToRel(<, Nat), Nat)
  BY NatLessThanWellFounded
<1>2. PICK x \in T : \A y \in T : ~ (<<y, x>> \in OpToRel(<, Nat))
  BY <1>1, WFMin
<1>3. \A y \in T : <<y, x>> \in OpToRel(<, Nat) <=> y < x
  BY DEF OpToRel
<1>4. \A y \in T : ~(y < x) /\ y \in Nat /\ x \in Nat
  BY <1>2, <1>3
<1>5. \A y \in T : x <= y
  BY <1>4, SMT
<1> QED
  BY <1>5

LEMMA CountInduction ==
  ASSUME NEW N, 0 \in N, \A n \in Nat : n \in N => n + 1 \in N
  PROVE  Nat \subseteq N
<1> SUFFICES ASSUME Nat \ N # {} PROVE FALSE
  OBVIOUS
<1>1. PICK x \in Nat \ N : \A y \in Nat \ N : x <= y
  BY LeastNat
<1>2. x - 1 \in Nat /\ x - 1 \notin Nat \ N
  BY <1>1
<1> QED
  BY <1>1, <1>2

LEMMA MaxSound ==
  ASSUME NEW L \in Nat, NEW S \in SUBSET (0..L), S # {}
  PROVE  Max(S) \in S /\ \A y \in S : y <= Max(S)
<1> DEFINE T == {n \in Nat : \A y \in S : y <= n}
<1>1. T \in SUBSET Nat /\ L \in T
  OBVIOUS
<1>2. PICK x \in T : \A y \in T : x <= y
  BY <1>1, LeastNat
<1>3. x \in S
  <2> SUFFICES ASSUME x \notin S PROVE FALSE
    OBVIOUS
  <2>1. \A y \in S : y <= x /\ y # x /\ y \in Nat /\ x \in Nat
    BY <1>2
  <2>2. \A y \in S : y <= x - 1
    BY <2>1
  <2>3. x - 1 \in Nat
    <3>1. PICK y \in S : y \in Nat /\ y <= x - 1 /\ x \in Nat
      BY <2>1, <2>2
    <3> QED
      BY <3>1
  <2>4. x - 1 \in T
    BY <2>2, <2>3
  <2> QED
    BY <1>2, <2>1, <2>4
<1>4. \A y \in S : x >= y
  BY <1>2
<1>5. Max(S) \in S /\ \A y \in S : Max(S) >= y
  BY <1>3, <1>4 DEF Max
<1> QED
  BY <1>5

-----------------------------------------------------------------------------
(* A set of numbers in order: there is one way to put it, and of two sets    *)
(* one above the other it is the one after the other.                        *)

Orders(q, S) ==
  /\ q \in [1..Cardinality(S) -> S]
  /\ \A k, l \in 1..Cardinality(S) : k < l => q[k] < q[l]

LEMMA Numbers ==
  ASSUME NEW L \in Nat, NEW S \in SUBSET (0..L)
  PROVE  IsFiniteSet(S) /\ Cardinality(S) \in Nat /\ \A x \in S : x \in Nat
<1>1. IsFiniteSet(0..L)
  <2>1. 0 \in Int /\ L \in Int
    OBVIOUS
  <2> QED
    BY <2>1, FS_Interval
<1>2. IsFiniteSet(S)
  BY <1>1, FS_Subset
<1> QED
  BY <1>2, FS_CardinalityType

LEMMA CardinalityTo ==
  ASSUME NEW c \in Nat
  PROVE  IsFiniteSet(1..c) /\ Cardinality(1..c) = c
<1>1. 1 \in Int /\ c \in Int
  OBVIOUS
<1>2. IsFiniteSet(1..c) /\ Cardinality(1..c) = IF 1 > c THEN 0 ELSE c - 1 + 1
  BY <1>1, FS_Interval
<1> QED
  BY <1>2

\* What is put in order is all there.
LEMMA OrderOnto ==
  ASSUME NEW L \in Nat, NEW S \in SUBSET (0..L), NEW q, Orders(q, S), NEW x \in S
  PROVE  \E k \in 1..Cardinality(S) : q[k] = x
<1> PICK c \in Nat : c = Cardinality(S)
  BY Numbers
<1>1. q \in [1..c -> S] /\ \A k, l \in 1..c : k < l => q[k] < q[l]
  BY DEF Orders
<1>2. ASSUME NEW k \in 1..c, NEW l \in 1..c, q[k] = q[l] PROVE k = l
  <2>1. ~(k < l) /\ ~(l < k)
    <3>1. q[k] \in Nat /\ q[l] \in Nat
      BY <1>1, Numbers
    <3> QED
      BY <1>1, <1>2, <3>1
  <2> QED
    BY <2>1
<1>3. q \in Injection(1..c, S)
  BY <1>1, <1>2 DEF Injection, IsInjective
<1>4. IsFiniteSet(S) /\ Cardinality(1..c) = Cardinality(S)
  BY Numbers, CardinalityTo
<1>5. q \in Surjection(1..c, S)
  BY <1>3, <1>4, FS_Injection
<1> QED
  BY <1>5 DEF Surjection

LEMMA OrderUnique ==
  ASSUME NEW L \in Nat, NEW S \in SUBSET (0..L), NEW q, Orders(q, S), NEW r, Orders(r, S)
  PROVE  q = r
<1>0. \A x \in S : /\ \E k \in 1..Cardinality(S) : q[k] = x
                  /\ \E k \in 1..Cardinality(S) : r[k] = x
  BY OrderOnto
<1> PICK c \in Nat : c = Cardinality(S)
  BY Numbers
<1>1. /\ q \in [1..c -> S] /\ \A k, l \in 1..c : k < l => q[k] < q[l]
      /\ r \in [1..c -> S] /\ \A k, l \in 1..c : k < l => r[k] < r[l]
  BY DEF Orders
<1>2. \A k \in 1..c : q[k] \in Nat /\ r[k] \in Nat
  BY <1>1, Numbers
<1> DEFINE D == {k \in 1..c : q[k] # r[k]}
<1>3. D = {}
  <2> SUFFICES ASSUME D # {} PROVE FALSE
    OBVIOUS
  <2>0. D \in SUBSET Nat
    OBVIOUS
  <2>1. PICK k \in D : \A l \in D : k <= l
    BY <2>0, LeastNat
  <2>2. \A l \in 1..c : l < k => q[l] = r[l]
    BY <2>1
  <2>3. PICK i \in 1..c : r[i] = q[k]
    <3>1. q[k] \in S
      BY <1>1
    <3> QED
      BY <1>0, <3>1
  <2>4. PICK j \in 1..c : q[j] = r[k]
    <3>1. r[k] \in S
      BY <1>1
    <3> QED
      BY <1>0, <3>1
  <2>5. k \in 1..c /\ q[k] # r[k] /\ q[k] \in Nat /\ r[k] \in Nat
    BY <1>2
  <2>6. i # k /\ j # k
    BY <2>3, <2>4, <2>5
  <2>7. i < k => FALSE
    BY <1>1, <1>2, <2>2, <2>3, <2>5
  <2>8. j < k => FALSE
    BY <1>1, <1>2, <2>2, <2>4, <2>5
  <2>9. i > k /\ j > k
    BY <2>5, <2>6, <2>7, <2>8
  <2>10. r[k] < q[k] /\ q[k] < r[k]
    BY <1>1, <2>3, <2>4, <2>5, <2>9
  <2> QED
    BY <2>5, <2>10
<1> QED
  BY <1>1, <1>3

LEMMA OrderExists ==
  ASSUME NEW L \in Nat, NEW S \in SUBSET (0..L)
  PROVE  \E q : Orders(q, S)
<1> DEFINE N == {n \in Nat : \A T \in SUBSET (0..L) :
                              Cardinality(T) = n => \E q : Orders(q, T)}
<1>1. 0 \in N
  <2> SUFFICES ASSUME NEW T \in SUBSET (0..L), Cardinality(T) = 0 PROVE \E q : Orders(q, T)
    OBVIOUS
  <2>1. [k \in 1..0 |-> k] \in [1..0 -> T]
    OBVIOUS
  <2>2. Orders([k \in 1..0 |-> k], T)
    BY <2>1 DEF Orders
  <2> QED
    BY <2>2
<1>2. ASSUME NEW n \in Nat, n \in N PROVE n + 1 \in N
  <2> SUFFICES ASSUME NEW T \in SUBSET (0..L), Cardinality(T) = n + 1
               PROVE  \E q : Orders(q, T)
    OBVIOUS
  <2>1. IsFiniteSet(T) /\ T # {}
    <3>1. IsFiniteSet(T)
      BY Numbers
    <3>2. Cardinality(T) # 0
      OBVIOUS
    <3> QED
      BY <3>1, <3>2, FS_EmptySet
  <2> PICK x \in T : \A y \in T : y <= x
    BY <2>1, MaxSound
  <2>2. Cardinality(T \ {x}) = n
    BY <2>1, FS_RemoveElement
  <2>3. PICK q : Orders(q, T \ {x})
    BY <1>2, <2>2
  <2>4. q \in [1..n -> T \ {x}] /\ \A k, l \in 1..n : k < l => q[k] < q[l]
    BY <2>2, <2>3 DEF Orders
  <2> DEFINE r == [k \in 1..(n + 1) |-> IF k = n + 1 THEN x ELSE q[k]]
  <2>5. \A y \in T \ {x} : y \in T /\ y < x
    <3>1. \A y \in T : y \in Nat
      OBVIOUS
    <3> QED
      BY <3>1
  <2>6. ASSUME NEW k \in 1..n PROVE r[k] = q[k] /\ r[k] \in T /\ r[k] < x
    <3>1. k \in 1..(n + 1) /\ k # n + 1
      OBVIOUS
    <3>2. r[k] = q[k] /\ q[k] \in T \ {x}
      BY <2>4, <3>1
    <3> HIDE DEF r
    <3> QED
      BY <2>5, <3>2
  <2>7. r \in [1..(n + 1) -> T] /\ r[n + 1] = x
    BY <2>6
  <2>8. ASSUME NEW k \in 1..(n + 1), NEW l \in 1..(n + 1), k < l PROVE r[k] < r[l]
    <3> HIDE DEF r
    <3>1. k \in 1..n /\ (l \in 1..n \/ l = n + 1)
      BY <2>8
    <3> QED
      BY <2>4, <2>6, <2>7, <2>8, <3>1
  <2>9. Orders(r, T)
    <3> HIDE DEF r
    <3> QED
      BY <2>7, <2>8 DEF Orders
  <2> QED
    BY <2>9
<1>3. Nat \subseteq N
  <2> HIDE DEF N
  <2> QED
    BY <1>1, <1>2, CountInduction
<1> QED
  BY <1>3, Numbers

LEMMA InOrderOrders ==
  ASSUME NEW L \in Nat, NEW S \in SUBSET (0..L)
  PROVE  /\ Orders(InOrder(S), S)
         /\ \A q : Orders(q, S) => InOrder(S) = q
<1>1. PICK q : Orders(q, S)
  BY OrderExists
<1>2. Orders(InOrder(S), S)
  BY <1>1 DEF InOrder, Orders
<1> QED
  BY <1>2, OrderUnique

\* Consecutive numbers.
LEMMA InOrderSound ==
  ASSUME NEW a \in Nat, NEW b \in Nat, a <= b
  PROVE  /\ Cardinality((a + 1)..b) = b - a
         /\ InOrder((a + 1)..b) = [k \in 1..(b - a) |-> a + k]
<1> DEFINE f == [k \in 1..(b - a) |-> a + k]
<1>1. Cardinality((a + 1)..b) = b - a
  <2>1. a + 1 \in Int /\ b \in Int
    OBVIOUS
  <2>2. Cardinality((a + 1)..b) = IF a + 1 > b THEN 0 ELSE b - (a + 1) + 1
    BY <2>1, FS_Interval
  <2> QED
    BY <2>2
<1>2. /\ f \in [1..(b - a) -> (a + 1)..b]
      /\ \A k, l \in 1..(b - a) : k < l => f[k] < f[l]
  OBVIOUS
<1>3. Orders(f, (a + 1)..b)
  BY <1>1, <1>2 DEF Orders
<1>4. (a + 1)..b \in SUBSET (0..b)
  OBVIOUS
<1> HIDE DEF f
<1>5. InOrder((a + 1)..b) = f
  BY <1>3, <1>4, InOrderOrders
<1> QED
  BY <1>1, <1>5 DEF f

-----------------------------------------------------------------------------
(* Sequences. *)

\* One element more.
LEMMA Appended ==
  ASSUME NEW T, NEW q \in Seq(T), NEW v \in T, NEW c \in Nat, Len(q) = c
  PROVE  /\ Append(q, v) \in Seq(T) /\ DOMAIN Append(q, v) = 1..(c + 1)
         /\ Append(q, v)[c + 1] = v /\ \A k \in 1..c : Append(q, v)[k] = q[k]
<1>1. Append(q, v) \in Seq(T) /\ Len(Append(q, v)) = c + 1 /\ Append(q, v)[c + 1] = v
  OBVIOUS
<1>2. ASSUME NEW k \in 1..c PROVE Append(q, v)[k] = q[k]
  <2>1. k \in 1..Len(q)
    OBVIOUS
  <2> QED
    BY <2>1
<1> QED
  BY <1>1, <1>2

\* One element less.
LEMMA Shortened ==
  ASSUME NEW T, NEW q \in Seq(T), NEW c \in Nat, Len(q) = c, c # 0
  PROVE  Tail(q) \in Seq(T) /\ Tail(q) = [k \in 1..(c - 1) |-> q[k + 1]]
<1>1. Tail(q) \in Seq(T) /\ Len(Tail(q)) = c - 1
  OBVIOUS
<1>2. DOMAIN Tail(q) = 1..(c - 1)
  BY <1>1
<1>3. ASSUME NEW k \in 1..(c - 1) PROVE Tail(q)[k] = q[k + 1]
  OBVIOUS
<1>4. Tail(q) = [k \in DOMAIN Tail(q) |-> Tail(q)[k]]
  <2>1. Tail(q) \in [1..Len(Tail(q)) -> T]
    BY <1>1, LenProperties
  <2> QED
    BY <2>1
<1> QED
  BY <1>1, <1>2, <1>3, <1>4

\* A number above all others comes last.
LEMMA InOrderAppended ==
  ASSUME NEW L \in Nat, NEW S \in SUBSET (0..L), NEW x \in 0..L, \A y \in S : y < x
  PROVE  /\ InOrder(S) \in Seq(S)
         /\ InOrder(S \cup {x}) = Append(InOrder(S), x)
<1> PICK c \in Nat : c = Cardinality(S)
  BY Numbers
<1> PICK q : q = InOrder(S)
  OBVIOUS
<1>1. q \in [1..c -> S] /\ \A k, l \in 1..c : k < l => q[k] < q[l]
  BY InOrderOrders DEF Orders
<1>2. q \in Seq(S) /\ Len(q) = c
  BY <1>1
<1>3. Cardinality(S \cup {x}) = c + 1
  <2>1. IsFiniteSet(S) /\ x \notin S
    <3>1. x \in S => x < x
      OBVIOUS
    <3>2. x \in Nat
      OBVIOUS
    <3>3. ~(x < x)
      BY <3>2
    <3>4. IsFiniteSet(S)
      BY Numbers
    <3> QED
      BY <3>1, <3>3, <3>4
  <2> QED
    BY <2>1, FS_AddElement
<1> DEFINE r == Append(q, x)
<1>4. /\ r \in [1..(c + 1) -> S \cup {x}] /\ r[c + 1] = x
      /\ \A k \in 1..c : r[k] = q[k] /\ r[k] \in S
  <2>1. x \in S \cup {x} /\ q \in Seq(S \cup {x})
    BY <1>2, SeqMonotonic
  <2>2. /\ r \in Seq(S \cup {x}) /\ DOMAIN r = 1..(c + 1) /\ r[c + 1] = x
        /\ \A k \in 1..c : r[k] = q[k]
    BY <1>2, <2>1, Appended
  <2>3. r \in [1..Len(r) -> S \cup {x}]
    BY <2>2, LenProperties
  <2> QED
    BY <1>1, <2>2, <2>3
<1> HIDE DEF r
<1>5. ASSUME NEW k \in 1..(c + 1), NEW l \in 1..(c + 1), k < l PROVE r[k] < r[l]
  <2>1. k \in 1..c /\ (l \in 1..c \/ l = c + 1)
    BY <1>5
  <2> QED
    BY <1>1, <1>4, <1>5, <2>1
<1>6. Orders(r, S \cup {x})
  BY <1>3, <1>4, <1>5 DEF Orders
<1>7. S \cup {x} \in SUBSET (0..L)
  OBVIOUS
<1>8. InOrder(S \cup {x}) = r
  BY <1>6, <1>7, InOrderOrders
<1> QED
  BY <1>2, <1>8 DEF r

-----------------------------------------------------------------------------
(* What the server writes: its reader finds the length it was given.         *)

\* Two bytes hold a length up to 65535.
LEMMA Uint16Sound ==
  ASSUME NEW n \in Nat, n <= 65535
  PROVE  /\ (n \div 256) % 256 \in 0..255 /\ n % 256 \in 0..255
         /\ 256 * ((n \div 256) % 256) + (n % 256) = n
BY SMT

\* Four bytes hold a length up to MaxInt32, and the first stays below 128.
LEMMA Uint64Sound ==
  ASSUME NEW n \in Nat, n <= 2147483647
  PROVE  /\ n \div 16777216 \in 0..127
         /\ (n \div 65536) % 256 \in 0..255
         /\ (n \div 256) % 256 \in 0..255 /\ n % 256 \in 0..255
         /\ 16777216 * (n \div 16777216) + 65536 * ((n \div 65536) % 256)
              + 256 * ((n \div 256) % 256) + (n % 256) = n
<1> DEFINE a == n \div 256
           b == a \div 256
           c == b \div 256
<1>1. n = 256 * a + (n % 256) /\ n % 256 \in 0..255 /\ a \in Nat
  BY SMT
<1>2. a = 256 * b + (a % 256) /\ a % 256 \in 0..255 /\ b \in Nat
  BY <1>1, SMT
<1>3. b = 256 * c + (b % 256) /\ b % 256 \in 0..255 /\ c \in Nat
  BY <1>2, SMT
<1>4. n \div 65536 = b /\ n \div 16777216 = c
  BY SMT
<1>5. c <= 127
  BY <1>1, <1>2, <1>3, SMT
<1>6. QED
  BY <1>1, <1>2, <1>3, <1>4, <1>5, SMT

\* A client reads out of the header of a server's frame the length of its
\* payload, whatever the length (frame.go:39-60, websocket.go:184-205).
THEOREM LengthsAgree ==
  ASSUME NEW len \in Nat, len <= MaxInt32
  PROVE  /\ IsLengthField(LengthField(len))
         /\ ~TooLong(LengthField(len))
         /\ AnnouncedLength(LengthField(len)) = len
<1>0. len \in Nat /\ len <= 2147483647
  <2>1. MaxInt32 = 2147483647
    BY SMT DEF MaxInt32
  <2>2. QED
    BY <2>1, SMT
<1>1. CASE len < 126
  <2>1. LengthField(len) = <<len>>
    BY <1>1 DEF LengthField
  <2>2. QED
    BY <1>0, <1>1, <2>1, SMT DEF IsLengthField, TooLong, AnnouncedLength, Byte
<1>2. CASE len >= 126 /\ len <= 65535
  <2> DEFINE hi == (len \div 256) % 256
             lo == len % 256
  <2>1. LengthField(len) = <<126, hi, lo>>
    BY <1>0, <1>2, SMT DEF LengthField, Uint16Field
  <2>2. hi \in 0..255 /\ lo \in 0..255 /\ 256 * hi + lo = len
    BY <1>0, <1>2, Uint16Sound
  <2> HIDE DEF hi, lo
  <2>3. QED
    BY <2>1, <2>2, SMT DEF IsLengthField, TooLong, AnnouncedLength, Byte
<1>3. CASE len > 65535
  <2> DEFINE b1 == len \div 16777216
             b2 == (len \div 65536) % 256
             b3 == (len \div 256) % 256
             b4 == len % 256
  <2>1. LengthField(len) = <<127, 0, 0, 0, 0, b1, b2, b3, b4>>
    BY <1>0, <1>3, SMT DEF LengthField, Uint64Field
  <2>2. /\ b1 \in 0..127 /\ b2 \in 0..255 /\ b3 \in 0..255 /\ b4 \in 0..255
        /\ 16777216 * b1 + 65536 * b2 + 256 * b3 + b4 = len
    BY <1>0, Uint64Sound
  <2> HIDE DEF b1, b2, b3, b4
  <2>3. QED
    BY <2>1, <2>2, SMT DEF IsLengthField, TooLong, AnnouncedLength, Byte
<1>4. QED
  BY <1>0, <1>1, <1>2, <1>3, SMT

-----------------------------------------------------------------------------
(* The bytes of the frames. *)

LEMMA SizeSound ==
  \A f \in ClientFrames : Size(f) \in Nat /\ 6 <= Size(f) /\ Size(f) <= MaxFrame
<1> SUFFICES ASSUME NEW f \in ClientFrames
             PROVE  Size(f) \in Nat /\ 6 <= Size(f) /\ Size(f) <= MaxFrame
  OBVIOUS
<1>1. MaxPayload \in Nat /\ IsLengthField(f.field)
  BY StreamAssumption
<1>2. Len(f.field) \in {1, 3, 9} /\ \A i \in 1..Len(f.field) : f.field[i] \in Nat
  <2>1. f.field \in Seq(Byte) /\ Len(f.field) \in {1, 3, 9}
    BY <1>1 DEF IsLengthField
  <2>2. \A i \in 1..Len(f.field) : f.field[i] \in Byte
    BY <2>1
  <2>3. Byte \subseteq Nat
    BY DEF Byte
  <2> QED
    BY <2>1, <2>2, <2>3
<1>3. f.field[1] < 128 /\ f.field[1] \in Nat
  BY <1>1, <1>2 DEF IsLengthField
<1>4. AnnouncedLength(f.field) \in Nat
  <2>1. CASE f.field[1] < 126
    BY <1>3, <2>1 DEF AnnouncedLength
  <2>2. CASE f.field[1] = 126
    <3>1. Len(f.field) = 3
      BY <1>1, <2>2 DEF IsLengthField
    <3>2. f.field[2] \in Nat /\ f.field[3] \in Nat
      BY <1>2, <3>1
    <3> QED
      BY <2>2, <3>2 DEF AnnouncedLength
  <2>3. CASE f.field[1] = 127
    <3>1. Len(f.field) = 9
      BY <1>1, <2>3 DEF IsLengthField
    <3>2. f.field[6] \in Nat /\ f.field[7] \in Nat /\ f.field[8] \in Nat /\ f.field[9] \in Nat
      BY <1>2, <3>1
    <3> QED
      BY <2>3, <3>2 DEF AnnouncedLength
  <2> QED
    BY <1>3, <2>1, <2>2, <2>3
<1>5. ~BadLength(f) => AnnouncedLength(f.field) <= MaxPayload
  BY <1>1, <1>4 DEF BadLength
<1>6. PICK l \in {1, 3, 9} : Len(f.field) = l
  BY <1>2
<1>7. PICK a \in Nat : AnnouncedLength(f.field) = a /\ (~BadLength(f) => a <= MaxPayload)
  BY <1>4, <1>5
<1>8. Size(f) = 1 + l + 4 + (IF BadLength(f) THEN 0 ELSE a)
  BY <1>6, <1>7 DEF Size, MaskSize
<1>9. MaxFrame = 14 + MaxPayload
  BY <1>1 DEF MaxFrame, MaskSize
<1>10. CASE BadLength(f)
  BY <1>1, <1>8, <1>9, <1>10
<1>11. CASE ~BadLength(f)
  BY <1>1, <1>7, <1>8, <1>9, <1>11
<1> QED
  BY <1>10, <1>11

\* What Ends defines exists: it is made a frame at a time.
LEMMA EndsSound ==
  ASSUME NEW s \in Seq(ClientFrames)
  PROVE  /\ Ends(s) \in [0..Len(s) -> Nat] /\ Ends(s)[0] = 0
         /\ \A i \in 1..Len(s) : Ends(s)[i] = Ends(s)[i - 1] + Size(s[i])
<1> DEFINE L == Len(s)
           Next1(f, n) == [i \in 0..n |-> IF i = 0 THEN 0 ELSE f[i - 1] + Size(s[i])]
           N == {n \in Nat : n <= L => \E f \in [0..n -> Nat] : f = Next1(f, n)}
<1>1. L \in Nat /\ \A i \in 1..L : Size(s[i]) \in Nat
  BY SizeSound
<1>2. 0 \in N
  <2>1. [i \in 0..0 |-> 0] = Next1([i \in 0..0 |-> 0], 0)
    OBVIOUS
  <2> QED
    BY <2>1
<1>3. ASSUME NEW n \in Nat, n \in N PROVE n + 1 \in N
  <2>0. n + 1 \in Nat /\ (n + 1 <= L => n <= L)
    BY <1>1
  <2> SUFFICES ASSUME n + 1 <= L
               PROVE  \E f \in [0..(n + 1) -> Nat] : f = Next1(f, n + 1)
    BY <2>0, Zenon
  <2>1. PICK f \in [0..n -> Nat] : f = Next1(f, n)
    BY <1>3, <2>0
  <2>2. Size(s[n + 1]) \in Nat
    BY <1>1
  <2> DEFINE g == [i \in 0..(n + 1) |-> IF i = n + 1 THEN f[n] + Size(s[n + 1]) ELSE f[i]]
  <2>3. g \in [0..(n + 1) -> Nat]
    BY <2>2
  <2>4. \A i \in 0..n : g[i] = f[i]
    OBVIOUS
  <2>5. ASSUME NEW i \in 0..(n + 1)
        PROVE  g[i] = IF i = 0 THEN 0 ELSE g[i - 1] + Size(s[i])
    <3>1. CASE i = n + 1
      BY <2>4, <3>1
    <3>2. CASE i \in 0..n
      <4>1. f[i] = IF i = 0 THEN 0 ELSE f[i - 1] + Size(s[i])
        BY <2>1, <3>2
      <4>2. i = 0 \/ i - 1 \in 0..n
        BY <3>2
      <4> QED
        BY <2>4, <3>2, <4>1, <4>2
    <3> QED
      BY <3>1, <3>2
  <2>6. g = Next1(g, n + 1)
    BY <2>3, <2>5
  <2> QED
    BY <2>3, <2>6
<1>4. Nat \subseteq N
  <2> HIDE DEF N
  <2> QED
    BY <1>2, <1>3, CountInduction
<1>5. \E f \in [0..L -> Nat] : f = Next1(f, L)
  <2>1. L \in N
    BY <1>1, <1>4
  <2> QED
    BY <1>1, <2>1
<1>6. Ends(s) = Next1(Ends(s), L)
  BY <1>5 DEF Ends
<1> PICK e : e = Ends(s)
  OBVIOUS
<1>7. /\ e = [i \in 0..L |-> e[i]] /\ e[0] = 0
      /\ \A i \in 1..L : e[i] = e[i - 1] + Size(s[i])
  BY <1>1, <1>6
<1>8. \A n \in 0..L : e[n] \in Nat
  <2> DEFINE M == {n \in Nat : n <= L => e[n] \in Nat}
  <2>1. 0 \in M
    BY <1>7
  <2>2. ASSUME NEW n \in Nat, n \in M PROVE n + 1 \in M
    <3> SUFFICES ASSUME n + 1 <= L PROVE e[n + 1] \in Nat
      OBVIOUS
    <3>1. e[n] \in Nat /\ n + 1 \in 1..L /\ (n + 1) - 1 = n
      BY <1>1, <2>2
    <3>2. e[n + 1] = e[n] + Size(s[n + 1]) /\ Size(s[n + 1]) \in Nat
      BY <1>1, <1>7, <3>1
    <3> QED
      BY <3>1, <3>2
  <2>3. Nat \subseteq M
    <3> HIDE DEF M
    <3> QED
      BY <2>1, <2>2, CountInduction
  <2> QED
    BY <1>1, <2>3
<1> QED
  BY <1>7, <1>8

\* A frame that comes later ends later.
LEMMA EndsRise ==
  ASSUME Typed, Cut
  PROVE  \A i, j \in 0..Len(frames) : i < j => ends[i] < ends[j]
<1> PICK L \in Nat : L = Len(frames)
  BY DEF Typed
<1>1. \A i \in 0..L : ends[i] \in Nat
  BY DEF Cut
<1>2. \A i \in 1..L : ends[i - 1] < ends[i]
  <2> SUFFICES ASSUME NEW i \in 1..L PROVE ends[i - 1] < ends[i]
    OBVIOUS
  <2>1. frames[i] \in ClientFrames
    BY DEF Typed
  <2>2. ends[i] = ends[i - 1] + Size(frames[i])
    BY DEF Cut
  <2>3. i - 1 \in 0..L
    OBVIOUS
  <2> QED
    BY <1>1, <2>1, <2>2, <2>3, SizeSound
<1> DEFINE N == {n \in Nat : \A i \in 0..L : i + n + 1 <= L => ends[i] < ends[i + n + 1]}
<1>3. 0 \in N
  <2> SUFFICES ASSUME NEW i \in 0..L, i + 0 + 1 <= L PROVE ends[i] < ends[i + 0 + 1]
    OBVIOUS
  <2>1. i + 1 \in 1..L /\ (i + 1) - 1 = i /\ i + 0 + 1 = i + 1
    OBVIOUS
  <2> QED
    BY <1>2, <2>1
<1>4. ASSUME NEW n \in Nat, n \in N PROVE n + 1 \in N
  <2> SUFFICES ASSUME NEW i \in 0..L, i + (n + 1) + 1 <= L
               PROVE  ends[i] < ends[i + (n + 1) + 1]
    OBVIOUS
  <2> PICK k \in 1..L : k = i + (n + 1) + 1
    OBVIOUS
  <2>1. k - 1 = i + n + 1 /\ k - 1 \in 0..L
    OBVIOUS
  <2>2. ends[i] < ends[k - 1]
    BY <1>4, <2>1
  <2>3. ends[k - 1] < ends[k]
    BY <1>2
  <2> QED
    BY <1>1, <2>1, <2>2, <2>3
<1>5. Nat \subseteq N
  <2> HIDE DEF N
  <2> QED
    BY <1>3, <1>4, CountInduction
<1>6. ASSUME NEW i \in 0..L, NEW j \in 0..L, i < j PROVE ends[i] < ends[j]
  <2>1. j - i - 1 \in Nat /\ i + (j - i - 1) + 1 = j
    BY <1>6
  <2>2. j - i - 1 \in N
    BY <1>5, <2>1
  <2> QED
    BY <2>1, <2>2
<1> QED
  BY <1>6

-----------------------------------------------------------------------------
(* The steps keep the decoder at the end of a frame. *)

LEMMA EmptyOrder == InOrder({}) = <<>>
<1>1. 0 \in Nat /\ {} \in SUBSET (0..0)
  OBVIOUS
<1>2. Orders(InOrder({}), {})
  BY <1>1, InOrderOrders
<1>3. Cardinality({}) = 0
  BY FS_EmptySet
<1>4. InOrder({}) \in [1..0 -> {}]
  BY <1>2, <1>3 DEF Orders
<1> QED
  BY <1>4

LEMMA InitHolds == Init => IInv
<1> SUFFICES ASSUME Init PROVE IInv
  OBVIOUS
<1>1. /\ request \in Request /\ frames \in BoundedSeq(ClientFrames, MaxFrames)
      /\ ends = Ends(frames) /\ HandshakeDone = FALSE /\ received = 0 /\ consumed = 0
      /\ pending = <<>> /\ handled = <<>> /\ dropped = {} /\ closing = FALSE /\ closed = FALSE
  BY DEF Init
<1>2. frames \in Seq(ClientFrames)
  <2>1. MaxFrames \in Nat
    BY StreamAssumption
  <2> QED
    BY <1>1, <2>1 DEF BoundedSeq, SeqOf
<1>3. Typed
  BY <1>1, <1>2 DEF Typed
<1>4. Cut
  BY <1>1, <1>2, EndsSound DEF Cut
<1>5. Len(frames) \in Nat /\ 0 \in 0..Len(frames)
  BY <1>2
<1>6. Waiting(0, 0)
  BY <1>1, <1>5 DEF Waiting
<1>7. Done(0)
  <2>1. (1..0) \ dropped = {}
    OBVIOUS
  <2> QED
    BY <1>1, <1>5, <2>1, EmptyOrder DEF Done
<1>8. Taken(0)
  BY <1>1, <1>4 DEF Taken, Cut
<1>9. Kept
  BY <1>1, <1>5, <1>6, <1>7, <1>8 DEF Kept, KeptAt
<1>10. ClosedForCause
  BY <1>1 DEF ClosedForCause
<1> QED
  BY <1>3, <1>4, <1>9, <1>10 DEF IInv

LEMMA OnTrafficHandshakeHolds ==
  ASSUME IInv, NEW k \in 1..ReadCap, OnTrafficHandshake(k)
  PROVE  IInv'
<1> PICK n \in Nat : n = received + k
  BY StreamAssumption DEF IInv, Typed
<1> PICK m, h : m \in 0..Len(frames) /\ h \in 0..Len(frames) /\ KeptAt(m, h)
  BY DEF IInv, Kept
<1>1. /\ UNCHANGED <<request, frames, ends, consumed, pending, handled, dropped, closed>>
      /\ ~closing /\ ~HandshakeDone /\ k <= request.size - received
      /\ \/ closing' = TRUE /\ UNCHANGED <<HandshakeDone, received>>
            /\ (n > MaxHandshake \/ ~request.valid)
         \/ UNCHANGED closing /\ HandshakeDone' \in BOOLEAN
            /\ received' = IF HandshakeDone' THEN 0 ELSE n
  BY DEF OnTrafficHandshake, input, progress
<1>2. Typed'
  <2>1. closing' \in BOOLEAN /\ HandshakeDone' \in BOOLEAN
    BY <1>1 DEF IInv, Typed
  <2>2. received' \in Nat
    BY <1>1 DEF IInv, Typed
  <2> QED
    BY <1>1, <2>1, <2>2 DEF IInv, Typed
<1>3. Cut'
  BY <1>1 DEF IInv, Cut
<1>4. h = 0 /\ m = 0 /\ consumed = 0 /\ ends[0] = 0 /\ Len(frames) \in Nat
  BY <1>1 DEF IInv, KeptAt, Waiting, Taken, Cut, Typed
<1>5. ASSUME NEW i \in 1..Len(frames) PROVE ends[i] > 0
  BY <1>4, <1>5, EndsRise DEF IInv
<1>6. ends[Len(frames)] \in Nat /\ \A i \in 1..Len(frames) : ends[i] \in Nat
  <2>1. \A i \in 0..Len(frames) : ends[i] \in Nat
    BY DEF IInv, Cut
  <2> QED
    BY <1>4, <2>1
<1>7. consumed' <= received' /\ (HandshakeDone' /\ ~closing' => received' = 0)
  BY <1>1, <1>2, <1>4 DEF Typed
<1>8. Waiting(0, 0)' /\ Done(0)' /\ (closing' => pending' = <<>>)
  <2>1. pending = <<>> /\ Waiting(0, 0) /\ Done(0)
    BY <1>4 DEF KeptAt, Waiting
  <2> QED
    BY <1>1, <2>1 DEF Waiting, Done
<1>9. Taken(0)'
  BY <1>1, <1>4, <1>5, <1>6, <1>7 DEF Taken
<1>10. Kept'
  BY <1>1, <1>4, <1>8, <1>9 DEF Kept, KeptAt
<1>11. ClosedForCause'
  <2>1. n > MaxHandshake => request.size > MaxHandshake
    BY <1>1, StreamAssumption DEF IInv, Typed, Request
  <2> QED
    BY <1>1, <2>1 DEF ClosedForCause, IInv
<1> QED
  BY <1>2, <1>3, <1>10, <1>11 DEF IInv

\* A piece never fills the buffer: what is left over is less than a frame.
LEMMA NeverFull ==
  ASSUME IInv, ~closing, HandshakeDone, pending = <<>>,
         NEW k \in 1..ReadCap, received + k <= ends[Len(frames)]
  PROVE  ~OverLimit(received + k)
<1> PICK L \in Nat : L = Len(frames)
  BY DEF IInv, Typed
<1> PICK m \in 0..L : Taken(m)
  BY DEF IInv, Kept, KeptAt
<1>1. /\ received \in Nat /\ consumed \in Nat /\ consumed = ends[m] /\ consumed <= received
      /\ received <= ends[L] /\ received + k <= ends[L]
      /\ \A i \in 1..L : ends[i] <= received => i <= m
  BY DEF IInv, Typed, Taken
<1>2. /\ MaxBuffer \in Nat /\ ReadCap \in Nat /\ MaxFrame \in Nat
      /\ MaxFrame - 1 + ReadCap <= MaxBuffer
  BY StreamAssumption, BufferAssumption DEF MaxFrame, MaskSize
<1>3. m # L
  <2> SUFFICES ASSUME m = L PROVE FALSE
    OBVIOUS
  <2>1. received + k <= received /\ k \in 1..ReadCap
    BY <1>1
  <2> QED
    BY <1>1, <1>2, <2>1
<1>4. m + 1 \in 1..L /\ (m + 1) - 1 = m
  BY <1>3
<1>5. frames[m + 1] \in ClientFrames
  BY <1>4 DEF IInv, Typed
<1>6. ends[m + 1] = ends[m] + Size(frames[m + 1]) /\ ends[m + 1] \in Nat
  BY <1>4 DEF IInv, Cut
<1>7. received < ends[m + 1]
  BY <1>1, <1>4, <1>6
<1>8. Size(frames[m + 1]) \in Nat /\ Size(frames[m + 1]) <= MaxFrame
  BY <1>5, SizeSound
<1>9. received - consumed <= MaxFrame - 1
  BY <1>1, <1>2, <1>6, <1>7, <1>8
<1> QED
  BY <1>1, <1>2, <1>9 DEF OverLimit

\* What is decoded at once: the frames from the one after m to h.
DecodedUpTo(n, m, h) ==
  /\ h \in m..Len(frames) /\ Decoded(n) = (m + 1)..h
  /\ Consumed(n) = ends[h] /\ Consumed(n) \in Nat /\ Consumed(n) <= n
  /\ \A i \in 1..Len(frames) : ends[i] <= n => i <= h

LEMMA DecodedSound ==
  ASSUME Typed, Cut, NEW m \in 0..Len(frames), Taken(m), ~closing, HandshakeDone,
         NEW n \in Nat, received <= n
  PROVE  \E h \in Nat : DecodedUpTo(n, m, h)
<1> PICK L \in Nat : L = Len(frames)
  BY DEF Typed
<1> DEFINE D == Decoded(n)
<1>1. /\ received \in Nat /\ consumed \in Nat /\ consumed = ends[m] /\ consumed <= received
      /\ m \in 0..L
  BY DEF Typed, Taken
<1>2. /\ \A i \in 0..L : ends[i] \in Nat
      /\ \A i, j \in 0..L : i < j => ends[i] < ends[j]
  BY EndsRise DEF Cut
<1>3. DOMAIN frames = 1..L
  BY DEF Typed
<1>4. \A i : i \in D <=> i \in (m + 1)..L /\ ends[i] <= n
  <2>1. ASSUME NEW i \in 1..L PROVE ends[i - 1] >= consumed <=> i \in (m + 1)..L
    <3>1. i - 1 \in 0..L /\ (i - 1 < m \/ i - 1 = m \/ m < i - 1)
      BY <1>1
    <3>2. ends[i - 1] \in Nat /\ ends[m] \in Nat
      BY <1>1, <1>2, <3>1
    <3>3. CASE i - 1 < m
      <4>1. ends[i - 1] < ends[m]
        BY <1>1, <1>2, <3>1, <3>3
      <4> QED
        BY <1>1, <3>2, <3>3, <4>1
    <3>4. CASE i - 1 = m
      BY <1>1, <3>2, <3>4
    <3>5. CASE m < i - 1
      <4>1. ends[m] < ends[i - 1]
        BY <1>1, <1>2, <3>1, <3>5
      <4> QED
        BY <1>1, <3>2, <3>5, <4>1
    <3> QED
      BY <3>1, <3>3, <3>4, <3>5
  <2> QED
    BY <1>1, <1>3, <2>1 DEF Decoded, Start
<1>5. CASE D = {}
  <2>1. Consumed(n) = consumed
    BY <1>5 DEF Consumed
  <2>2. ASSUME NEW i \in 1..L, ends[i] <= n PROVE i <= m
    BY <1>1, <1>4, <1>5, <2>2
  <2>3. (m + 1)..m = {}
    BY <1>1
  <2>4. DecodedUpTo(n, m, m)
    BY <1>1, <1>5, <2>1, <2>2, <2>3 DEF DecodedUpTo
  <2> QED
    BY <1>1, <2>4
<1>6. CASE D # {}
  <2> PICK d : d = Max(D)
    OBVIOUS
  <2>1. D \in SUBSET (0..L)
    BY <1>1, <1>4
  <2>2. d \in D /\ \A i \in D : i <= d
    BY <1>6, <2>1, MaxSound
  <2>3. d \in (m + 1)..L /\ ends[d] <= n /\ ends[d] \in Nat
    BY <1>1, <1>2, <1>4, <2>2
  <2>4. D = (m + 1)..d
    <3>1. ASSUME NEW i \in (m + 1)..d PROVE i \in D
      <4>1. i \in (m + 1)..L /\ i \in 0..L /\ d \in 0..L /\ (i = d \/ i < d)
        BY <1>1, <2>3
      <4>2. ends[i] <= ends[d] /\ ends[i] \in Nat
        BY <1>2, <2>3, <4>1
      <4>3. ends[i] <= n
        BY <2>3, <4>2
      <4> QED
        BY <1>4, <4>1, <4>3
    <3>2. ASSUME NEW i \in D PROVE i \in (m + 1)..d
      BY <1>1, <1>4, <2>2, <2>3
    <3> QED
      BY <3>1, <3>2
  <2>5. Consumed(n) = ends[d]
    BY <1>6 DEF Consumed
  <2>6. ASSUME NEW i \in 1..L, ends[i] <= n PROVE i <= d
    BY <1>1, <1>4, <2>2, <2>3, <2>6
  <2>7. d \in m..L /\ d \in Nat
    BY <1>1, <2>3
  <2>8. DecodedUpTo(n, m, d)
    BY <2>3, <2>4, <2>5, <2>6, <2>7 DEF DecodedUpTo
  <2> QED
    BY <2>7, <2>8
<1> QED
  BY <1>5, <1>6

\* A frame that is decoded was not refused: its first two bytes have come.
LEMMA DecodedGood ==
  ASSUME Typed, Cut, NEW n \in Nat,
         ~\E i \in DOMAIN frames : Start(i) >= consumed /\ Refused(i, n)
  PROVE  \A i \in Decoded(n) : ~BadHeader(frames[i])
<1> SUFFICES ASSUME NEW i \in Decoded(n) PROVE ~BadHeader(frames[i])
  OBVIOUS
<1> PICK L \in Nat : L = Len(frames) /\ DOMAIN frames = 1..L
  BY DEF Typed
<1>1. i \in 1..L /\ Start(i) >= consumed /\ ends[i] <= n
  BY DEF Decoded
<1>2. frames[i] \in ClientFrames
  BY <1>1 DEF Typed
<1>3. /\ i - 1 \in 0..L /\ i \in 0..L /\ ends[i - 1] \in Nat /\ ends[i] \in Nat
      /\ ends[i] = ends[i - 1] + Size(frames[i])
  BY <1>1 DEF Cut
<1>4. Size(frames[i]) \in Nat /\ 6 <= Size(frames[i])
  BY <1>2, SizeSound
<1>5. Start(i) + 2 <= n
  BY <1>1, <1>3, <1>4 DEF Start
<1>6. ~Refused(i, n)
  BY <1>1
<1> QED
  BY <1>5, <1>6 DEF Refused

LEMMA OnTrafficFramesHolds ==
  ASSUME IInv, NEW k \in 1..ReadCap, OnTrafficFrames(k)
  PROVE  IInv'
<1> PICK n \in Nat : n = received + k /\ received <= n
  BY StreamAssumption DEF IInv, Typed
<1> PICK L \in Nat : L = Len(frames)
  BY DEF IInv, Typed
<1> PICK m, h0 : m \in 0..L /\ h0 \in 0..L /\ KeptAt(m, h0)
  BY DEF IInv, Kept
<1>1. /\ ~closing /\ HandshakeDone /\ pending = <<>> /\ n <= ends[L] /\ received' = n
      /\ UNCHANGED <<request, frames, ends, HandshakeDone, handled, dropped, closed>>
  BY DEF OnTrafficFrames, input
<1>2. ~OverLimit(n)
  BY <1>1, NeverFull
<1>3. Cut'
  BY <1>1 DEF IInv, Cut
<1>4. h0 = m /\ Done(m) /\ Taken(m)
  <2>1. h0 - m \in Nat /\ pending = [j \in 1..(h0 - m) |-> m + j]
    BY DEF KeptAt, Waiting
  <2>2. Len(pending) = h0 - m
    BY <2>1
  <2>3. Len(pending) = 0
    BY <1>1
  <2> QED
    BY <2>1, <2>2, <2>3 DEF KeptAt
<1>5. DOMAIN frames = 1..L /\ consumed <= n /\ consumed \in Nat
  <2>1. DOMAIN frames = 1..L /\ received \in Nat /\ consumed \in Nat
    BY DEF IInv, Typed
  <2>2. consumed <= received
    BY <1>4 DEF Taken
  <2> QED
    BY <2>1, <2>2
<1>6. CASE /\ \E i \in DOMAIN frames : Refused(i, n)
           /\ closing' = TRUE /\ UNCHANGED <<consumed, pending>>
  <2>1. Typed'
    BY <1>1, <1>6 DEF IInv, Typed
  <2>2. Waiting(m, m)' /\ Done(m)' /\ pending' = <<>>
    BY <1>1, <1>4, <1>6 DEF KeptAt, Waiting, Done
  <2>3. Taken(m)'
    BY <1>1, <1>4, <1>5, <1>6 DEF Taken
  <2>4. Kept'
    BY <1>1, <2>2, <2>3 DEF Kept, KeptAt
  <2>5. \E i \in DOMAIN frames : ~Legal(frames[i])
    BY <1>6 DEF Refused, Legal
  <2>6. ClosedForCause'
    BY <1>1, <2>5 DEF ClosedForCause
  <2> QED
    BY <1>3, <2>1, <2>4, <2>6 DEF IInv
<1>7. CASE /\ ~\E i \in DOMAIN frames : Start(i) >= consumed /\ Refused(i, n)
           /\ consumed' = Consumed(n) /\ pending' = InOrder(Decoded(n)) /\ UNCHANGED closing
  <2> PICK h \in Nat : DecodedUpTo(n, m, h)
    BY <1>1, <1>4, DecodedSound DEF IInv
  <2>1. /\ h \in m..L /\ h \in 0..L /\ Decoded(n) = (m + 1)..h
        /\ consumed' = ends[h] /\ consumed' \in Nat /\ consumed' <= n
        /\ \A i \in 1..L : ends[i] <= n => i <= h
    BY <1>7 DEF DecodedUpTo
  <2>2. Typed'
    BY <1>1, <1>7, <2>1 DEF IInv, Typed
  <2>3. Waiting(m, h)'
    <3>1. m \in Nat /\ h \in Nat /\ m <= h
      BY <2>1
    <3>2. InOrder((m + 1)..h) = [j \in 1..(h - m) |-> m + j]
      BY <3>1, InOrderSound
    <3> QED
      BY <1>1, <1>7, <2>1, <3>2 DEF Waiting
  <2>4. Done(m)'
    BY <1>1, <1>4, <1>7 DEF Done
  <2>5. \A i \in 1..h : ~BadHeader(frames[i])
    <3>1. \A i \in Decoded(n) : ~BadHeader(frames[i])
      BY <1>7, DecodedGood DEF IInv
    <3>2. \A i \in 1..m : ~BadHeader(frames[i])
      BY <1>4 DEF Taken
    <3>3. \A i \in 1..h : i \in 1..m \/ i \in (m + 1)..h
      BY <2>1
    <3> QED
      BY <2>1, <3>1, <3>2, <3>3
  <2>6. Taken(h)'
    <3>1. consumed' <= received' /\ HandshakeDone' /\ ~closing'
      BY <1>1, <1>7, <2>1
    <3>2. \A i \in 1..h : ~BadHeader(frames'[i])
      BY <1>1, <2>5
    <3>3. consumed' = ends'[h] /\ received' <= ends'[Len(frames')]
      BY <1>1, <2>1
    <3>4. \A i \in 1..Len(frames') : ends'[i] <= received' => i <= h
      BY <1>1, <2>1
    <3> QED
      BY <3>1, <3>2, <3>3, <3>4 DEF Taken, BadHeader
  <2>7. Kept'
    BY <1>1, <1>7, <2>1, <2>3, <2>4, <2>6 DEF Kept, KeptAt
  <2>8. ClosedForCause'
    BY <1>1, <1>7 DEF ClosedForCause
  <2> QED
    BY <1>3, <2>2, <2>7, <2>8 DEF IInv
<1> QED
  BY <1>2, <1>6, <1>7 DEF OnTrafficFrames

\* The first pending frame is the one after the m that are gone through.
First(m, h) ==
  /\ h \in (m + 1)..Len(frames) /\ m + 1 \in 1..Len(frames)
  /\ Head(pending) = m + 1 /\ Frame = frames[m + 1]
  /\ frames[m + 1] \in ClientFrames /\ ~BadHeader(frames[m + 1])
  /\ Tail(pending) = [k \in 1..(h - (m + 1)) |-> (m + 1) + k]
  /\ ~closing /\ HandshakeDone

LEMMA FirstPending ==
  ASSUME IInv, NEW m \in 0..Len(frames), NEW h \in 0..Len(frames), KeptAt(m, h),
         pending # <<>>
  PROVE  First(m, h)
<1> PICK L \in Nat : L = Len(frames)
  BY DEF IInv, Typed
<1>1. h \in m..L /\ pending = [k \in 1..(h - m) |-> m + k] /\ m \in 0..L
  BY DEF KeptAt, Waiting
<1>2. h # m
  <2> SUFFICES ASSUME h = m PROVE FALSE
    OBVIOUS
  <2>1. 1..(h - m) = {}
    BY <1>1
  <2>2. pending = <<>>
    BY <1>1, <2>1
  <2> QED
    BY <2>2
<1>3. h \in (m + 1)..L /\ m + 1 \in 1..L /\ 1 \in 1..(h - m)
  BY <1>1, <1>2
<1>4. Head(pending) = m + 1
  BY <1>1, <1>3
<1> PICK c \in Nat : c = h - m
  BY <1>1
<1>5. pending \in Seq(Nat) /\ Len(pending) = c /\ \A k \in 1..c : pending[k] = m + k
  BY <1>1
<1>6. c - 1 \in Nat /\ h - (m + 1) = c - 1
  BY <1>3
<1>7. Tail(pending) = [k \in 1..(c - 1) |-> pending[k + 1]]
  BY <1>3, <1>5, Shortened
<1>8. \A k \in 1..(c - 1) : pending[k + 1] = (m + 1) + k
  BY <1>5
<1>9. Tail(pending) = [k \in 1..(c - 1) |-> (m + 1) + k]
  BY <1>7, <1>8
<1>10. frames[m + 1] \in ClientFrames /\ ~BadHeader(frames[m + 1])
  <2>1. m + 1 \in 1..h
    BY <1>1, <1>3
  <2> QED
    BY <1>3, <2>1 DEF IInv, Typed, KeptAt, Taken
<1>11. ~closing /\ HandshakeDone
  <2>1. ~HandshakeDone => h = 0
    BY DEF KeptAt, Taken
  <2> QED
    BY <1>1, <1>3, <2>1 DEF KeptAt
<1> QED
  BY <1>3, <1>4, <1>6, <1>9, <1>10, <1>11 DEF First, Frame

\* A frame is gone through: it is handled, or a binary frame and refused.
Passed(x) ==
  \/ handled' = Append(handled, x) /\ UNCHANGED dropped
  \/ dropped' = dropped \cup {x} /\ UNCHANGED handled /\ frames[x].op = "binary"

LEMMA PassedDone ==
  ASSUME IInv, NEW m \in 0..Len(frames), Done(m), m + 1 \in 1..Len(frames), Passed(m + 1),
         UNCHANGED frames, ~closing, frames[m + 1].op = "close" => closing'
  PROVE  Done(m + 1)'
<1> PICK L \in Nat : L = Len(frames)
  BY DEF IInv, Typed
<1>1. /\ m \in 0..L /\ m + 1 \in 1..L
      /\ handled = InOrder((1..m) \ dropped)
      /\ dropped \subseteq {i \in 1..m : frames[i].op = "binary"}
      /\ \A i \in 1..m : frames[i].op # "close"
  BY DEF Done
<1>2. handled' = InOrder((1..(m + 1)) \ dropped')
  <2>1. CASE handled' = Append(handled, m + 1) /\ UNCHANGED dropped
    <3>1. (1..(m + 1)) \ dropped = ((1..m) \ dropped) \cup {m + 1}
      BY <1>1
    <3>2. /\ (1..m) \ dropped \in SUBSET (0..L) /\ m + 1 \in 0..L
          /\ \A y \in (1..m) \ dropped : y < m + 1
      BY <1>1
    <3>3. InOrder(((1..m) \ dropped) \cup {m + 1}) = Append(InOrder((1..m) \ dropped), m + 1)
      BY <3>2, InOrderAppended
    <3> QED
      BY <1>1, <2>1, <3>1, <3>3
  <2>2. CASE dropped' = dropped \cup {m + 1} /\ UNCHANGED handled
    <3>1. (1..(m + 1)) \ (dropped \cup {m + 1}) = (1..m) \ dropped
      BY <1>1
    <3> QED
      BY <1>1, <2>2, <3>1
  <2> QED
    BY <2>1, <2>2 DEF Passed
<1>3. dropped' \subseteq {i \in 1..(m + 1) : frames[i].op = "binary"}
  <2>1. 1..m \subseteq 1..(m + 1) /\ m + 1 \in 1..(m + 1)
    BY <1>1
  <2>2. \A i \in dropped' : i \in dropped \/ (i = m + 1 /\ frames[m + 1].op = "binary")
    BY DEF Passed
  <2> QED
    BY <1>1, <2>1, <2>2
<1>4. \A i \in 1..(m + 1) : frames[i].op = "close" => i = m + 1 /\ closing'
  BY <1>1
<1>5. m + 1 \in 0..L
  BY <1>1
<1> QED
  BY <1>2, <1>3, <1>4, <1>5 DEF Done

\* What each step through the pending frames does.
Through(x) ==
  /\ pending # <<>> /\ x = Head(pending) /\ Passed(x)
  /\ UNCHANGED <<input, HandshakeDone, received, consumed, pushed, closed>>
  /\ \/ Frame.op # "close" /\ pending' = Tail(pending) /\ UNCHANGED closing
     \/ Frame.op = "close" /\ pending' = <<>> /\ closing' = TRUE

LEMMA ThroughHolds ==
  ASSUME IInv, NEW x, Through(x)
  PROVE  IInv'
<1> PICK L \in Nat : L = Len(frames)
  BY DEF IInv, Typed
<1> PICK m, h : m \in 0..L /\ h \in 0..L /\ KeptAt(m, h)
  BY DEF IInv, Kept
<1>1. First(m, h)
  BY FirstPending DEF Through
<1>2. /\ UNCHANGED <<request, frames, ends, HandshakeDone, received, consumed, closed>>
      /\ Passed(m + 1) /\ ~closing /\ HandshakeDone
      /\ m + 1 \in 1..L /\ h \in (m + 1)..L
  BY <1>1 DEF Through, input, First
<1>3. Typed' /\ Cut'
  BY <1>2 DEF IInv, Typed, Cut, Through
<1>4. Done(m + 1)'
  <2>1. frames[m + 1].op = "close" => closing'
    BY <1>1 DEF Through, First
  <2>2. Done(m)
    BY DEF KeptAt
  <2> QED
    BY <1>2, <2>1, <2>2, PassedDone
<1>5. \A i \in 1..h : ~BadHeader(frames[i])
  BY DEF KeptAt, Taken
<1>6. CASE Frame.op # "close" /\ pending' = Tail(pending) /\ UNCHANGED closing
  <2>1. Waiting(m + 1, h)'
    BY <1>1, <1>2, <1>6 DEF First, Waiting
  <2>2. Taken(h)'
    BY <1>2, <1>6 DEF KeptAt, Taken, BadHeader
  <2>3. m + 1 \in 0..L /\ h \in 0..L
    BY <1>2
  <2>4. Kept'
    BY <1>2, <1>4, <1>6, <2>1, <2>2, <2>3 DEF Kept, KeptAt
  <2>5. ClosedForCause'
    BY <1>2, <1>6 DEF IInv, ClosedForCause
  <2> QED
    BY <1>3, <2>4, <2>5 DEF IInv
<1>7. CASE Frame.op = "close" /\ pending' = <<>> /\ closing' = TRUE
  <2>1. Waiting(m + 1, m + 1)'
    BY <1>2, <1>7 DEF Waiting
  <2>2. Taken(m + 1)'
    <3>1. consumed <= received
      BY DEF KeptAt, Taken
    <3>2. \A i \in 1..(m + 1) : ~BadHeader(frames[i])
      BY <1>2, <1>5
    <3> QED
      BY <1>2, <1>7, <3>1, <3>2 DEF Taken, BadHeader
  <2>3. m + 1 \in 0..L
    BY <1>2
  <2>4. Kept'
    BY <1>2, <1>4, <1>7, <2>1, <2>2, <2>3 DEF Kept, KeptAt
  <2>5. m + 1 \in DOMAIN frames /\ frames[m + 1].op = "close"
    BY <1>1, <1>2, <1>7 DEF First, IInv, Typed
  <2>6. ClosedForCause'
    BY <1>2, <2>5 DEF ClosedForCause
  <2> QED
    BY <1>3, <2>4, <2>6 DEF IInv
<1> QED
  BY <1>6, <1>7 DEF Through

LEMMA ThroughIs ==
  AnswerPing \/ AnswerClose \/ SubmitBinary \/ PassOver => Through(Head(pending))
BY DEF AnswerPing, AnswerClose, SubmitBinary, PassOver, Through, Passed, Frame

LEMMA NextHolds == IInv /\ [Next]_vars => IInv'
<1> SUFFICES ASSUME IInv, [Next]_vars PROVE IInv'
  OBVIOUS
<1>1. ASSUME NEW k \in 1..ReadCap, OnTrafficHandshake(k) PROVE IInv'
  BY <1>1, OnTrafficHandshakeHolds
<1>2. ASSUME NEW k \in 1..ReadCap, OnTrafficFrames(k) PROVE IInv'
  BY <1>2, OnTrafficFramesHolds
<1>3. ASSUME AnswerPing \/ AnswerClose \/ SubmitBinary \/ PassOver PROVE IInv'
  <2>1. Through(Head(pending))
    BY <1>3, ThroughIs
  <2> QED
    BY <2>1, ThroughHolds
<1>4. ASSUME LoopCloses \/ (\E len \in PushLengths : Push(len)) \/ UNCHANGED vars PROVE IInv'
  <2>1. /\ UNCHANGED <<request, frames, ends, HandshakeDone, received, consumed>>
        /\ UNCHANGED <<pending, handled, dropped, closing>>
        /\ closed' = closed \/ closed' = TRUE
    BY <1>4 DEF LoopCloses, Push, vars, input, progress
  <2>2. Typed' /\ Cut' /\ ClosedForCause'
    BY <2>1 DEF IInv, Typed, Cut, ClosedForCause
  <2>3. ASSUME NEW m, NEW h, KeptAt(m, h) PROVE KeptAt(m, h)'
    BY <2>1, <2>3 DEF KeptAt, Waiting, Done, Taken, BadHeader
  <2>4. Kept'
    BY <2>1, <2>3 DEF IInv, Kept
  <2> QED
    BY <2>2, <2>4 DEF IInv
<1> QED
  BY <1>1, <1>2, <1>3, <1>4 DEF Next

\* A client that sends a valid request and valid frames is never closed, for any
\* payloads and any cut of the bytes, when the buffer holds a frame but a byte
\* and one more read (event_handler.go:153-156).
THEOREM ClosedForCauseSafe == Spec => []ClosedForCause
<1>1. IInv => ClosedForCause
  BY DEF IInv
<1> QED
  BY InitHolds, NextHolds, <1>1, PTL DEF Spec

\* The frames handled, with those the pool refused, are a beginning of what was
\* sent, in order, and nothing follows a close frame, for any frames in any pieces
\* (event_handler.go:169-207).
THEOREM OrderSafe == Spec => []HandledInOrder
<1>1. IInv => HandledInOrder
  BY DEF IInv, Kept, KeptAt, Done, HandledInOrder
<1> QED
  BY InitHolds, NextHolds, <1>1, PTL DEF Spec

\* A connection that waits for the next piece has handled exactly the frames that
\* have come and that the pool did not refuse, for any frames in any pieces
\* (event_handler.go:150-167).
THEOREM CaughtUpSafe == Spec => []CaughtUp
<1>1. IInv => CaughtUp
  <2> SUFFICES ASSUME IInv, ~closing, HandshakeDone, pending = <<>>
               PROVE  handled = InOrder((1..CompleteUpTo(received)) \ dropped)
    BY DEF CaughtUp
  <2> PICK L \in Nat : L = Len(frames) /\ DOMAIN frames = 1..L
    BY DEF IInv, Typed
  <2> PICK m, h : m \in 0..L /\ h \in 0..L /\ KeptAt(m, h)
    BY DEF IInv, Kept
  <2>0. h = m
    <3>1. h - m \in Nat /\ pending = [j \in 1..(h - m) |-> m + j]
      BY DEF KeptAt, Waiting
    <3>2. Len(pending) = h - m /\ Len(pending) = 0
      BY <3>1
    <3> QED
      BY <3>1, <3>2
  <2>1. /\ received \in Nat /\ ends[m] <= received /\ handled = InOrder((1..m) \ dropped)
        /\ \A i \in 1..L : ends[i] <= received => i <= m
    BY <2>0 DEF IInv, Typed, KeptAt, Done, Taken
  <2>2. /\ \A i \in 0..L : ends[i] \in Nat
        /\ \A i, j \in 0..L : i < j => ends[i] < ends[j]
    BY EndsRise DEF IInv, Cut
  <2>3. ASSUME NEW i \in 1..m PROVE ends[i] <= received
    <3>1. i \in 0..L /\ (i = m \/ i < m)
      OBVIOUS
    <3>2. ends[i] \in Nat /\ ends[m] \in Nat /\ ends[i] <= ends[m]
      BY <2>2, <3>1
    <3> QED
      BY <2>1, <3>2
  <2>4. {i \in DOMAIN frames : ends[i] <= received} = 1..m
    BY <2>1, <2>3
  <2>5. CompleteUpTo(received) = m
    <3>1. Cardinality(1..m) = m
      BY CardinalityTo
    <3> QED
      BY <2>4, <3>1 DEF CompleteUpTo
  <2> QED
    BY <2>1, <2>5
<1> QED
  BY InitHolds, NextHolds, <1>1, PTL DEF Spec

-----------------------------------------------------------------------------
(* What is queued for the client. *)

Out == [op : {"pong", "close", "binary"}, field : Seq(Byte), code : Nat]

Queued == outbound \in Seq(Out) /\ pushed \in Seq(PushLengths)

RInv == IInv /\ Queued /\ RepliesQueued

\* The frames of a kind, by place, and the lengths read at some places.
Places(s, op) == {k \in DOMAIN s : s[k].op = op}
LengthsAt(s, S) == [k \in DOMAIN InOrder(S) |-> AnnouncedLength(s[InOrder(S)[k]].field)]

\* b is a and one more.
Longer(a, b, v) ==
  \E c \in Nat : /\ a = [k \in 1..c |-> a[k]]
                 /\ b = [k \in 1..(c + 1) |-> IF k <= c THEN a[k] ELSE v]

LEMMA SameCount ==
  ASSUME NEW a \in Nat, NEW b \in Nat, 1..a = 1..b
  PROVE  a = b
<1>1. a = 0 \/ a \in 1..a
  OBVIOUS
<1>2. b = 0 \/ b \in 1..b
  OBVIOUS
<1> QED
  BY <1>1, <1>2

LEMMA LongerUnique ==
  ASSUME NEW a, NEW b, NEW d, NEW v, Longer(a, b, v), Longer(a, d, v)
  PROVE  b = d
<1> PICK c \in Nat : /\ a = [k \in 1..c |-> a[k]]
                     /\ b = [k \in 1..(c + 1) |-> IF k <= c THEN a[k] ELSE v]
  BY DEF Longer
<1> PICK e \in Nat : /\ a = [k \in 1..e |-> a[k]]
                     /\ d = [k \in 1..(e + 1) |-> IF k <= e THEN a[k] ELSE v]
  BY DEF Longer
<1>1. DOMAIN a = 1..c /\ DOMAIN a = 1..e
  OBVIOUS
<1>2. c = e
  BY <1>1, SameCount
<1> QED
  BY <1>2

LEMMA AppendLonger ==
  ASSUME NEW T, NEW a \in Seq(T), NEW v \in T
  PROVE  Longer(a, Append(a, v), v)
<1> PICK c \in Nat : Len(a) = c
  OBVIOUS
<1> DEFINE r == Append(a, v)
<1>1. a = [k \in 1..c |-> a[k]]
  BY LenProperties
<1>2. /\ r \in Seq(T) /\ DOMAIN r = 1..(c + 1)
      /\ r[c + 1] = v /\ \A k \in 1..c : r[k] = a[k]
  BY Appended
<1>3. r \in [1..Len(r) -> T]
  BY <1>2, LenProperties
<1> HIDE DEF r
<1>4. r = [k \in 1..(c + 1) |-> r[k]]
  BY <1>2, <1>3
<1>5. \A k \in 1..(c + 1) : r[k] = IF k <= c THEN a[k] ELSE v
  BY <1>2
<1>6. r = [k \in 1..(c + 1) |-> IF k <= c THEN a[k] ELSE v]
  BY <1>4, <1>5
<1> QED
  BY <1>1, <1>6 DEF r, Longer

LEMMA LengthsLonger ==
  ASSUME NEW L \in Nat, NEW S \in SUBSET (0..L), NEW x \in 0..L, \A y \in S : y < x,
         NEW s, NEW t, \A y \in S : t[y] = s[y]
  PROVE  Longer(LengthsAt(s, S), LengthsAt(t, S \cup {x}), AnnouncedLength(t[x].field))
<1> DEFINE q == InOrder(S)
           r == InOrder(S \cup {x})
<1>0. q \in Seq(S) /\ r = Append(q, x)
  BY InOrderAppended
<1> PICK c \in Nat : Len(q) = c
  BY <1>0
<1>1. DOMAIN q = 1..c /\ \A k \in 1..c : q[k] \in S
  BY <1>0
<1>2. q \in Seq(S \cup {x}) /\ x \in S \cup {x}
  BY <1>0, SeqMonotonic
<1>3. DOMAIN r = 1..(c + 1) /\ r[c + 1] = x /\ \A k \in 1..c : r[k] = q[k]
  <2> HIDE DEF q, r
  <2>1. /\ DOMAIN Append(q, x) = 1..(c + 1) /\ Append(q, x)[c + 1] = x
        /\ \A k \in 1..c : Append(q, x)[k] = q[k]
    BY <1>2, Appended
  <2> QED
    BY <1>0, <2>1
<1>9. q = InOrder(S) /\ r = InOrder(S \cup {x})
  OBVIOUS
<1> HIDE DEF q, r
<1>4. LengthsAt(s, S) = [k \in 1..c |-> AnnouncedLength(s[q[k]].field)]
  BY <1>1, <1>9 DEF LengthsAt
<1>5. LengthsAt(t, S \cup {x}) = [k \in 1..(c + 1) |-> AnnouncedLength(t[r[k]].field)]
  BY <1>3, <1>9 DEF LengthsAt
<1>6. ASSUME NEW k \in 1..(c + 1)
      PROVE  AnnouncedLength(t[r[k]].field) =
               IF k <= c THEN LengthsAt(s, S)[k] ELSE AnnouncedLength(t[x].field)
  <2>1. CASE k <= c
    <3>1. k \in 1..c
      BY <2>1
    <3>2. t[r[k]] = s[q[k]]
      BY <1>1, <1>3, <3>1
    <3> QED
      BY <1>4, <2>1, <3>1, <3>2
  <2>2. CASE ~(k <= c)
    <3>1. k = c + 1
      BY <2>2
    <3> QED
      BY <1>3, <2>2, <3>1
  <2> QED
    BY <2>1, <2>2
<1>7. LengthsAt(s, S) = [k \in 1..c |-> LengthsAt(s, S)[k]]
  BY <1>4
<1>8. LengthsAt(t, S \cup {x}) =
        [k \in 1..(c + 1) |->
           IF k <= c THEN LengthsAt(s, S)[k] ELSE AnnouncedLength(t[x].field)]
  BY <1>5, <1>6
<1> QED
  BY <1>7, <1>8 DEF Longer

LEMMA LengthsSame ==
  ASSUME NEW L \in Nat, NEW S \in SUBSET (0..L), NEW s, NEW t, \A y \in S : t[y] = s[y]
  PROVE  LengthsAt(t, S) = LengthsAt(s, S)
<1>1. InOrder(S) \in [1..Cardinality(S) -> S]
  BY InOrderOrders DEF Orders
<1> QED
  BY <1>1 DEF LengthsAt

\* A frame is queued behind the others.
Behind(s, f, t) ==
  /\ DOMAIN t = 1..(Len(s) + 1) /\ Len(t) = Len(s) + 1
  /\ t[Len(s) + 1] = f /\ \A k \in 1..Len(s) : t[k] = s[k]
  /\ \A op : Places(s, op) \in SUBSET (0..(Len(s) + 1)) /\ Len(s) + 1 \notin Places(s, op)
  /\ \A op : Places(t, op) = IF f.op = op THEN Places(s, op) \cup {Len(s) + 1}
                             ELSE Places(s, op)

LEMMA BehindSound ==
  ASSUME NEW s \in Seq(Out), NEW f \in Out
  PROVE  Behind(s, f, Append(s, f))
<1> PICK N \in Nat : N = Len(s) /\ DOMAIN s = 1..N
  OBVIOUS
<1> PICK t : t = Append(s, f)
  OBVIOUS
<1>1. /\ DOMAIN t = 1..(N + 1) /\ Len(t) = N + 1 /\ t[N + 1] = f
      /\ \A k \in 1..N : t[k] = s[k]
  OBVIOUS
<1>2. \A op : Places(s, op) \in SUBSET (0..(N + 1)) /\ N + 1 \notin Places(s, op)
  BY DEF Places
<1>3. ASSUME NEW op
      PROVE  Places(t, op) = IF f.op = op THEN Places(s, op) \cup {N + 1} ELSE Places(s, op)
  <2>1. ASSUME NEW k \in 1..(N + 1)
        PROVE  k \in Places(t, op) <=> k \in Places(s, op) \/ (k = N + 1 /\ f.op = op)
    <3>1. k \in 1..N \/ k = N + 1
      OBVIOUS
    <3>2. N + 1 \notin 1..N
      OBVIOUS
    <3> QED
      BY <1>1, <3>1, <3>2 DEF Places
  <2>2. Places(t, op) \subseteq 1..(N + 1) /\ Places(s, op) \subseteq 1..(N + 1)
    BY <1>1 DEF Places
  <2>3. N + 1 \in 1..(N + 1)
    OBVIOUS
  <2> QED
    BY <2>1, <2>2, <2>3
<1> QED
  BY <1>1, <1>2, <1>3 DEF Behind

\* The lengths of a kind, before and after.
Grown(s, f, t, op) ==
  IF f.op = op
  THEN Longer(LengthsAt(s, Places(s, op)), LengthsAt(t, Places(t, op)), AnnouncedLength(f.field))
  ELSE LengthsAt(t, Places(t, op)) = LengthsAt(s, Places(s, op))

LEMMA GrownSound ==
  ASSUME NEW s \in Seq(Out), NEW f \in Out, NEW t, t = Append(s, f), NEW op
  PROVE  Grown(s, f, t, op)
<1> PICK N \in Nat : N = Len(s) /\ DOMAIN s = 1..N
  OBVIOUS
<1> PICK S : S = Places(s, op)
  OBVIOUS
<1>0. Behind(s, f, t)
  BY BehindSound
<1>1. /\ t[N + 1] = f /\ \A k \in 1..N : t[k] = s[k]
      /\ S \in SUBSET (0..(N + 1)) /\ N + 1 \notin S
      /\ Places(t, op) = IF f.op = op THEN S \cup {N + 1} ELSE S
  BY <1>0 DEF Behind
<1>2. S \subseteq 1..N
  BY DEF Places
<1>3. /\ N + 1 \in Nat /\ N + 1 \in 0..(N + 1) /\ \A y \in S : y < N + 1
      /\ \A y \in S : t[y] = s[y]
  BY <1>1, <1>2
<1>4. CASE f.op = op
  <2>1. Longer(LengthsAt(s, S), LengthsAt(t, S \cup {N + 1}), AnnouncedLength(t[N + 1].field))
    BY <1>1, <1>3, LengthsLonger
  <2> QED
    BY <1>1, <1>4, <2>1 DEF Grown
<1>5. CASE f.op # op
  <2>1. LengthsAt(t, S) = LengthsAt(s, S)
    BY <1>1, <1>3, LengthsSame
  <2> QED
    BY <1>1, <1>5, <2>1 DEF Grown
<1> QED
  BY <1>4, <1>5

\* A ping or a close frame that is not refused has one byte of length.
LEMMA ControlShort ==
  ASSUME NEW f \in ClientFrames, ~BadHeader(f), f.op \in {"ping", "close"}
  PROVE  /\ AnnouncedLength(f.field) \in 0..125
         /\ Size(f) >= 8 => AnnouncedLength(f.field) >= 2
<1>1. IsLengthField(f.field)
  BY StreamAssumption
<1>2. ~(f.field[1] > 125)
  BY DEF BadHeader, Control
<1>3. f.field \in Seq(Byte) /\ Len(f.field) \in {1, 3, 9}
  BY <1>1 DEF IsLengthField
<1>4. f.field[1] \in Byte
  BY <1>3
<1>5. f.field[1] \in 0..125
  BY <1>2, <1>4 DEF Byte
<1>6. Len(f.field) = 1
  <2>1. f.field[1] < 126
    BY <1>5
  <2> QED
    BY <1>1, <2>1 DEF IsLengthField
<1>7. AnnouncedLength(f.field) = f.field[1]
  BY <1>5 DEF AnnouncedLength
<1> QED
  BY <1>5, <1>6, <1>7 DEF Size, MaskSize

LEMMA LimitNat == MaxInt32 \in Nat /\ 125 <= MaxInt32
BY SMT DEF MaxInt32

LEMMA ServerFrameSound ==
  ASSUME NEW op \in {"pong", "close", "binary"}, NEW len \in 0..MaxInt32, NEW code \in Nat
  PROVE  LET f == ServerFrame(op, len, code) IN
           /\ f \in Out /\ f.op = op /\ f.code = code
           /\ AnnouncedLength(f.field) = len
<1>1. len \in Nat /\ len <= MaxInt32
  BY LimitNat
<1>2. LengthField(len) \in Seq(Byte) /\ AnnouncedLength(LengthField(len)) = len
  BY <1>1, LengthsAgree DEF IsLengthField
<1> QED
  BY <1>2 DEF ServerFrame, Out

LEMMA ReplySound ==
  ASSUME NEW f \in ClientFrames, ~BadHeader(f), f.op \in {"ping", "close"}
  PROVE  /\ Reply(f) \in Out
         /\ f.op = "ping" => /\ Reply(f).op = "pong"
                             /\ AnnouncedLength(Reply(f).field) = AnnouncedLength(f.field)
         /\ f.op = "close" => /\ Reply(f).op = "close"
                              /\ Size(f) >= 8 => Reply(f).code = f.code
<1>1. f.code \in Nat
  BY StreamAssumption DEF FrameType
<1>2. 125 <= MaxInt32 /\ MaxInt32 \in Nat
  BY LimitNat
<1>3. CASE f.op = "ping"
  <2>1. AnnouncedLength(f.field) \in 0..MaxInt32
    BY <1>2, ControlShort
  <2>2. Reply(f) = ServerFrame("pong", AnnouncedLength(f.field), 0)
    BY <1>3 DEF Reply
  <2> QED
    BY <1>3, <2>1, <2>2, ServerFrameSound
<1>4. CASE f.op = "close"
  <2>1. CloseCode(f) \in Nat /\ (Size(f) >= 8 => CloseCode(f) = f.code)
    BY <1>1, ControlShort DEF CloseCode
  <2>2. Reply(f) = ServerFrame("close", 2, CloseCode(f))
    BY <1>4 DEF Reply
  <2>3. 2 \in 0..MaxInt32
    BY <1>2
  <2> QED
    BY <1>4, <2>1, <2>2, <2>3, ServerFrameSound
<1> QED
  BY <1>3, <1>4

\* RepliesQueued, in parts.
PongsFound == LengthsAt(outbound, Places(outbound, "pong")) = LengthsAt(frames, Gone("ping"))
PushesFound == LengthsAt(outbound, Places(outbound, "binary")) = pushed
ClosesIn(s, fs, g) ==
  /\ Places(s, "close") # {} <=> g # {}
  /\ \A k \in Places(s, "close") :
       /\ \A l \in (k + 1)..Len(s) : s[l].op = "binary"
       /\ \A i \in g : Size(fs[i]) >= 8 => s[k].code = fs[i].code

ClosesFound == ClosesIn(outbound, frames, Gone("close"))

LEMMA FoundIs == RepliesQueued <=> PongsFound /\ PushesFound /\ ClosesFound
BY DEF RepliesQueued, PongsFound, PushesFound, ClosesFound, ClosesIn, Queue, OfKind, LengthsAt, Places

LEMMA FoundIsNext == PongsFound' /\ PushesFound' /\ ClosesFound' => RepliesQueued'
BY FoundIs, PTL

\* Another frame behind the answer to a close frame, or before there is one.
LEMMA CloseStays ==
  ASSUME NEW s \in Seq(Out), NEW f \in Out, NEW fs, NEW g, ClosesIn(s, fs, g),
         f.op = "binary" \/ (f.op # "close" /\ g = {})
  PROVE  ClosesIn(Append(s, f), fs, g)
<1> DEFINE t == Append(s, f)
<1> PICK N \in Nat : Len(s) = N
  OBVIOUS
<1>0. Behind(s, f, t)
  BY BehindSound
<1> HIDE DEF t
<1>1. /\ Places(t, "close") = Places(s, "close") /\ Len(t) = N + 1 /\ t[N + 1] = f
      /\ \A k \in 1..N : t[k] = s[k]
  BY <1>0 DEF Behind
<1>2. Places(s, "close") \subseteq 1..N
  BY DEF Places
<1>3. ASSUME NEW k \in Places(s, "close"), NEW l \in (k + 1)..(N + 1) PROVE t[l].op = "binary"
  <2>1. f.op = "binary" /\ \A j \in (k + 1)..N : s[j].op = "binary"
    BY DEF ClosesIn
  <2>2. k \in 1..N
    BY <1>2
  <2>3. l \in (k + 1)..N \/ l = N + 1
    BY <2>2
  <2>4. l \in (k + 1)..N => l \in 1..N
    BY <2>2
  <2> QED
    BY <1>1, <2>1, <2>3, <2>4
<1>4. ASSUME NEW k \in Places(s, "close"), NEW i \in g, Size(fs[i]) >= 8
      PROVE  t[k].code = fs[i].code
  <2>1. t[k] = s[k]
    BY <1>1, <1>2
  <2> QED
    BY <1>4, <2>1 DEF ClosesIn
<1>5. Places(s, "close") # {} <=> g # {}
  BY DEF ClosesIn
<1> QED
  BY <1>1, <1>3, <1>4, <1>5 DEF ClosesIn, t

\* The answer to a close frame.
LEMMA CloseComes ==
  ASSUME NEW s \in Seq(Out), NEW f \in Out, NEW fs, NEW x, ClosesIn(s, fs, {}),
         f.op = "close", Size(fs[x]) >= 8 => f.code = fs[x].code
  PROVE  ClosesIn(Append(s, f), fs, {x})
<1> DEFINE t == Append(s, f)
<1> PICK N \in Nat : Len(s) = N
  OBVIOUS
<1>0. Behind(s, f, t)
  BY BehindSound
<1> HIDE DEF t
<1>1. Places(s, "close") = {}
  BY DEF ClosesIn
<1>2. Places(t, "close") = {N + 1} /\ Len(t) = N + 1 /\ t[N + 1] = f
  BY <1>0, <1>1 DEF Behind
<1>3. (N + 1 + 1)..(N + 1) = {}
  OBVIOUS
<1> QED
  BY <1>2, <1>3 DEF ClosesIn, t

\* What is gone through: numbers of frames, none a close frame while the connection
\* is open.
LEMMA GoneSound ==
  ASSUME IInv, NEW m \in 0..Len(frames), Done(m)
  PROVE  /\ \A op : Gone(op) \in SUBSET (0..Len(frames)) /\ Gone(op) \subseteq 1..m
         /\ ~closing => Gone("close") = {}
         /\ handled \in Seq(1..m)
<1> PICK L \in Nat : L = Len(frames)
  BY DEF IInv, Typed
<1>1. (1..m) \ dropped \in SUBSET (0..L) /\ handled = InOrder((1..m) \ dropped)
  BY DEF Done
<1>2. handled \in [1..Cardinality((1..m) \ dropped) -> (1..m) \ dropped]
  BY <1>1, InOrderOrders DEF Orders
<1>3. Cardinality((1..m) \ dropped) \in Nat
  BY <1>1, Numbers
<1>4. handled \in Seq(1..m)
  <2>1. handled \in Seq((1..m) \ dropped)
    BY <1>2, <1>3, SeqDef
  <2> QED
    BY <2>1, SeqMonotonic
<1>5. Range(handled) \subseteq 1..m
  BY <1>4 DEF Range
<1>6. \A op : Gone(op) \subseteq 1..m
  BY <1>5 DEF Gone
<1>7. ~closing => Gone("close") = {}
  BY <1>6 DEF Gone, Done
<1> QED
  BY <1>4, <1>6, <1>7

\* The frames of a kind that are gone through, when one is appended.
LEMMA GoneAppended ==
  ASSUME NEW m \in Nat, handled \in Seq(1..m), NEW x \in Nat,
         handled' = Append(handled, x), UNCHANGED frames, NEW op
  PROVE  Gone(op)' = IF frames[x].op = op THEN Gone(op) \cup {x} ELSE Gone(op)
<1> PICK n \in Nat : n = Len(handled) /\ DOMAIN handled = 1..n
  OBVIOUS
<1>1. /\ DOMAIN handled' = 1..(n + 1) /\ handled'[n + 1] = x
      /\ \A k \in 1..n : handled'[k] = handled[k]
  <2>1. handled \in Seq(Nat)
    OBVIOUS
  <2> QED
    BY <2>1
<1>2. Range(handled)' = Range(handled) \cup {x}
  <2>1. ASSUME NEW k \in 1..n PROVE handled[k] \in Range(handled)'
    <3>1. k \in 1..(n + 1)
      OBVIOUS
    <3> QED
      BY <1>1, <3>1 DEF Range
  <2>2. x \in Range(handled)'
    <3>1. n + 1 \in 1..(n + 1)
      OBVIOUS
    <3> QED
      BY <1>1, <3>1 DEF Range
  <2>3. ASSUME NEW k \in 1..(n + 1) PROVE handled'[k] \in Range(handled) \cup {x}
    <3>1. k \in 1..n \/ k = n + 1
      OBVIOUS
    <3> QED
      BY <1>1, <3>1 DEF Range
  <2> QED
    BY <1>1, <2>1, <2>2, <2>3 DEF Range
<1> QED
  BY <1>2 DEF Gone

LEMMA InitFound == Init => Queued /\ RepliesQueued
<1> SUFFICES ASSUME Init PROVE Queued /\ RepliesQueued
  OBVIOUS
<1>1. outbound = <<>> /\ pushed = <<>> /\ handled = <<>>
  BY DEF Init
<1>2. \A op : Places(outbound, op) = {} /\ Gone(op) = {}
  BY <1>1 DEF Places, Gone, Range
<1>3. \A s : LengthsAt(s, {}) = <<>>
  BY EmptyOrder DEF LengthsAt
<1>4. PongsFound /\ PushesFound
  BY <1>1, <1>2, <1>3 DEF PongsFound, PushesFound
<1>5. ClosesFound
  BY <1>2 DEF ClosesFound, ClosesIn
<1> QED
  BY <1>1, <1>4, <1>5, FoundIs DEF Queued

\* Steps that queue nothing, and handle no ping and no close frame.
LEMMA QuietFound ==
  ASSUME RInv, UNCHANGED <<frames, outbound, pushed>>,
         \A op \in {"ping", "close"} : Gone(op)' = Gone(op)
  PROVE  Queued' /\ RepliesQueued'
<1>1. Queued'
  BY DEF RInv, Queued
<1>2. PongsFound /\ PushesFound /\ ClosesFound
  BY FoundIs DEF RInv
<1>3. PongsFound'
  BY <1>2 DEF PongsFound, LengthsAt, Places
<1>4. PushesFound'
  BY <1>2 DEF PushesFound, LengthsAt, Places
<1>5. ClosesFound'
  BY <1>2 DEF ClosesFound
<1> QED
  BY <1>1, <1>3, <1>4, <1>5, FoundIsNext

LEMMA PushFound ==
  ASSUME RInv, NEW len \in PushLengths, Push(len)
  PROVE  Queued' /\ RepliesQueued'
<1> PICK f : f = ServerFrame("binary", len, 0)
  OBVIOUS
<1>1. f \in Out /\ f.op = "binary" /\ AnnouncedLength(f.field) = len
  <2>1. len \in 0..MaxInt32 /\ 0 \in Nat
    BY StreamAssumption
  <2> QED
    BY <2>1, ServerFrameSound
<1>2. /\ outbound' = Append(outbound, f) /\ pushed' = Append(pushed, len)
      /\ UNCHANGED <<frames, handled>>
  BY DEF Push, input, progress
<1>3. outbound \in Seq(Out) /\ pushed \in Seq(PushLengths)
  BY DEF RInv, Queued
<1>4. Queued'
  BY <1>1, <1>2, <1>3 DEF Queued
<1>5. \A op : Grown(outbound, f, outbound', op)
  BY <1>1, <1>2, <1>3, GrownSound
<1>6. PongsFound /\ PushesFound /\ ClosesFound
  BY FoundIs DEF RInv
<1>7. \A op : Gone(op)' = Gone(op)
  BY <1>2 DEF Gone, Range
<1>8. PongsFound'
  <2>1. LengthsAt(outbound', Places(outbound', "pong")) = LengthsAt(outbound, Places(outbound, "pong"))
    BY <1>1, <1>5 DEF Grown
  <2>2. LengthsAt(frames, Gone("ping"))' = LengthsAt(frames, Gone("ping"))
    BY <1>2, <1>7 DEF LengthsAt
  <2> QED
    BY <1>6, <2>1, <2>2 DEF PongsFound, LengthsAt, Places
<1>9. PushesFound'
  <2>1. Longer(pushed, LengthsAt(outbound', Places(outbound', "binary")), len)
    BY <1>1, <1>5, <1>6 DEF Grown, PushesFound
  <2>2. Longer(pushed, Append(pushed, len), len)
    BY <1>3, AppendLonger
  <2>3. LengthsAt(outbound', Places(outbound', "binary")) = Append(pushed, len)
    BY <2>1, <2>2, LongerUnique
  <2> QED
    BY <1>2, <2>3 DEF PushesFound, LengthsAt, Places
<1>10. ClosesFound'
  <2>1. ClosesIn(Append(outbound, f), frames, Gone("close"))
    BY <1>1, <1>3, <1>6, CloseStays DEF ClosesFound
  <2> QED
    BY <1>2, <1>7, <2>1 DEF ClosesFound
<1> QED
  BY <1>4, <1>8, <1>9, <1>10, FoundIsNext

\* What the steps through the pending frames leave as it is, and where they are.
Stands(m) ==
  /\ m \in 0..Len(frames) /\ Done(m) /\ m + 1 \in 1..Len(frames)
  /\ Frame = frames[m + 1] /\ Head(pending) = m + 1
  /\ Frame \in ClientFrames /\ ~BadHeader(Frame) /\ ~closing

LEMMA StandsSound ==
  ASSUME IInv, pending # <<>>
  PROVE  \E m \in 0..Len(frames) : Stands(m)
<1> PICK m, h : m \in 0..Len(frames) /\ h \in 0..Len(frames) /\ KeptAt(m, h)
  BY DEF IInv, Kept
<1>1. First(m, h)
  BY FirstPending
<1> QED
  BY <1>1 DEF First, Stands, KeptAt

\* An answer is queued for a ping or a close frame.
Answers(op) ==
  /\ pending # <<>> /\ Frame.op = op
  /\ outbound' = Append(outbound, Reply(Frame))
  /\ handled' = Append(handled, Head(pending))
  /\ UNCHANGED <<frames, pushed>>

LEMMA AnswerPingFound ==
  ASSUME RInv, Answers("ping")
  PROVE  Queued' /\ RepliesQueued'
<1> PICK m \in 0..Len(frames) : Stands(m)
  BY StandsSound DEF RInv, Answers
<1> PICK L \in Nat : L = Len(frames)
  BY DEF RInv, IInv, Typed
<1>1. /\ Done(m) /\ m + 1 \in 1..L /\ m \in 0..L /\ Frame = frames[m + 1]
      /\ Head(pending) = m + 1 /\ Frame \in ClientFrames /\ ~BadHeader(Frame) /\ ~closing
  BY DEF Stands
<1>2. /\ handled' = Append(handled, m + 1) /\ frames' = frames /\ pushed' = pushed
      /\ Frame.op = "ping" /\ frames[m + 1].op = "ping"
  BY <1>1 DEF Answers
<1> DEFINE f == Reply(Frame)
<1>3. /\ f \in Out /\ f.op = "pong"
      /\ AnnouncedLength(f.field) = AnnouncedLength(frames[m + 1].field)
  BY <1>1, <1>2, ReplySound
<1>4. outbound' = Append(outbound, f)
  BY DEF Answers
<1> HIDE DEF f
<1>5. outbound \in Seq(Out) /\ pushed \in Seq(PushLengths)
  BY DEF RInv, Queued
<1>6. Queued'
  BY <1>2, <1>3, <1>4, <1>5 DEF Queued
<1>7. \A op : Grown(outbound, f, outbound', op)
  BY <1>3, <1>4, <1>5, GrownSound
<1>8. PongsFound /\ PushesFound /\ ClosesFound
  BY FoundIs DEF RInv
<1>9. /\ \A op : Gone(op) \in SUBSET (0..L) /\ Gone(op) \subseteq 1..m
      /\ Gone("close") = {} /\ handled \in Seq(1..m)
  BY <1>1, GoneSound DEF RInv
<1>10. /\ Gone("ping")' = Gone("ping") \cup {m + 1}
       /\ Gone("close")' = Gone("close")
  <2>1. m \in Nat /\ m + 1 \in Nat
    BY <1>1
  <2>2. \A op : Gone(op)' = IF frames[m + 1].op = op THEN Gone(op) \cup {m + 1} ELSE Gone(op)
    BY <1>2, <1>9, <2>1, GoneAppended
  <2> QED
    BY <1>2, <2>2
<1>11. PongsFound'
  <2> DEFINE a == LengthsAt(frames, Gone("ping"))
             v == AnnouncedLength(frames[m + 1].field)
  <2>1. Longer(a, LengthsAt(outbound', Places(outbound', "pong")), v)
    BY <1>3, <1>7, <1>8 DEF Grown, PongsFound
  <2>2. Longer(a, LengthsAt(frames, Gone("ping") \cup {m + 1}), v)
    <3>1. /\ Gone("ping") \in SUBSET (0..L) /\ m + 1 \in 0..L
          /\ \A y \in Gone("ping") : y < m + 1
      BY <1>1, <1>9
    <3> QED
      BY <3>1, LengthsLonger
  <2>3. LengthsAt(outbound', Places(outbound', "pong"))
          = LengthsAt(frames, Gone("ping") \cup {m + 1})
    BY <2>1, <2>2, LongerUnique
  <2>4. LengthsAt(frames, Gone("ping"))' = LengthsAt(frames, Gone("ping") \cup {m + 1})
    BY <1>2, <1>10 DEF LengthsAt
  <2> QED
    BY <2>3, <2>4 DEF PongsFound, LengthsAt, Places
<1>12. PushesFound'
  <2>1. LengthsAt(outbound', Places(outbound', "binary"))
          = LengthsAt(outbound, Places(outbound, "binary"))
    BY <1>3, <1>7 DEF Grown
  <2> QED
    BY <1>2, <1>8, <2>1 DEF PushesFound, LengthsAt, Places
<1>13. ClosesFound'
  <2>1. ClosesIn(Append(outbound, f), frames, Gone("close"))
    BY <1>3, <1>5, <1>8, <1>9, CloseStays DEF ClosesFound
  <2> QED
    BY <1>2, <1>4, <1>10, <2>1 DEF ClosesFound
<1> QED
  BY <1>6, <1>11, <1>12, <1>13, FoundIsNext

LEMMA AnswerCloseFound ==
  ASSUME RInv, Answers("close")
  PROVE  Queued' /\ RepliesQueued'
<1> PICK m \in 0..Len(frames) : Stands(m)
  BY StandsSound DEF RInv, Answers
<1> PICK L \in Nat : L = Len(frames)
  BY DEF RInv, IInv, Typed
<1>1. /\ Done(m) /\ m + 1 \in 1..L /\ m \in 0..L /\ Frame = frames[m + 1]
      /\ Head(pending) = m + 1 /\ Frame \in ClientFrames /\ ~BadHeader(Frame) /\ ~closing
  BY DEF Stands
<1>2. /\ handled' = Append(handled, m + 1) /\ frames' = frames /\ pushed' = pushed
      /\ Frame.op = "close" /\ frames[m + 1].op = "close"
  BY <1>1 DEF Answers
<1> DEFINE f == Reply(Frame)
<1>3. f \in Out /\ f.op = "close" /\ (Size(frames[m + 1]) >= 8 => f.code = frames[m + 1].code)
  BY <1>1, <1>2, ReplySound
<1>4. outbound' = Append(outbound, f)
  BY DEF Answers
<1> HIDE DEF f
<1>5. outbound \in Seq(Out) /\ pushed \in Seq(PushLengths)
  BY DEF RInv, Queued
<1>6. Queued'
  BY <1>2, <1>3, <1>4, <1>5 DEF Queued
<1>7. \A op : Grown(outbound, f, outbound', op)
  BY <1>3, <1>4, <1>5, GrownSound
<1>8. PongsFound /\ PushesFound /\ ClosesFound
  BY FoundIs DEF RInv
<1>9. Gone("close") = {} /\ handled \in Seq(1..m)
  BY <1>1, GoneSound DEF RInv
<1>10. Gone("ping")' = Gone("ping") /\ Gone("close")' = {m + 1}
  <2>1. m \in Nat /\ m + 1 \in Nat
    BY <1>1
  <2>2. \A op : Gone(op)' = IF frames[m + 1].op = op THEN Gone(op) \cup {m + 1} ELSE Gone(op)
    BY <1>2, <1>9, <2>1, GoneAppended
  <2> QED
    BY <1>2, <1>9, <2>2
<1>11. PongsFound'
  <2>1. LengthsAt(outbound', Places(outbound', "pong"))
          = LengthsAt(outbound, Places(outbound, "pong"))
    BY <1>3, <1>7 DEF Grown
  <2>2. LengthsAt(frames, Gone("ping"))' = LengthsAt(frames, Gone("ping"))
    BY <1>2, <1>10 DEF LengthsAt
  <2> QED
    BY <1>8, <2>1, <2>2 DEF PongsFound, LengthsAt, Places
<1>12. PushesFound'
  <2>1. LengthsAt(outbound', Places(outbound', "binary"))
          = LengthsAt(outbound, Places(outbound, "binary"))
    BY <1>3, <1>7 DEF Grown
  <2> QED
    BY <1>2, <1>8, <2>1 DEF PushesFound, LengthsAt, Places
<1>13. ClosesFound'
  <2>1. ClosesIn(outbound, frames, {})
    BY <1>8, <1>9 DEF ClosesFound
  <2>2. ClosesIn(Append(outbound, f), frames, {m + 1})
    BY <1>3, <1>5, <2>1, CloseComes
  <2> QED
    BY <1>2, <1>4, <1>10, <2>2 DEF ClosesFound
<1> QED
  BY <1>6, <1>11, <1>12, <1>13, FoundIsNext

\* A frame that needs no answer.
LEMMA PassedFound ==
  ASSUME RInv, pending # <<>>, Frame.op \notin {"ping", "close"}, Passed(Head(pending)),
         UNCHANGED <<frames, outbound, pushed>>
  PROVE  Queued' /\ RepliesQueued'
<1>1. CASE UNCHANGED handled
  <2>1. \A op \in {"ping", "close"} : Gone(op)' = Gone(op)
    BY <1>1 DEF Gone, Range
  <2> QED
    BY <2>1, QuietFound
<1>2. CASE handled' = Append(handled, Head(pending))
  <2> PICK m \in 0..Len(frames) : Stands(m)
    BY StandsSound DEF RInv
  <2>1. /\ Done(m) /\ m \in Nat /\ m + 1 \in Nat
        /\ Frame = frames[m + 1] /\ Head(pending) = m + 1
    BY DEF Stands
  <2>2. handled \in Seq(1..m)
    BY <2>1, GoneSound DEF RInv
  <2>3. \A op : Gone(op)' = IF frames[m + 1].op = op THEN Gone(op) \cup {m + 1} ELSE Gone(op)
    BY <1>2, <2>1, <2>2, GoneAppended
  <2>4. \A op \in {"ping", "close"} : Gone(op)' = Gone(op)
    BY <2>1, <2>3
  <2> QED
    BY <2>4, QuietFound
<1> QED
  BY <1>1, <1>2 DEF Passed

LEMMA NextFound == RInv /\ [Next]_vars => RInv'
<1> SUFFICES ASSUME RInv, [Next]_vars PROVE Queued' /\ RepliesQueued'
  BY NextHolds DEF RInv
<1>1. ASSUME AnswerPing PROVE Queued' /\ RepliesQueued'
  BY <1>1, AnswerPingFound DEF AnswerPing, Answers, input
<1>2. ASSUME AnswerClose PROVE Queued' /\ RepliesQueued'
  BY <1>2, AnswerCloseFound DEF AnswerClose, Answers, input
<1>3. ASSUME SubmitBinary \/ PassOver PROVE Queued' /\ RepliesQueued'
  <2>1. /\ pending # <<>> /\ Frame.op \notin {"ping", "close"} /\ Passed(Head(pending))
        /\ UNCHANGED <<frames, outbound, pushed>>
    BY <1>3 DEF SubmitBinary, PassOver, Passed, Frame, input
  <2> QED
    BY <2>1, PassedFound
<1>4. ASSUME NEW len \in PushLengths, Push(len) PROVE Queued' /\ RepliesQueued'
  BY <1>4, PushFound
<1>5. ASSUME \/ \E k \in 1..ReadCap : OnTrafficHandshake(k) \/ OnTrafficFrames(k)
             \/ LoopCloses \/ UNCHANGED vars
      PROVE  Queued' /\ RepliesQueued'
  <2>1. UNCHANGED <<frames, outbound, pushed, handled>>
    BY <1>5 DEF OnTrafficHandshake, OnTrafficFrames, LoopCloses, vars, input, progress
  <2>2. \A op \in {"ping", "close"} : Gone(op)' = Gone(op)
    BY <2>1 DEF Gone, Range
  <2> QED
    BY <2>1, <2>2, QuietFound
<1> QED
  BY <1>1, <1>2, <1>3, <1>4, <1>5 DEF Next

\* Whatever pool goroutines queue before, between and behind the answers, each ping
\* that was handled has its pong in the queue, and a close frame its answer, with no
\* pong behind it (event_handler.go:171-184, frame.go:43-60).
THEOREM RepliesSafe == Spec => []RepliesQueued
<1>1. Init => RInv
  BY InitHolds, InitFound DEF RInv
<1>2. RInv => RepliesQueued
  BY DEF RInv
<1> QED
  BY <1>1, NextFound, <1>2, PTL DEF Spec

\* The state is well typed, the queued frames among it, and no byte is taken out of
\* the buffer that has not come (event_handler.go:163-167).
THEOREM TypeCorrect == Spec => []TypeOK
<1>1. Init => RInv
  BY InitHolds, InitFound DEF RInv
<1>2. RInv => TypeOK
  <2> SUFFICES ASSUME RInv PROVE TypeOK
    OBVIOUS
  <2> PICK L \in Nat : L = Len(frames) /\ DOMAIN frames = 1..L
    BY DEF RInv, IInv, Typed
  <2> PICK m, h : m \in 0..L /\ h \in 0..L /\ KeptAt(m, h)
    BY DEF RInv, IInv, Kept
  <2>1. handled \in Seq(DOMAIN frames)
    <3>1. handled \in Seq(1..m)
      BY GoneSound DEF RInv, KeptAt
    <3>2. 1..m \subseteq DOMAIN frames
      OBVIOUS
    <3> QED
      BY <3>1, <3>2, SeqMonotonic
  <2>2. pending \in Seq(DOMAIN frames)
    <3>1. h \in m..L /\ pending = [k \in 1..(h - m) |-> m + k]
      BY DEF KeptAt, Waiting
    <3>2. h - m \in Nat /\ pending \in [1..(h - m) -> DOMAIN frames]
      BY <3>1
    <3> QED
      BY <3>2, SeqDef
  <2>3. consumed \in 0..received /\ dropped \subseteq DOMAIN frames
    BY DEF RInv, IInv, Typed, KeptAt, Taken, Done
  <2>4. outbound \in Seq(Out) /\ pushed \in Seq(PushLengths)
    BY DEF RInv, Queued
  <2>5. /\ request \in Request /\ frames \in Seq(ClientFrames) /\ received \in Nat
        /\ HandshakeDone \in BOOLEAN /\ closing \in BOOLEAN /\ closed \in BOOLEAN
        /\ ends \in [0..Len(frames) -> Nat]
    BY DEF RInv, IInv, Typed, Cut
  <2> QED
    BY <2>1, <2>2, <2>3, <2>4, <2>5 DEF TypeOK, Out
<1> QED
  BY <1>1, NextFound, <1>2, PTL DEF Spec
=============================================================================
