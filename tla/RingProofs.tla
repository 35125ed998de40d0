----------------------------- MODULE RingProofs -----------------------------
(***************************************************************************)
(* Lemmas about the counters of a ring buffer, as struct pipe and the      *)
(* console's input have them: unsigned integers that run past the size of  *)
(* the buffer and wrap around at a multiple of it.                         *)
(***************************************************************************)
EXTENDS Integers, Sequences, SequenceTheorems, TLAPS

\* What the remainder of a division is.
LEMMA ModDef ==
  \A a, m \in Int : m > 0 =>
    /\ a \div m \in Int /\ a % m \in Int
    /\ a = m * (a \div m) + (a % m) /\ a % m \in 0..(m-1)
  OBVIOUS

\* Division with remainder is unique.
LEMMA ModUnique ==
  \A a, m, q, r \in Int : m > 0 /\ r \in 0..(m-1) /\ a = m * q + r => a % m = r
  OBVIOUS

\* Adding a multiple of m does not change the remainder.
LEMMA ModSame ==
  ASSUME NEW m \in Int, m > 0, NEW b \in Int, NEW k \in Int
  PROVE  (b + m * k) % m = b % m
  <1>1. b = m * (b \div m) + (b % m) /\ b \div m \in Int
    BY ModDef
  <1>2. b % m \in 0..(m-1) /\ b % m \in Int
    BY ModDef
  <1>3. PICK q \in Int : q = (b \div m) + k
    BY <1>1
  <1>4. PICK a \in Int : a = b + m * k
    OBVIOUS
  <1>5. a = m * q + (b % m)
    BY <1>1, <1>2, <1>3, <1>4
  <1>6. a % m = b % m
    BY <1>2, <1>5, ModUnique, Zenon
  <1> QED BY <1>4, <1>6

\* The remainder of a number just outside 0..(m-1).
LEMMA ModNear ==
  \A a, m \in Int : m > 0 =>
    /\ a \in 0..(m-1) => a % m = a
    /\ a \in m..(m+m-1) => a % m = a - m
    /\ a \in (-m)..(-1) => a % m = a + m
  OBVIOUS

\* A remainder inside a sum may be taken first, also by a multiple of m.
LEMMA ModInside ==
  \A m, v \in Int : m > 0 /\ v > 0 /\ v % m = 0 =>
    \A a, b \in Int : ((a % v) + b) % m = (a + b) % m
  <1> TAKE m, v \in Int
  <1> HAVE m > 0 /\ v > 0 /\ v % m = 0
  <1> TAKE a, b \in Int
  <1>1. PICK x \in Int : v = m * x
    BY ModDef
  <1>2. PICK y \in Int, z \in Int : a = v * y + z /\ z = a % v
    BY ModDef
  <1>3. v * y = m * (x * y)
    BY <1>1
  <1>4. PICK k \in Int : k = -(x * y)
    OBVIOUS
  <1>5. z + b = (a + b) + m * k
    BY <1>2, <1>3, <1>4
  <1>6. ((a + b) + m * k) % m = (a + b) % m
    BY ModSame, a + b \in Int, Zenon
  <1> QED BY <1>2, <1>5, <1>6

-----------------------------------------------------------------------------
(* Counters below v, a buffer of m cells; (j - i) % v is how far j is ahead  *)
(* of i.                                                                     *)

\* The counter in front moves on by k.
LEMMA MoveFront ==
  ASSUME NEW v \in Int, v > 0, NEW i \in 0..(v-1), NEW j \in 0..(v-1), NEW k \in Nat,
         ((j - i) % v) + k < v
  PROVE  (j + k) % v \in 0..(v-1) /\ (((j + k) % v) - i) % v = ((j - i) % v) + k
  <1>1. (j - i) % v = IF j >= i THEN j - i ELSE j - i + v
    BY ModNear
  <1>2. (j + k) % v = IF j + k < v THEN j + k ELSE j + k - v
    BY <1>1, ModNear
  <1>3. PICK x \in 0..(v-1) : x = (j + k) % v
    BY <1>1, <1>2
  <1>4. (x - i) % v = IF x >= i THEN x - i ELSE x - i + v
    BY ModNear
  <1>5. (x - i) % v = ((j - i) % v) + k
    BY <1>1, <1>2, <1>3, <1>4
  <1> QED BY <1>3, <1>5

\* The counter behind moves on by k, at most up to the other.
LEMMA MoveBack ==
  ASSUME NEW v \in Int, v > 0, NEW i \in 0..(v-1), NEW j \in 0..(v-1), NEW k \in Nat,
         k <= (j - i) % v
  PROVE  (i + k) % v \in 0..(v-1) /\ (j - ((i + k) % v)) % v = ((j - i) % v) - k
  <1>1. (j - i) % v = IF j >= i THEN j - i ELSE j - i + v
    BY ModNear
  <1>2. (i + k) % v = IF i + k < v THEN i + k ELSE i + k - v
    BY <1>1, ModNear
  <1>3. PICK x \in 0..(v-1) : x = (i + k) % v
    BY <1>1, <1>2
  <1>4. (j - x) % v = IF j >= x THEN j - x ELSE j - x + v
    BY ModNear
  <1>5. (j - x) % v = ((j - i) % v) - k
    BY <1>1, <1>2, <1>3, <1>4
  <1> QED BY <1>3, <1>5

\* The cell k places after the counter i is k - d places after the counter j
\* that is d ahead of i.
LEMMA CellFrom ==
  ASSUME NEW v \in Int, NEW m \in Int, v > 0, m > 0, v % m = 0,
         NEW i \in Int, NEW j \in Int, NEW k \in Int
  PROVE  (((i + k) % m) - j) % m = (k - ((j - i) % v)) % m
  <1>2. PICK a \in Int, b \in Int : a = i + k /\ b = -j
    OBVIOUS
  <1>3. ((a % m) + b) % m = (a + b) % m
    <2>1. PICK t \in Int, u \in Int : a = m * t + (a % m) /\ u = -t /\ a % m \in Int
      BY ModDef
    <2>2. PICK d \in Int : d = a + b
      OBVIOUS
    <2>3. (a % m) + b = d + m * u
      BY <2>1, <2>2
    <2>4. (d + m * u) % m = d % m
      BY ModSame, Zenon
    <2> QED BY <2>2, <2>3, <2>4, Zenon
  <1>4. PICK x \in Int : v = m * x
    BY ModDef
  <1>5. PICK y \in Int, z \in Int : j - i = v * y + z /\ z = (j - i) % v
    BY ModDef
  <1>6. v * y = m * (x * y)
    BY <1>4
  <1>7. PICK c \in Int, q \in Int : c = i + k - j /\ q = x * y
    OBVIOUS
  <1>8. k - z = c + m * q
    BY <1>5, <1>6, <1>7
  <1>9. (c + m * q) % m = c % m
    BY ModSame, Zenon
  <1>10. (k - z) % m = c % m
    BY <1>8, <1>9
  <1>11. a + b = c /\ (a % m) + b = ((i + k) % m) - j
    BY <1>2, <1>7, ModDef
  <1>12. (((i + k) % m) - j) % m = c % m
    BY <1>3, <1>11, Zenon
  <1> QED BY <1>5, <1>10, <1>12, Zenon

\* A function from 1..k is a sequence of length k.
LEMMA FunctionIsSeq ==
  ASSUME NEW S, NEW k \in Nat, NEW f \in [1..k -> S]
  PROVE  f \in Seq(S) /\ Len(f) = k
  <1>1. f \in Seq(S)
    BY SeqDef
  <1>2. Len(f) \in Nat /\ DOMAIN f = 1..Len(f)
    BY <1>1, LenProperties
  <1> QED BY <1>1, <1>2
=============================================================================
