---------------------------- MODULE MaglevProofs ----------------------------
(***************************************************************************)
(* For every prime size, every set of backends, however it is enumerated,  *)
(* and every offset and skip: the preferences of a backend are all the     *)
(* slots, so the fill never tries one past the last, and the table it      *)
(* fills is even, full and the one the set determines.                     *)
(***************************************************************************)
EXTENDS Maglev, Induction

(* Remainders *)
LEMMA Euclid ==
  ASSUME NEW a \in Int, NEW d \in Nat \ {0}
  PROVE  /\ a % d \in 0 .. d - 1
         /\ a \div d \in Int
         /\ a = d * (a \div d) + (a % d)
  OBVIOUS

LEMMA Remainder ==
  ASSUME NEW a \in Int, NEW d \in Nat \ {0}, NEW q \in Int, NEW r \in 0 .. d - 1,
         a = d * q + r
  PROVE  a % d = r /\ a \div d = q
<1>1. PICK p \in Int, s \in 0 .. d - 1 : a = d * p + s /\ p = a \div d /\ s = a % d
  BY Euclid
<1>2. d * (q - p) = s - r
  BY <1>1
<1>3. q - p = 0
  <2>1. CASE q - p >= 1
    <3>1. d * (q - p) >= d
      BY <1>1, <2>1
    <3>2. QED
      BY <1>1, <1>2, <3>1
  <2>2. CASE q - p <= -1
    <3>1. d * (q - p) <= -d
      BY <1>1, <2>2
    <3>2. QED
      BY <1>1, <1>2, <3>1
  <2>3. QED
    BY <1>1, <2>1, <2>2
<1>4. q = p /\ s = r
  BY <1>1, <1>2, <1>3
<1>5. QED
  BY <1>1, <1>4, Zenon

LEMMA Multiple ==
  ASSUME NEW a \in Int, NEW d \in Nat \ {0}, NEW q \in Int, a = d * q
  PROVE  a % d = 0 /\ a \div d = q
<1>1. a = d * q + 0 /\ 0 \in 0 .. d - 1
  OBVIOUS
<1>2. QED
  BY <1>1, Remainder

(* maglev_is_prime, whose loop tries only odd divisors and only up to the  *)
(* square root, finds the primes among the 32-bit numbers                  *)
(* (maglev_table.c:9-22).                                                  *)
LEMMA PrimeHasNoDivisor ==
  ASSUME NEW p \in Nat, IsUint32(p), maglev_is_prime(p),
         NEW d \in 2 .. p - 1
  PROVE  p % d # 0
<1> SUFFICES ASSUME p % d = 0 PROVE FALSE
  OBVIOUS
<1> DEFINE e == p \div d
           r == Root(p)
<1>1. p >= 2 /\ (p % 2 = 0 => p = 2)
  BY DEF maglev_is_prime
<1>2. r \in Nat \ {0} /\ r >= 2 /\ p \div r < r
  <2> DEFINE S == {16, 256, 4096, HalfWord}
             Over(x) == p \div x < x
  <2>1. r \in S /\ Over(r)
    <3>1. HalfWord \in S /\ Over(HalfWord)
      BY DEF IsUint32
    <3>2. r = CHOOSE x \in S : Over(x)
      BY DEF Root
    <3> HIDE DEF S, Over, r
    <3>3. QED
      BY <3>1, <3>2, Zenon
  <2>2. HalfWord \in Nat \ {0} /\ HalfWord >= 2
    BY DEF HalfWord
  <2>3. QED
    BY <2>1, <2>2
<1>3. \A x \in 3 .. r : (x % 2 = 1 /\ x <= p \div x) => p % x # 0
  BY DEF maglev_is_prime
<1>4. e \in Int /\ p = d * e
  BY Euclid
<1>5. e \in 2 .. p - 1
  <2>1. e > 0
    <3>1. SUFFICES ASSUME e <= 0 PROVE FALSE
      BY <1>4
    <3>2. d * e <= 0
      BY <1>4, <3>1
    <3>3. QED
      BY <1>1, <1>4, <3>2
  <2>2. e # 1
    BY <1>4
  <2>3. e < p
    <3>1. d * e >= 2 * e
      BY <1>4, <2>1
    <3>2. QED
      BY <1>4, <2>1, <3>1
  <2>4. QED
    BY <1>4, <2>1, <2>2, <2>3
<1> HIDE DEF e, r
(* Either of two factors is the quotient of the other. *)
<1>6. ASSUME NEW x \in 2 .. p - 1, NEW y \in 2 .. p - 1, p = x * y
      PROVE  p % x = 0 /\ p \div x = y
  <2>1. x \in Nat \ {0} /\ y \in Int /\ p \in Int
    OBVIOUS
  <2>2. QED
    BY <1>6, <2>1, Multiple, Zenon
(* The smaller of the two is tried. *)
<1>7. ASSUME NEW x \in 2 .. p - 1, NEW y \in 2 .. p - 1, p = x * y, x <= y
      PROVE  FALSE
  <2>1. p % x = 0 /\ p \div x = y
    BY <1>6, <1>7, Zenon
  <2>2. x % 2 = 1
    <3>1. SUFFICES ASSUME x % 2 = 0 PROVE FALSE
      OBVIOUS
    <3>2. x = 2 * (x \div 2) /\ x \div 2 \in Int
      BY <3>1
    <3>3. p = 2 * ((x \div 2) * y)
      BY <1>7, <3>2
    <3>4. (x \div 2) * y \in Int /\ p \in Int /\ 2 \in Nat \ {0}
      BY <3>2
    <3>5. p % 2 = 0
      BY <3>3, <3>4, Multiple
    <3>6. QED
      BY <1>1, <3>5
  <2>3. x <= r
    <3>1. SUFFICES ASSUME x > r PROVE FALSE
      BY <1>2
    <3>2. r \in Nat \ {0}
      BY <1>2
    <3>3. p >= r * r
      <4>1. x * y >= r * y
        BY <3>1, <3>2
      <4>2. r * y >= r * r
        BY <1>7, <3>1, <3>2
      <4>3. QED
        BY <1>7, <3>2, <4>1, <4>2
    <3>4. p \div r >= r
      <4>1. p = r * (p \div r) + (p % r) /\ p % r \in 0 .. r - 1 /\ p \div r \in Int
        BY <3>2, Euclid
      <4>2. SUFFICES ASSUME p \div r <= r - 1 PROVE FALSE
        BY <3>2, <4>1
      <4>3. r * (p \div r) <= r * (r - 1)
        BY <3>2, <4>1, <4>2
      <4>4. r * (r - 1) = r * r - r
        BY <3>2
      <4>5. QED
        BY <3>2, <3>3, <4>1, <4>3, <4>4
    <3>5. QED
      BY <1>2, <3>2, <3>4
  <2>4. x \in 3 .. r /\ x <= p \div x
    BY <1>2, <1>7, <2>1, <2>2, <2>3
  <2>5. QED
    BY <1>3, <2>1, <2>2, <2>4
<1>8. p = e * d
  BY <1>4, <1>5
<1>9. QED
  BY <1>4, <1>5, <1>7, <1>8

(* The primes the table is given, as the proofs use them. *)
Prime(p) == p \in Nat /\ p >= 2 /\ \A d \in 2 .. p - 1 : p % d # 0

(* A multiple of a step below the size is a multiple of the size only from *)
(* the size on: the least that is divides the size.                        *)
LEMMA StepsDoNotReturn ==
  ASSUME NEW p, Prime(p), NEW s \in 1 .. p - 1, NEW k \in 1 .. p - 1
  PROVE  (k * s) % p # 0
<1> DEFINE T == {x \in Nat : x # 0 /\ (x * s) % p = 0}
<1>1. SUFFICES ASSUME (k * s) % p = 0 PROVE FALSE
  OBVIOUS
<1>2. p \in Nat \ {0} /\ s \in Nat /\ k \in Nat
  BY DEF Prime
<1> k \in T
  BY <1>1, <1>2
<1>3. PICK x \in T : \A y \in T : x <= y
  <2> HIDE DEF T
  <2>1. T \subseteq Nat /\ T # {}
    BY Zenon DEF T
  <2>2. QED
    BY <2>1, LeastNatural, Zenon
<1>4. x \in 1 .. p - 1 /\ (x * s) % p = 0
  <2>1. x \in Nat /\ x # 0 /\ (x * s) % p = 0 /\ x <= k
    BY <1>3
  <2>2. QED
    BY <1>2, <2>1
<1> DEFINE q == p \div x
           r == p % x
           a == (x * s) \div p
<1>5. q \in Int /\ r \in 0 .. x - 1 /\ p = x * q + r
  BY <1>2, <1>4, Euclid
<1>6. a \in Int /\ x * s = p * a
  <2>1. PICK z \in Int : z = x * s
    BY <1>2, <1>4
  <2>2. z % p = 0
    BY <1>4, <2>1
  <2>3. z \div p \in Int /\ z = p * (z \div p)
    BY <1>2, <2>2, Euclid
  <2>4. QED
    BY <2>1, <2>3
<1> HIDE DEF q, r, a
<1>7. r * s = p * (s - q * a)
  <2>1. r * s = p * s - (x * q) * s
    BY <1>2, <1>4, <1>5
  <2>2. (x * q) * s = q * (x * s)
    BY <1>2, <1>4, <1>5
  <2>3. q * (p * a) = p * (q * a)
    BY <1>2, <1>5, <1>6
  <2>4. p * (s - q * a) = p * s - p * (q * a)
    BY <1>2, <1>5, <1>6
  <2>5. q * (x * s) = q * (p * a)
    BY <1>6
  <2>6. QED
    BY <2>1, <2>2, <2>3, <2>4, <2>5
<1>8. (r * s) % p = 0
  <2>1. r * s \in Int /\ s - q * a \in Int
    BY <1>2, <1>5, <1>6
  <2>2. QED
    BY <1>2, <1>7, <2>1, Multiple
<1>9. r = 0
  BY <1>2, <1>3, <1>4, <1>5, <1>8
<1>10. p % x = 0
  BY <1>9 DEF r
<1>11. x = 1
  BY <1>2, <1>4, <1>10 DEF Prime
<1>12. s % p = 0
  BY <1>2, <1>4, <1>11
<1>13. s = p * 0 + s /\ s \in 0 .. p - 1
  BY <1>2
<1>14. s % p = s
  BY <1>2, <1>13, Remainder
<1>15. QED
  BY <1>12, <1>14

(* Two different places of a preference list hold different slots. *)
LEMMA PreferencesDiffer ==
  ASSUME NEW p, Prime(p), NEW o \in 0 .. p - 1, NEW s \in 1 .. p - 1,
         NEW k \in 0 .. p - 1, NEW l \in 0 .. p - 1, l < k
  PROVE  (o + k * s) % p # (o + l * s) % p
<1> DEFINE u == o + k * s
           v == o + l * s
<1>1. SUFFICES ASSUME u % p = v % p PROVE FALSE
  OBVIOUS
<1>2. p \in Nat \ {0} /\ o \in Nat /\ s \in Nat /\ k \in Nat /\ l \in Nat
  BY DEF Prime
<1>3. u - v = (k - l) * s
  BY <1>2
<1> u \in Int /\ v \in Int
  BY <1>2
<1>4. u - v = p * ((u \div p) - (v \div p)) /\ (u \div p) - (v \div p) \in Int
  <2> HIDE DEF u, v
  <2>1. /\ u = p * (u \div p) + (u % p) /\ u \div p \in Int /\ u % p \in 0 .. p - 1
        /\ v = p * (v \div p) + (v % p) /\ v \div p \in Int
    BY <1>2, Euclid, Zenon
  <2>2. p * ((u \div p) - (v \div p)) = p * (u \div p) - p * (v \div p)
    BY <1>2, <2>1
  <2>3. p * (u \div p) \in Int /\ p * (v \div p) \in Int
    BY <1>2, <2>1
  <2>4. QED
    BY <1>1, <2>1, <2>2, <2>3
<1> HIDE DEF u, v
<1>5. ((k - l) * s) % p = 0
  <2>1. (k - l) * s \in Int
    BY <1>2
  <2>2. QED
    BY <1>2, <1>3, <1>4, <2>1, Multiple
<1>6. k - l \in 1 .. p - 1
  BY <1>2
<1>7. QED
  BY <1>5, <1>6, StepsDoNotReturn

(* M must be prime so that every preference list is a full cycle           *)
(* (maglev_table.h:37-40): whatever the offset and the skip, each slot is  *)
(* on it.                                                                  *)
THEOREM FullCycle ==
  ASSUME NEW p, Prime(p), NEW o \in 0 .. p - 1, NEW s \in 1 .. p - 1,
         NEW c \in 0 .. p - 1
  PROVE  \E k \in 0 .. p - 1 : (o + k * s) % p = c
<1> SUFFICES ASSUME \A k \in 0 .. p - 1 : (o + k * s) % p # c PROVE FALSE
  OBVIOUS
<1> DEFINE S == 0 .. p - 1
           T == S \ {c}
           f == [k \in S |-> (o + k * s) % p]
<1>1. p \in Nat \ {0} /\ o \in Nat /\ s \in Nat
  BY DEF Prime
<1>2. IsFiniteSet(S) /\ Cardinality(S) = p
  BY <1>1, FS_Interval
<1>3. IsFiniteSet(T) /\ Cardinality(T) = p - 1
  BY <1>2, FS_RemoveElement, Zenon
<1>4. f \in [S -> T]
  <2>1. ASSUME NEW k \in S PROVE (o + k * s) % p \in T
    <3>1. o + k * s \in Int
      BY <1>1
    <3>2. (o + k * s) % p \in S
      BY <1>1, <3>1, Euclid
    <3>3. QED
      BY <3>2
  <2>2. QED
    BY <2>1
<1>5. PICK x \in S, y \in S : x # y /\ f[x] = f[y]
  <2> HIDE DEF S, T, f
  <2>1. Cardinality(T) < Cardinality(S)
    BY <1>1, <1>2, <1>3
  <2>2. QED
    BY <1>2, <1>3, <1>4, <2>1, FS_PigeonHole
<1>6. x < y \/ y < x
  BY <1>1, <1>5
<1>7. QED
  BY <1>5, <1>6, PreferencesDiffer

-----------------------------------------------------------------------------
(* Orders *)

(* An enumeration without repetitions of as many as there are names all. *)
LEMMA OrdersCover ==
  ASSUME NEW S, IsFiniteSet(S), NEW s \in Orders(S)
  PROVE  Range(s) = S
<1> DEFINE k == Cardinality(S)
<1>1. k \in Nat /\ s \in [1 .. k -> S] /\ \A a, b \in 1 .. k : s[a] = s[b] => a = b
  BY FS_CardinalityType, Zenon DEF Orders, IsInjective
<1>2. ASSUME NEW c \in S, c \notin Range(s) PROVE FALSE
  <2>1. IsFiniteSet(S \ {c}) /\ Cardinality(S \ {c}) = k - 1
    BY FS_RemoveElement, Zenon
  <2>2. s \in [1 .. k -> S \ {c}]
    BY <1>1, <1>2, Zenon DEF Range
  <2>3. IsFiniteSet(1 .. k) /\ Cardinality(1 .. k) = k
    BY <1>1, FS_Interval
  <2> HIDE DEF k
  <2>4. Cardinality(S \ {c}) < Cardinality(1 .. k)
    BY <1>1, <2>1, <2>3
  <2>5. \E x, y \in 1 .. k : x # y /\ s[x] = s[y]
    BY <2>1, <2>2, <2>3, <2>4, FS_PigeonHole, Zenon
  <2>6. QED
    BY <1>1, <2>5, Zenon
<1>3. Range(s) \subseteq S
  BY <1>1, Zenon DEF Range
<1>4. QED
  BY <1>2, <1>3

Increasing(s, k) == \A a, b \in 1 .. k : a < b => s[a] < s[b]

LEMMA IncreasingIsOrder ==
  ASSUME NEW S, S \subseteq Nat, IsFiniteSet(S), NEW s \in [1 .. Cardinality(S) -> S],
         Increasing(s, Cardinality(S))
  PROVE  s \in Orders(S)
<1> DEFINE k == Cardinality(S)
<1>1. k \in Nat
  BY FS_CardinalityType
<1>2. ASSUME NEW a \in 1 .. k, NEW b \in 1 .. k, s[a] = s[b] PROVE a = b
  <2>1. s[a] \in Nat /\ s[b] \in Nat
    BY Zenon
  <2>2. a < b \/ b < a \/ a = b
    BY <1>1
  <2>3. QED
    BY <1>1, <1>2, <2>1, <2>2 DEF Increasing
<1>3. DOMAIN s = 1 .. k
  OBVIOUS
<1>4. QED
  BY <1>2, <1>3, Zenon DEF Orders, IsInjective

(* A finite set of ids can be sorted: the least comes first. *)
LEMMA SortExists ==
  ASSUME NEW S, S \subseteq Nat, IsFiniteSet(S)
  PROVE  \E s \in Orders(S) : Increasing(s, Cardinality(S))
<1> DEFINE Sorts(U) == \E s \in [1 .. Cardinality(U) -> U] : Increasing(s, Cardinality(U))
           N == {k \in Nat : \A U \in SUBSET Nat :
                   IsFiniteSet(U) /\ Cardinality(U) = k => Sorts(U)}
<1>1. 0 \in N
  <2>1. ASSUME NEW U \in SUBSET Nat, IsFiniteSet(U), Cardinality(U) = 0 PROVE Sorts(U)
    <3>1. [i \in 1 .. 0 |-> 0] \in [1 .. 0 -> U]
      OBVIOUS
    <3>2. Increasing([i \in 1 .. 0 |-> 0], 0)
      BY DEF Increasing
    <3>3. QED
      BY <2>1, <3>1, <3>2, Zenon
  <2>2. QED
    BY <2>1
<1>2. ASSUME NEW k \in Nat, k \in N PROVE k + 1 \in N
  <2>1. ASSUME NEW U \in SUBSET Nat, IsFiniteSet(U), Cardinality(U) = k + 1 PROVE Sorts(U)
    <3>1. U # {}
      BY <2>1, FS_EmptySet
    <3>2. PICK x \in U : \A y \in U : x <= y
      BY <3>1, LeastNatural, Zenon
    <3> DEFINE T == U \ {x}
    <3>3. IsFiniteSet(T) /\ Cardinality(T) = k
      <4>1. IsFiniteSet(T) /\ Cardinality(T) = Cardinality(U) - 1
        BY <2>1, FS_RemoveElement, Zenon
      <4>2. QED
        BY <2>1, <4>1
    <3>4. PICK t \in [1 .. k -> T] : Increasing(t, k)
      BY <1>2, <3>3, Zenon
    <3> DEFINE s == [i \in 1 .. k + 1 |-> IF i = 1 THEN x ELSE t[i - 1]]
    <3>5. s \in [1 .. k + 1 -> U]
      <4>1. ASSUME NEW i \in 1 .. k + 1, i # 1 PROVE t[i - 1] \in U
        <5>1. i - 1 \in 1 .. k
          BY <4>1
        <5>2. QED
          BY <5>1
      <4>2. QED
        BY <4>1
    <3>6. ASSUME NEW a \in 1 .. k + 1, NEW b \in 1 .. k + 1, a < b PROVE s[a] < s[b]
      <4>1. b - 1 \in 1 .. k /\ b # 1 /\ s[b] = t[b - 1]
        BY <3>6
      <4>2. t[b - 1] \in Nat /\ t[b - 1] # x /\ t[b - 1] \in U /\ x \in Nat
        BY <4>1, ZenonT(60)
      <4>3. CASE a = 1
        BY <3>2, <4>1, <4>2, <4>3
      <4>4. CASE a # 1
        <5>1. a - 1 \in 1 .. k /\ a - 1 < b - 1 /\ s[a] = t[a - 1]
          BY <3>6, <4>4
        <5>2. t[a - 1] < t[b - 1]
          BY <3>4, <4>1, <5>1 DEF Increasing
        <5>3. QED
          BY <4>1, <5>1, <5>2
      <4>5. QED
        BY <4>3, <4>4
    <3> HIDE DEF s
    <3>7. Increasing(s, k + 1)
      BY <3>6 DEF Increasing
    <3>8. QED
      BY <2>1, <3>5, <3>7, Zenon
  <2>2. QED
    BY <2>1
<1>3. Cardinality(S) \in Nat /\ Cardinality(S) \in N
  <2> HIDE DEF N
  <2>1. Nat \subseteq N
    BY <1>1, <1>2, NatSet
  <2>2. QED
    BY <2>1, FS_CardinalityType
<1>4. Sorts(S)
  BY <1>3
<1>5. QED
  BY <1>4, IncreasingIsOrder, Zenon

(* qsort leaves the ids in the order their set has. *)
LEMMA Sorted ==
  ASSUME NEW S \in SUBSET Id
  PROVE  /\ IsFiniteSet(S) /\ Cardinality(S) \in Nat
         /\ Ascending(S) \in Orders(S)
         /\ Increasing(Ascending(S), Cardinality(S))
         /\ Range(Ascending(S)) = S
<1>1. S \subseteq Nat /\ IsFiniteSet(S)
  BY IdAssumption, FS_Subset, Zenon
<1>2. \E s \in Orders(S) : Increasing(s, Cardinality(S))
  BY <1>1, SortExists, Zenon
<1>3. Ascending(S) = CHOOSE s \in Orders(S) : Increasing(s, Cardinality(S))
  BY DEF Ascending, Increasing
<1>4. Ascending(S) \in Orders(S) /\ Increasing(Ascending(S), Cardinality(S))
  BY <1>2, <1>3, Zenon
<1>5. QED
  BY <1>1, <1>4, OrdersCover, FS_CardinalityType

(* qsort promises no more than some order in which no id comes before a    *)
(* smaller one.  As no two backends have the same id, that is the one      *)
(* Canonical names: the model's choice is the only one the code has.       *)
THEOREM SortedOnce ==
  ASSUME NEW S \in SUBSET Id, NEW s \in Orders(S),
         \A a, b \in 1 .. Cardinality(S) : a < b => s[a] <= s[b]
  PROVE  s = Ascending(S)
<1> DEFINE t == Ascending(S)
<1>1. PICK k \in Nat : k = Cardinality(S)
  BY Sorted, Zenon
<1>2. /\ S \subseteq Nat /\ s \in [1 .. k -> S] /\ t \in [1 .. k -> S]
      /\ \A a, b \in 1 .. k : s[a] = s[b] => a = b
  BY <1>1, Sorted, IdAssumption, Zenon DEF Orders, IsInjective
<1>3. \A a, b \in 1 .. k : a < b => s[a] <= s[b] /\ t[a] < t[b]
  BY <1>1, Sorted, Zenon DEF Increasing
<1>4. \A a \in 1 .. k : (\E b \in 1 .. k : s[a] = t[b]) /\ (\E b \in 1 .. k : t[a] = s[b])
  <2>1. Range(t) = S /\ Range(s) = S
    BY Sorted, OrdersCover, Zenon
  <2> HIDE DEF t
  <2>2. \A x \in S : (\E b \in 1 .. k : x = t[b]) /\ (\E b \in 1 .. k : x = s[b])
    BY <1>2, <2>1, Zenon DEF Range
  <2>3. QED
    BY <1>2, <2>2, Zenon
<1> HIDE DEF t
<1>5. SUFFICES ASSUME {a \in 1 .. k : s[a] # t[a]} # {} PROVE FALSE
  <2>1. SUFFICES \A a \in 1 .. k : s[a] = t[a]
    <3>1. s = t
      BY <1>2
    <3>2. QED
      BY <3>1, Zenon DEF t
  <2>2. QED
    BY <1>5, Zenon
<1>6. PICK a \in 1 .. k : s[a] # t[a] /\ \A b \in 1 .. k : s[b] # t[b] => a <= b
  <2>1. {b \in 1 .. k : s[b] # t[b]} \subseteq Nat
    OBVIOUS
  <2>2. QED
    BY <1>5, <2>1, LeastNatural, Zenon
<1>7. \A b \in 1 .. k : b < a => s[b] = t[b]
  BY <1>6
<1>8. PICK c \in 1 .. k : s[a] = t[c]
  BY <1>4, Zenon
<1>9. PICK d \in 1 .. k : t[a] = s[d]
  BY <1>4, Zenon
<1>10. \A b \in 1 .. k : s[b] \in Nat /\ t[b] \in Nat
  BY <1>2, Zenon
<1>11. c > a
  <2>1. c # a
    BY <1>6, <1>8, Zenon
  <2>2. ~(c < a)
    BY <1>2, <1>7, <1>8, <2>1, Zenon
  <2>3. QED
    BY <2>1, <2>2
<1>12. d > a
  <2>1. d # a
    BY <1>6, <1>9, Zenon
  <2>2. ASSUME d < a PROVE FALSE
    <3>1. t[d] < t[a] /\ t[d] = s[d]
      BY <1>3, <1>7, <2>2, Zenon
    <3>2. QED
      BY <1>9, <1>10, <3>1
  <2>3. QED
    BY <2>1, <2>2
<1>13. t[a] < t[c] /\ s[a] <= s[d]
  BY <1>3, <1>11, <1>12
<1>14. QED
  BY <1>8, <1>9, <1>10, <1>13

-----------------------------------------------------------------------------
(* The reference *)

(* What Populated computes, turn by turn. *)
LEMMA PopulatedTurns ==
  ASSUME NEW order, NEW prefs, NEW size \in Nat, Len(order) \in Nat \ {0},
         \A i \in 1 .. Len(order) : order[i] \in Int
  PROVE  /\ Populated(order, prefs, size, 0) = [c \in 0 .. size - 1 |-> -1]
         /\ \A t \in Nat : Populated(order, prefs, size, t + 1) =
                             TakeTurn(order, prefs, t + 1, Populated(order, prefs, size, t))
<1> DEFINE V == [0 .. size - 1 -> Int]
           Turned(t, table) == TakeTurn(order, prefs, t, table)
           empty == [c \in 0 .. size - 1 |-> -1]
           step == [w \in Nat \X V |-> Turned(w[1] + 1, w[2])]
           Def(h) == [t \in Nat |-> IF t = 0 THEN empty ELSE Turned(t, h[t - 1])]
<1>1. ASSUME NEW t \in Nat, NEW v \in V PROVE Turned(t + 1, v) \in V
  <2>1. ((t + 1) - 1) % Len(order) \in 0 .. Len(order) - 1
    <3>1. (t + 1) - 1 \in Int
      OBVIOUS
    <3>2. QED
      BY <3>1, Euclid, Zenon
  <2>2. ((t + 1 - 1) % Len(order)) + 1 \in 1 .. Len(order)
    BY <2>1
  <2>3. PICK id \in Int : id = order[((t + 1 - 1) % Len(order)) + 1]
    BY <2>2
  <2>4. Turned(t + 1, v) = [v EXCEPT ![FirstFree(prefs[id], v)] = id]
    BY <2>3 DEF TakeTurn
  <2>5. QED
    BY <2>4, ZenonT(60)
<1>2. empty \in V
  OBVIOUS
<1> HIDE DEF V, Turned, empty
<1>3. Steps(V, empty, step)
  <2>1. step \in [Nat \X V -> V]
    BY <1>1
  <2>2. QED
    BY <1>2, <2>1, Zenon DEF Steps
<1>4. PICK g : Iterates(g, V, empty, step)
  <2> HIDE DEF step
  <2>1. QED
    BY <1>3, NatIteration, Zenon
<1>5. g \in [Nat -> V] /\ g[0] = empty /\ \A t \in Nat : g[t + 1] = step[<<t, g[t]>>]
  BY <1>4, Zenon DEF Iterates
<1>6. ASSUME NEW t \in Nat PROVE g[t + 1] = Turned(t + 1, g[t])
  <2>1. g[t] \in V
    BY <1>5
  <2>2. QED
    BY <1>5, <2>1, ZenonT(60)
<1>8. g = Def(g)
  <2>1. ASSUME NEW t \in Nat PROVE g[t] = IF t = 0 THEN empty ELSE Turned(t, g[t - 1])
    <3>1. CASE t = 0
      BY <1>5, <3>1
    <3>2. CASE t # 0
      <4>1. t - 1 \in Nat /\ (t - 1) + 1 = t
        BY <3>2
      <4>2. QED
        BY <1>6, <3>2, <4>1
    <3>3. QED
      BY <3>1, <3>2
  <2>2. g = [t \in Nat |-> g[t]]
    BY <1>5
  <2>3. QED
    BY <2>1, <2>2, Zenon
<1> DEFINE p == CHOOSE h : h = Def(h)
<1>9. p = Def(p)
  <2> HIDE DEF Def
  <2>1. QED
    BY <1>8, Zenon
<1>10. \A t \in Nat : Populated(order, prefs, size, t) = p[t]
  BY DEF Populated, Turned, empty
<1> HIDE DEF p
<1>11. p[0] = empty /\ \A t \in Nat : p[t + 1] = Turned(t + 1, p[t])
  <2>1. p[0] = Def(p)[0] /\ \A t \in Nat : p[t + 1] = Def(p)[t + 1]
    BY <1>9, Zenon
  <2>2. ASSUME NEW t \in Nat PROVE p[t + 1] = Turned(t + 1, p[t])
    <3>1. t + 1 \in Nat /\ t + 1 # 0 /\ (t + 1) - 1 = t
      OBVIOUS
    <3>2. QED
      BY <2>1, <3>1, Zenon
  <2>3. p[0] = empty
    BY <2>1
  <2>4. QED
    BY <2>2, <2>3
<1>12. QED
  <2>1. Populated(order, prefs, size, 0) = empty
    BY <1>10, <1>11, ZenonT(60)
  <2>2. ASSUME NEW t \in Nat
        PROVE  Populated(order, prefs, size, t + 1) =
                 Turned(t + 1, Populated(order, prefs, size, t))
    <3>1. t + 1 \in Nat
      OBVIOUS
    <3>2. QED
      BY <1>10, <1>11, <3>1, Zenon
  <2>3. QED
    BY <2>1, <2>2, Zenon DEF Turned, empty

-----------------------------------------------------------------------------
(* The inductive invariant *)

(* What is fixed before the loop. *)
Fixed ==
  /\ Prime(m)
  /\ n \in Nat
  /\ sorted \in [1 .. n -> Id] /\ IsInjective(sorted)
  /\ sorted = Ascending(Range(sorted))
  /\ offset \in [Range(sorted) -> Slot]
  /\ skip \in [Range(sorted) -> 1 .. m - 1]

Taken == {c \in Slot : lookup[c] # -1}

(* The first k preferences of b are taken. *)
Tried(b, k) == \A l \in 0 .. k - 1 : lookup[Preference(b, l)] # -1

(* What a backend has passed over, in earlier turns and in this one, is    *)
(* taken, and stays so.                                                    *)
PassedInv ==
  /\ \A b \in Range(sorted) : Tried(b, next[b])
  /\ ~Done => Tried(Turn, j)

(* Every turn takes one slot, and the turns go round. *)
CountInv == n > 0 => Cardinality(Taken) = round_robin

ShareInv == n > 0 => \A i \in 1 .. n : Share(sorted[i]) = (round_robin + n - i) \div n

(* The table is what the reference has after as many turns. *)
PrefsOf(S, off, sk, size) ==
  [b \in S |-> [k \in 0 .. size - 1 |-> (off[b] + k * sk[b]) % size]]

ReferenceInv ==
  n > 0 => lookup = Populated(sorted, PrefsOf(Range(sorted), offset, skip, m), m, round_robin)

Inv == TypeOK /\ Fixed /\ PassedInv /\ CountInv /\ ShareInv /\ ReferenceInv

(* Arithmetic of the turns: turn t + 1 is the one of place t % k + 1, and  *)
(* after t turns place i has had (t + k - i) \div k of them.               *)
LEMMA TurnCount ==
  ASSUME NEW k \in Nat \ {0}, NEW t \in Nat, NEW i \in 1 .. k
  PROVE  /\ (t + k - i) \div k \in Nat
         /\ i = (t % k) + 1 => (t + 1 + k - i) \div k = ((t + k - i) \div k) + 1
         /\ i # (t % k) + 1 => (t + 1 + k - i) \div k = (t + k - i) \div k
<1>1. PICK q \in Int, r \in 0 .. k - 1 : t = k * q + r /\ r = t % k /\ q = t \div k
  <2>1. t \in Int
    OBVIOUS
  <2>2. QED
    BY <2>1, Euclid, Zenon
<1>2. q \in Nat
  <2>1. SUFFICES ASSUME q <= -1 PROVE FALSE
    OBVIOUS
  <2>2. k * q <= -k
    BY <2>1
  <2>3. QED
    BY <1>1, <2>2
<1> DEFINE a == t + k - i
           b == t + 1 + k - i
<1>3. PICK z \in Int : z = k * q /\ k * (q + 1) = z + k
  BY <1>2
<1>4. a \in Int /\ b \in Int /\ q + 1 \in Int
  BY <1>2
<1>9. t = z + r
  BY <1>1, <1>3
<1>10. ASSUME NEW x \in Int, NEW y \in 0 .. k - 1
       PROVE  /\ x = z + y => x \div k = q
              /\ x = (z + k) + y => x \div k = q + 1
  <2>1. (x = z + y => x = k * q + y) /\ (x = (z + k) + y => x = k * (q + 1) + y)
    BY <1>3, Zenon
  <2>2. x = k * q + y => x \div k = q
    BY Remainder, Zenon
  <2>3. x = k * (q + 1) + y => x \div k = q + 1
    BY <1>4, Remainder, Zenon
  <2>4. QED
    BY <2>1, <2>2, <2>3, Zenon
<1>5. CASE i <= r
  <2>1. a = (z + k) + (r - i) /\ r - i \in 0 .. k - 1
    BY <1>5, <1>9
  <2>2. b = (z + k) + (r + 1 - i) /\ r + 1 - i \in 0 .. k - 1
    BY <1>5, <1>9
  <2> HIDE DEF a, b
  <2>3. a \div k = q + 1 /\ b \div k = q + 1
    BY <1>4, <1>10, <2>1, <2>2, Zenon
  <2>4. QED
    BY <1>1, <1>2, <1>5, <2>3 DEF a, b
<1>6. CASE i = r + 1
  <2>1. a = z + (k - 1) /\ k - 1 \in 0 .. k - 1
    BY <1>6, <1>9
  <2>2. b = (z + k) + 0 /\ 0 \in 0 .. k - 1
    BY <1>6, <1>9
  <2> HIDE DEF a, b
  <2>3. a \div k = q /\ b \div k = q + 1
    BY <1>4, <1>10, <2>1, <2>2, Zenon
  <2>4. QED
    BY <1>1, <1>2, <1>6, <2>3, ZenonT(60) DEF a, b
<1>7. CASE i > r + 1
  <2>1. a = z + (r + k - i) /\ r + k - i \in 0 .. k - 1
    BY <1>7, <1>9
  <2>2. b = z + (r + 1 + k - i) /\ r + 1 + k - i \in 0 .. k - 1
    BY <1>7, <1>9
  <2> HIDE DEF a, b
  <2>3. a \div k = q /\ b \div k = q
    BY <1>4, <1>10, <2>1, <2>2, Zenon
  <2>4. QED
    BY <1>1, <1>2, <1>7, <2>3 DEF a, b
<1>8. QED
  BY <1>1, <1>5, <1>6, <1>7

LEMMA TurnsEven ==
  ASSUME NEW k \in Nat \ {0}, NEW t \in Nat, NEW i \in 1 .. k, NEW l \in 1 .. k
  PROVE  (t + k - i) \div k <= ((t + k - l) \div k) + 1
<1> DEFINE a == t + k - i
           b == t + k - l
<1>1. a \in Int /\ b \in Int /\ a <= b + (k - 1)
  OBVIOUS
<1> HIDE DEF a, b
<1>2. PICK x \in Int, r \in 0 .. k - 1 : a = k * x + r /\ x = a \div k
  BY <1>1, Euclid
<1>3. PICK y \in Int, s \in 0 .. k - 1 : b = k * y + s /\ y = b \div k
  BY <1>1, Euclid
<1>4. x <= y + 1
  <2>1. SUFFICES ASSUME x >= y + 2 PROVE FALSE
    BY <1>2, <1>3
  <2>2. k * x >= k * (y + 2)
    BY <1>2, <1>3, <2>1
  <2>3. k * (y + 2) = k * y + 2 * k
    BY <1>3
  <2>4. k * x \in Int /\ k * y \in Int
    BY <1>2, <1>3
  <2>5. QED
    BY <1>1, <1>2, <1>3, <2>2, <2>3, <2>4
<1>5. QED
  BY <1>2, <1>3, <1>4 DEF a, b

LEMMA FunctionLen ==
  ASSUME NEW k \in Nat, NEW S, NEW s \in [1 .. k -> S]
  PROVE  Len(s) = k
  OBVIOUS

(* A number below one of 32 bits has no more. *)
LEMMA Uint32Below ==
  ASSUME NEW a \in Nat, NEW b \in Nat, b <= a, IsUint32(a)
  PROVE  IsUint32(b)
<1>1. HalfWord \in Nat \ {0}
  BY DEF HalfWord
<1>2. a \div HalfWord < HalfWord
  BY DEF IsUint32
<1>3. PICK h \in Nat \ {0} : h = HalfWord
  BY <1>1
<1> a \in Int /\ b \in Int
  OBVIOUS
<1>4. PICK x \in Int, r \in 0 .. h - 1 : a = h * x + r /\ x = a \div h
  BY Euclid, Zenon
<1>5. PICK y \in Int, s \in 0 .. h - 1 : b = h * y + s /\ y = b \div h
  BY Euclid, ZenonT(60)
<1>6. y <= x
  <2>1. SUFFICES ASSUME y >= x + 1 PROVE FALSE
    OBVIOUS
  <2>2. h * y >= h * (x + 1)
    BY <2>1
  <2>3. h * (x + 1) = h * x + h
    OBVIOUS
  <2>4. h * x \in Int /\ h * y \in Int
    OBVIOUS
  <2>5. QED
    BY <1>4, <1>5, <2>2, <2>3, <2>4
<1>7. b \div HalfWord < HalfWord
  BY <1>2, <1>3, <1>4, <1>5, <1>6
<1>8. QED
  BY <1>7, Zenon DEF IsUint32

(* maglev_table_generate up to its loop, for a size main has accepted. *)
LEMMA InitInv ==
  ASSUME Init
  PROVE  Inv
<1>0. PICK S \in SUBSET Id : \E input \in Orders(S) :
        sorted = Canonical(input) /\ m \in Sizes(Cardinality(S))
  BY Zenon DEF Init
<1>1. PICK input \in Orders(S) : sorted = Canonical(input) /\ m \in Sizes(Cardinality(S))
  BY <1>0
<1> DEFINE k == Cardinality(S)
<1>2. /\ IsFiniteSet(S) /\ k \in Nat
      /\ Ascending(S) \in Orders(S) /\ Range(Ascending(S)) = S
  BY Sorted, Zenon
<1>3. sorted = Ascending(S) /\ Range(sorted) = S
  <2>1. Range(input) = S
    BY <1>2, OrdersCover, Zenon
  <2>2. QED
    BY <1>1, <1>2, <2>1, Zenon DEF Canonical
<1>4. sorted \in [1 .. k -> S] /\ IsInjective(sorted)
  BY <1>2, <1>3, Zenon DEF Orders
<1>5. n = k
  BY <1>2, <1>4, FunctionLen DEF n
<1>6. Prime(m)
  <2>1. k \in 0 .. Cardinality(Id)
    <3>1. k <= Cardinality(Id) /\ Cardinality(Id) \in Nat
      BY IdAssumption, FS_Subset, FS_CardinalityType, Zenon
    <3> HIDE DEF k
    <3>2. QED
      BY <1>2, <3>1
  <2>2. IsUint32(MaxSize[k + 1])
    BY <2>1, MaxSizeAssumption, Zenon
  <2>3. m \in 0 .. MaxSize[k + 1] /\ maglev_is_prime(m)
    BY <1>1, Zenon DEF Sizes
  <2>4. MaxSize[k + 1] \in Nat
    BY <2>2, Zenon DEF IsUint32
  <2>5. m \in Nat /\ m <= MaxSize[k + 1]
    BY <2>3, <2>4
  <2>6. IsUint32(m)
    BY <2>2, <2>4, <2>5, Uint32Below, Zenon
  <2>7. m >= 2
    BY <2>3 DEF maglev_is_prime
  <2>8. \A d \in 2 .. m - 1 : m % d # 0
    BY <2>3, <2>5, <2>6, PrimeHasNoDivisor, Zenon
  <2>9. QED
    BY <2>5, <2>7, <2>8, Zenon DEF Prime
<1>7. /\ offset \in [Range(sorted) -> Slot] /\ skip \in [Range(sorted) -> 1 .. m - 1]
      /\ lookup = [c \in Slot |-> -1] /\ next = [b \in Range(sorted) |-> 0]
      /\ round_robin = 0 /\ j = 0
  BY Zenon DEF Init
<1> HIDE DEF k
<1>8. m \in Nat /\ m >= 2
  BY <1>6, Zenon DEF Prime
<1>9. Fixed
  <2>1. sorted \in [1 .. n -> Id]
    BY <1>4, <1>5
  <2>2. sorted = Ascending(Range(sorted))
    BY <1>3, Zenon
  <2>3. QED
    BY <1>2, <1>4, <1>5, <1>6, <1>7, <2>1, <2>2, Zenon DEF Fixed
<1>10. TypeOK
  BY <1>7, <1>8 DEF TypeOK
<1>11. PassedInv
  <2>1. ASSUME NEW b PROVE Tried(b, 0)
    BY DEF Tried
  <2>2. QED
    BY <1>7, <2>1 DEF PassedInv
<1>12. CountInv
  <2>1. Taken = {}
    BY <1>7 DEF Taken
  <2>2. QED
    BY <1>7, <2>1, FS_EmptySet DEF CountInv
<1>13. ShareInv
  <2> SUFFICES ASSUME n > 0, NEW i \in 1 .. n
               PROVE  Share(sorted[i]) = (round_robin + n - i) \div n
    BY DEF ShareInv
  <2>1. sorted[i] \in Id /\ n \in Nat
    BY <1>9 DEF Fixed
  <2>2. {c \in Slot : lookup[c] = sorted[i]} = {}
    <3>1. sorted[i] # -1
      BY <2>1, IdAssumption
    <3>2. QED
      BY <1>7, <3>1
  <2>3. Share(sorted[i]) = 0
    BY <2>2, FS_EmptySet DEF Share
  <2>4. (round_robin + n - i) \div n = 0
    <3>1. PICK a \in Int : a = round_robin + n - i
      BY <1>7, <2>1
    <3>2. a = n * 0 + a /\ a \in 0 .. n - 1 /\ n \in Nat \ {0} /\ 0 \in Int
      BY <1>7, <2>1, <3>1
    <3>3. a \div n = 0
      BY <3>2, Remainder, Zenon
    <3>4. QED
      BY <3>1, <3>3
  <2>5. QED
    BY <2>3, <2>4
<1>14. ReferenceInv
  <2> SUFFICES ASSUME n > 0
               PROVE  lookup = Populated(sorted, PrefsOf(Range(sorted), offset, skip, m), m, 0)
    BY <1>7 DEF ReferenceInv
  <2>1. Len(sorted) \in Nat \ {0}
    BY <1>2, <1>5 DEF n
  <2>2. \A i \in 1 .. Len(sorted) : sorted[i] \in Int
    <3>1. sorted \in [1 .. n -> Id]
      BY <1>9, Zenon DEF Fixed
    <3>3. Id \subseteq Nat /\ Nat \subseteq Int
      BY IdAssumption
    <3>4. \A i \in 1 .. n : sorted[i] \in Int
      BY <3>1, <3>3, Zenon
    <3>2. QED
      BY <3>4, Zenon DEF n
  <2>3. Populated(sorted, PrefsOf(Range(sorted), offset, skip, m), m, 0) = [c \in 0 .. m - 1 |-> -1]
    BY <1>8, <2>1, <2>2, PopulatedTurns, Zenon
  <2>4. QED
    BY <1>7, <2>3 DEF Slot
<1>15. QED
  BY <1>9, <1>10, <1>11, <1>12, <1>13, <1>14, Zenon DEF Inv

(* In the loop there is a backend, and it is its turn. *)
LEMMA InTurn ==
  ASSUME Inv, ~Done
  PROVE  /\ m \in Nat /\ m >= 2 /\ n \in Nat \ {0}
         /\ round_robin \in Nat /\ round_robin < m /\ j \in Nat
         /\ (round_robin % n) + 1 \in 1 .. n
         /\ Turn \in Range(sorted) /\ Turn \in Id
<1>1. n \in Nat \ {0} /\ round_robin # m /\ m \in Nat /\ m >= 2
  BY DEF Inv, Fixed, Done, Prime
<1>2. round_robin \in 0 .. m /\ j \in 0 .. m /\ sorted \in [1 .. n -> Id]
  BY Zenon DEF Inv, TypeOK, Fixed
<1>3. round_robin \in Int
  BY <1>1, <1>2
<1>4. round_robin % n \in 0 .. n - 1
  BY <1>1, <1>3, Euclid, Zenon
<1>5. (round_robin % n) + 1 \in 1 .. n
  BY <1>1, <1>4
<1>6. Turn \in Range(sorted) /\ Turn \in Id
  BY <1>2, <1>5, Zenon DEF Turn, Range
<1>7. QED
  BY <1>1, <1>2, <1>5, <1>6

(* The preferences of a backend are slots. *)
LEMMA PreferenceSlot ==
  ASSUME Fixed, NEW b \in Range(sorted), NEW k \in Nat
  PROVE  Preference(b, k) \in Slot
<1>1. m \in Nat \ {0} /\ offset[b] \in 0 .. m - 1 /\ skip[b] \in 1 .. m - 1
  BY DEF Fixed, Prime, Slot
<1>2. offset[b] + k * skip[b] \in Int
  BY <1>1
<1>3. QED
  BY <1>1, <1>2, Euclid, Zenon DEF Preference, Slot

(* While a slot is free, no backend has tried its whole list: the list has *)
(* every slot on it.                                                       *)
LEMMA WithinList ==
  ASSUME Inv, ~Done, NEW b \in Range(sorted), NEW k \in Nat, Tried(b, k)
  PROVE  k <= m - 1
<1>1. m \in Nat /\ round_robin \in Nat /\ round_robin < m /\ n > 0
  BY InTurn
<1>2. IsFiniteSet(Slot) /\ Cardinality(Slot) = m
  BY SMTT(60), <1>1, FS_Interval DEF Slot
<1>3. Taken # Slot
  <2>1. Cardinality(Taken) = round_robin
    BY <1>1 DEF Inv, CountInv
  <2>2. QED
    BY <1>1, <1>2, <2>1
<1>4. PICK c \in Slot : lookup[c] = -1
  BY <1>3 DEF Taken
<1>5. Prime(m) /\ offset[b] \in 0 .. m - 1 /\ skip[b] \in 1 .. m - 1 /\ c \in 0 .. m - 1
  BY DEF Inv, Fixed, Slot
<1>6. PICK l \in 0 .. m - 1 : (offset[b] + l * skip[b]) % m = c
  BY <1>5, FullCycle, Zenon
<1>7. lookup[Preference(b, l)] = -1
  BY <1>4, <1>6, Zenon DEF Preference
<1>8. ~(l \in 0 .. k - 1)
  BY <1>7, Zenon DEF Tried
<1>9. QED
  BY <1>1, <1>8

LEMMA SkipInv ==
  ASSUME Inv, Skip
  PROVE  Inv'
<1>1. /\ ~Done /\ lookup[Preference(Turn, j)] # -1 /\ j' = j + 1
      /\ UNCHANGED <<m, sorted, offset, skip, lookup, next, round_robin>>
  BY Zenon DEF Skip
<1>2. m \in Nat /\ j \in Nat /\ Turn \in Range(sorted)
  BY <1>1, InTurn
<1>3. Tried(Turn, j)
  BY <1>1, Zenon DEF Inv, PassedInv
<1>4. Tried(Turn, j + 1)
  <2>1. \A l \in 0 .. (j + 1) - 1 : l \in 0 .. j - 1 \/ l = j
    BY <1>2
  <2>2. QED
    BY <1>1, <1>3, <2>1, Zenon DEF Tried
<1>5. j + 1 \in 0 .. m
  <2>1. j + 1 \in Nat
    BY <1>2
  <2>2. j + 1 <= m - 1
    BY <1>1, <1>2, <1>4, <2>1, WithinList
  <2>3. QED
    BY <1>2, <2>1, <2>2
<1>6. n' = n /\ Slot' = Slot /\ Turn' = Turn /\ (Done' <=> Done) /\ Taken' = Taken
  BY <1>1 DEF n, Slot, Turn, Done, Taken
<1>7. \A b, k : Preference(b, k)' = Preference(b, k) /\ (Tried(b, k)' <=> Tried(b, k))
  BY <1>1 DEF Preference, Tried
<1>8. \A b : Share(b)' = Share(b)
  BY <1>1, <1>6 DEF Share
<1>9. TypeOK'
  BY <1>1, <1>5, <1>6 DEF Inv, TypeOK
<1>10. Fixed'
  BY <1>1, <1>6 DEF Inv, Fixed
<1>11. PassedInv'
  BY <1>1, <1>4, <1>6, <1>7, Zenon DEF Inv, PassedInv
<1>12. CountInv'
  BY <1>1, <1>6 DEF Inv, CountInv
<1>13. ShareInv'
  BY <1>1, <1>6, <1>8 DEF Inv, ShareInv
<1>14. ReferenceInv'
  BY <1>1, <1>6 DEF Inv, ReferenceInv
<1>15. QED
  BY <1>9, <1>10, <1>11, <1>12, <1>13, <1>14, Zenon DEF Inv

(* The place the turn stops at is the first free one of the whole list. *)
LEMMA FirstFreeHere ==
  ASSUME Inv, ~Done, lookup[Preference(Turn, j)] = -1
  PROVE  FirstFree(PrefsOf(Range(sorted), offset, skip, m)[Turn], lookup) = Preference(Turn, j)
<1> DEFINE pref == [k \in 0 .. m - 1 |-> (offset[Turn] + k * skip[Turn]) % m]
           First(k) == lookup[pref[k]] = -1 /\ \A l \in 0 .. k - 1 : lookup[pref[l]] # -1
<1>1. m \in Nat /\ j \in Nat /\ Turn \in Range(sorted) /\ Tried(Turn, j)
  BY InTurn, Zenon DEF Inv, PassedInv
<1>2. j \in 0 .. m - 1
  BY <1>1, WithinList
<1>3. PrefsOf(Range(sorted), offset, skip, m)[Turn] = pref
  BY <1>1, Zenon DEF PrefsOf
<1>4. DOMAIN pref = 0 .. m - 1 /\ \A k \in 0 .. m - 1 : pref[k] = Preference(Turn, k)
  BY Zenon DEF Preference
<1> HIDE DEF pref
<1>5. First(j)
  <2>1. \A l \in 0 .. j - 1 : l \in 0 .. m - 1
    BY <1>1, <1>2
  <2>2. QED
    BY <1>1, <1>2, <1>4, <2>1, Zenon DEF Tried
<1>6. ASSUME NEW k \in 0 .. m - 1, First(k) PROVE k = j
  <2>1. ~(k \in 0 .. j - 1) /\ ~(j \in 0 .. k - 1)
    BY <1>5, <1>6, Zenon
  <2>2. QED
    BY <1>1, <1>2, <2>1
<1> HIDE DEF First
<1>7. (CHOOSE k \in 0 .. m - 1 : First(k)) = j
  BY <1>2, <1>5, <1>6, Zenon
<1>8. FirstFree(pref, lookup) = pref[CHOOSE k \in 0 .. m - 1 : First(k)]
  BY <1>4, Zenon DEF FirstFree, First
<1>9. QED
  BY <1>2, <1>3, <1>4, <1>7, <1>8, Zenon

LEMMA ClaimInv ==
  ASSUME Inv, Claim
  PROVE  Inv'
<1> DEFINE w == Turn
           c == Preference(Turn, j)
           q == sorted[((round_robin + 1) % n) + 1]
<1>1. /\ ~Done /\ lookup[c] = -1
      /\ lookup' = [lookup EXCEPT ![c] = w] /\ next' = [next EXCEPT ![w] = j + 1]
      /\ round_robin' = round_robin + 1 /\ j' = next'[q]
      /\ m' = m /\ sorted' = sorted /\ offset' = offset /\ skip' = skip
  BY Zenon DEF Claim
<1>2. /\ m \in Nat /\ n \in Nat \ {0} /\ j \in Nat
      /\ round_robin \in Nat /\ round_robin < m
      /\ (round_robin % n) + 1 \in 1 .. n
      /\ w \in Range(sorted) /\ w \in Id
  BY <1>1, InTurn
<1>3. Tried(w, j)
  BY <1>1, Zenon DEF Inv, PassedInv
<1>4. j <= m - 1
  BY <1>1, <1>2, <1>3, WithinList
<1>5. c \in Slot
  BY <1>2, PreferenceSlot DEF Inv
<1>6. n' = n /\ Slot' = Slot
  BY <1>1 DEF n, Slot
<1>7. \A b, k : Preference(b, k)' = Preference(b, k)
  BY <1>1 DEF Preference
<1>8. Turn' = q /\ q \in Range(sorted)
  <2>1. round_robin + 1 \in Int
    BY <1>2
  <2>2. (round_robin + 1) % n \in 0 .. n - 1
    BY <1>2, <2>1, Euclid, Zenon
  <2>3. ((round_robin + 1) % n) + 1 \in 1 .. n
    BY <1>2, <2>2
  <2>4. q \in Range(sorted)
    BY <2>3, Zenon DEF Inv, Fixed, Range
  <2>5. Turn' = q
    BY <1>1, <1>6 DEF Turn
  <2>6. QED
    BY <2>4, <2>5
<1>9. w # -1
  BY <1>2, IdAssumption
<1>10. lookup \in [Slot -> Range(sorted) \cup {-1}] /\ next \in [Range(sorted) -> 0 .. m]
  BY Zenon DEF Inv, TypeOK
<1> HIDE DEF w, c, q
<1>11. /\ lookup' \in [Slot -> Range(sorted) \cup {-1}]
       /\ lookup'[c] = w
       /\ \A d \in Slot : d # c => lookup'[d] = lookup[d]
  BY <1>1, <1>2, <1>5, <1>10
<1>12. /\ next' \in [Range(sorted) -> 0 .. m]
       /\ next'[w] = j + 1
       /\ \A b \in Range(sorted) : b # w => next'[b] = next[b]
  BY <1>1, <1>2, <1>4, <1>10
<1>13. TypeOK'
  BY <1>1, <1>2, <1>6, <1>8, <1>11, <1>12 DEF TypeOK
<1>14. Fixed'
  BY <1>1, <1>6 DEF Inv, Fixed
<1>15. PassedInv'
  <2> DEFINE After(b, k) == \A l \in 0 .. k - 1 : lookup'[Preference(b, l)] # -1
  <2>1. ASSUME NEW b \in Range(sorted), NEW k \in Nat, Tried(b, k)
        PROVE  After(b, k)
    <3>1. SUFFICES ASSUME NEW l \in 0 .. k - 1 PROVE lookup'[Preference(b, l)] # -1
      OBVIOUS
    <3>2. lookup[Preference(b, l)] # -1
      BY <2>1, Zenon DEF Tried
    <3>3. l \in Nat /\ Fixed
      BY DEF Inv
    <3>4. Preference(b, l) \in Slot
      BY <3>3, PreferenceSlot
    <3>5. QED
      BY <1>9, <1>11, <3>2, <3>4, Zenon
  <2>2. ASSUME NEW b \in Range(sorted) PROVE After(b, next'[b])
    <3>1. CASE b = w
      <4>1. After(w, j)
        BY <1>2, <1>3, <2>1, Zenon
      <4>2. \A l \in 0 .. (j + 1) - 1 : l \in 0 .. j - 1 \/ l = j
        BY <1>2
      <4>3. lookup'[Preference(w, j)] # -1
        BY <1>9, <1>11, Zenon DEF w, c
      <4>4. After(w, j + 1)
        BY <4>1, <4>2, <4>3, Zenon
      <4>5. QED
        BY <1>12, <3>1, <4>4, Zenon
    <3>2. CASE b # w
      <4>1. next[b] \in Nat /\ Tried(b, next[b])
        BY <1>10 DEF Inv, PassedInv
      <4>2. After(b, next[b])
        BY <2>1, <4>1, Zenon
      <4>3. QED
        BY <1>12, <3>2, <4>2, Zenon
    <3>3. QED
      BY <3>1, <3>2, Zenon
  <2>3. \A b \in Range(sorted) :
          \A l \in 0 .. next'[b] - 1 : lookup'[Preference(b, l)'] # -1
    BY <1>7, <2>2, Zenon
  <2>4. \A l \in 0 .. j' - 1 : lookup'[Preference(Turn, l)'] # -1
    <3>1. \A l \in 0 .. j' - 1 : lookup'[Preference(q, l)] # -1
      BY <1>1, <1>8, <2>2, Zenon
    <3>2. \A l : Preference(Turn, l)' = Preference(q, l)
      BY <1>1, <1>8, Zenon DEF Preference
    <3>3. QED
      BY <3>1, <3>2, Zenon
  <2>5. QED
    BY <1>1, <1>7, <1>8, <2>3, <2>4, Zenon DEF PassedInv, Tried
<1>16. CountInv'
  <2>1. Taken' = Taken \cup {c} /\ c \notin Taken /\ Taken \subseteq Slot
    BY <1>1, <1>5, <1>6, <1>9, <1>11 DEF Taken
  <2>2. IsFiniteSet(Taken)
    <3>1. IsFiniteSet(Slot)
      BY <1>2, FS_Interval DEF Slot
    <3>2. QED
      BY <2>1, <3>1, FS_Subset
  <2>3. Cardinality(Taken') = Cardinality(Taken) + 1
    BY <2>1, <2>2, FS_AddElement
  <2>4. QED
    BY <1>1, <1>2, <1>6, <2>3 DEF Inv, CountInv
<1>17. ShareInv'
  <2> SUFFICES ASSUME NEW i \in 1 .. n
               PROVE  Share(sorted[i])' = (round_robin + 1 + n - i) \div n
    BY <1>1, <1>6 DEF ShareInv
  <2> DEFINE b == sorted[i]
             Mine == {d \in Slot : lookup[d] = b}
  <2>1. b \in Id /\ b # -1
    BY IdAssumption DEF Inv, Fixed
  <2>2. b = w <=> i = (round_robin % n) + 1
    <3>1. sorted \in [1 .. n -> Id] /\ IsInjective(sorted)
      BY Zenon DEF Inv, Fixed
    <3>2. DOMAIN sorted = 1 .. n /\ w = sorted[(round_robin % n) + 1]
      BY <3>1, Zenon DEF w, Turn
    <3>3. QED
      BY <1>2, <3>1, <3>2, Zenon DEF IsInjective
  <2>3. Share(b) = (round_robin + n - i) \div n
    BY <1>2 DEF Inv, ShareInv
  <2>4. IsFiniteSet(Mine) /\ Cardinality(Mine) \in Nat
    <3>1. IsFiniteSet(Slot) /\ Mine \subseteq Slot
      BY <1>2, FS_Interval DEF Slot
    <3>2. QED
      BY <3>1, FS_Subset, FS_CardinalityType, Zenon
  <2>5. CASE b = w
    <3>1. {d \in Slot : lookup'[d] = b} = Mine \cup {c} /\ c \notin Mine
      BY <1>1, <1>5, <1>11, <2>1, <2>5
    <3>2. Cardinality({d \in Slot : lookup'[d] = b}) = Cardinality(Mine) + 1
      BY SMTT(60), <2>4, <3>1, FS_AddElement
    <3>3. (round_robin + 1 + n - i) \div n = ((round_robin + n - i) \div n) + 1
      BY <1>2, <2>2, <2>5, TurnCount, Zenon
    <3>4. QED
      BY <1>1, <1>6, <2>3, <3>2, <3>3 DEF Share
  <2>6. CASE b # w
    <3>1. {d \in Slot : lookup'[d] = b} = Mine
      BY <1>1, <1>5, <1>11, <2>1, <2>6
    <3>2. (round_robin + 1 + n - i) \div n = (round_robin + n - i) \div n
      BY <1>2, <2>2, <2>6, TurnCount, Zenon
    <3>3. QED
      BY <1>1, <1>6, <2>3, <3>1, <3>2, Zenon DEF Share
  <2>7. QED
    BY <2>5, <2>6
<1>18. ReferenceInv'
  <2> DEFINE prefs == PrefsOf(Range(sorted), offset, skip, m)
  <2>1. prefs' = prefs
    BY <1>1 DEF PrefsOf
  <2>2. lookup = Populated(sorted, prefs, m, round_robin)
    BY <1>2 DEF Inv, ReferenceInv
  <2>3. FirstFree(prefs[w], lookup) = c
    BY <1>1, FirstFreeHere, Zenon DEF w, c
  <2> HIDE DEF prefs
  <2>4. Len(sorted) \in Nat \ {0} /\ \A i \in 1 .. Len(sorted) : sorted[i] \in Int
    <3>1. sorted \in [1 .. n -> Id] /\ Id \subseteq Int
      BY IdAssumption DEF Inv, Fixed
    <3>2. \A i \in 1 .. n : sorted[i] \in Int
      BY <3>1, Zenon
    <3>3. QED
      BY <1>2, <3>2, Zenon DEF n
  <2>5. Populated(sorted, prefs, m, round_robin + 1) =
          TakeTurn(sorted, prefs, round_robin + 1, Populated(sorted, prefs, m, round_robin))
    <3>1. \A t \in Nat : Populated(sorted, prefs, m, t + 1) =
                        TakeTurn(sorted, prefs, t + 1, Populated(sorted, prefs, m, t))
      BY <1>2, <2>4, PopulatedTurns, ZenonT(60)
    <3>2. QED
      BY <1>2, <3>1, Zenon
  <2>6. sorted[(((round_robin + 1) - 1) % Len(sorted)) + 1] = w
    <3>1. (round_robin + 1) - 1 = round_robin
      BY <1>2
    <3>2. QED
      BY <3>1, Zenon DEF w, Turn, n
  <2>7. TakeTurn(sorted, prefs, round_robin + 1, lookup) = [lookup EXCEPT ![c] = w]
    BY <2>3, <2>6, Zenon DEF TakeTurn
  <2>8. lookup' = Populated(sorted, prefs, m, round_robin + 1)
    BY <1>1, <2>2, <2>5, <2>7, Zenon
  <2>9. QED
    BY <1>1, <1>6, <2>1, <2>8, Zenon DEF ReferenceInv, prefs
<1>19. QED
  BY <1>13, <1>14, <1>15, <1>16, <1>17, <1>18, Zenon DEF Inv

-----------------------------------------------------------------------------
(* What holds throughout *)

(* The loop of maglev_table_generate keeps the invariant: in particular no *)
(* backend ever tries a preference past the last of its list.              *)
THEOREM MaglevInvariant == Spec => []Inv
<1>1. ASSUME Inv, [Next]_vars PROVE Inv'
  <2>1. CASE UNCHANGED vars
    <3>1. /\ m' = m /\ sorted' = sorted /\ offset' = offset /\ skip' = skip
          /\ lookup' = lookup /\ next' = next /\ round_robin' = round_robin /\ j' = j
      BY <2>1 DEF vars
    <3>2. n' = n /\ Slot' = Slot /\ Turn' = Turn /\ (Done' <=> Done) /\ Taken' = Taken
      BY <3>1 DEF n, Slot, Turn, Done, Taken
    <3>3. TypeOK' /\ Fixed'
      BY <1>1, <3>1, <3>2, Zenon DEF Inv, TypeOK, Fixed
    <3>4. PassedInv'
      BY <1>1, <3>1, <3>2, Zenon DEF Inv, PassedInv, Tried, Preference
    <3>5. CountInv' /\ ShareInv' /\ ReferenceInv'
      BY <1>1, <3>1, <3>2, Zenon DEF Inv, CountInv, ShareInv, Share, ReferenceInv
    <3>6. QED
      BY <3>3, <3>4, <3>5, Zenon DEF Inv
  <2>2. CASE Skip
    BY <1>1, <2>2, SkipInv
  <2>3. CASE Claim
    BY <1>1, <2>3, ClaimInv
  <2>4. CASE Terminated
    BY <2>1, <2>4, Zenon DEF Terminated
  <2>5. QED
    BY <1>1, <2>1, <2>2, <2>3, <2>4, Zenon DEF Next
<1>2. QED
  BY <1>1, InitInv, PTL DEF Spec

(* The types the run checks, among them that the inner while loop of       *)
(* maglev_table.c stays within the list of m preferences.                  *)
THEOREM TypesKept == Spec => []TypeOK
<1>1. Inv => TypeOK
  BY Zenon DEF Inv
<1>2. QED
  BY <1>1, MaglevInvariant, PTL

(* At any time no backend has been given two slots more than another, for  *)
(* every prime size, every number of backends and whatever they hash to.   *)
THEOREM EvenShares == Spec => []Balanced
<1>1. ASSUME Inv PROVE Balanced
  <2>1. SUFFICES ASSUME NEW a \in Range(sorted), NEW b \in Range(sorted)
                 PROVE  Share(a) <= Share(b) + 1
    BY DEF Balanced
  <2>2. sorted \in [1 .. n -> Id] /\ n \in Nat /\ round_robin \in Nat
    BY <1>1 DEF Inv, Fixed, TypeOK
  <2>3. PICK i \in 1 .. n, l \in 1 .. n : a = sorted[i] /\ b = sorted[l]
    BY <2>2 DEF Range
  <2>4. n \in Nat \ {0} /\ n > 0
    BY <2>2, <2>3
  <2>5. Share(a) = (round_robin + n - i) \div n /\ Share(b) = (round_robin + n - l) \div n
    BY <1>1, <2>3, <2>4, Zenon DEF Inv, ShareInv
  <2>6. (round_robin + n - i) \div n <= ((round_robin + n - l) \div n) + 1
    BY <2>2, <2>4, TurnsEven, Zenon
  <2>7. QED
    BY <2>5, <2>6, Zenon
<1>2. QED
  BY <1>1, MaglevInvariant, PTL

(* The finished table is the one the set of backends determines, turn by   *)
(* turn in the order of the ids, whatever order the caller enumerated them *)
(* in (maglev_table.c:55-62).                                              *)
THEOREM Determined == Spec => []FinishedIsReference
<1>1. ASSUME Inv PROVE FinishedIsReference
  <2>1. SUFFICES ASSUME Done, n > 0 PROVE lookup = Reference
    BY Zenon DEF FinishedIsReference
  <2>2. round_robin = m /\ sorted = Ascending(Range(sorted))
    BY <1>1, <2>1 DEF Inv, Fixed, Done
  <2>3. PrefsOf(Range(sorted), offset, skip, m) =
          [b \in Range(sorted) |-> [k \in Slot |-> Preference(b, k)]]
    BY Zenon DEF PrefsOf, Slot, Preference
  <2>4. lookup = Populated(sorted, PrefsOf(Range(sorted), offset, skip, m), m, m)
    BY <1>1, <2>1, <2>2, Zenon DEF Inv, ReferenceInv
  <2>5. QED
    BY <2>2, <2>3, <2>4, Zenon DEF Reference
<1>2. QED
  BY <1>1, MaglevInvariant, PTL

(* Every slot of a finished table names a backend of the set it was        *)
(* generated for, and with no backends none names any: what the forwarding *)
(* path takes for granted when it indexes the table by a hash.             *)
TableFull ==
  Done => \A c \in Slot : IF n = 0 THEN lookup[c] = -1 ELSE lookup[c] \in Range(sorted)

THEOREM NoSlotLeft == Spec => []TableFull
<1>1. ASSUME Inv PROVE TableFull
  <2>1. SUFFICES ASSUME Done, NEW c \in Slot
                 PROVE  /\ n = 0 => lookup[c] = -1
                        /\ n # 0 => lookup[c] \in Range(sorted)
    BY Zenon DEF TableFull
  <2>2. m \in Nat /\ n \in Nat /\ lookup \in [Slot -> Range(sorted) \cup {-1}]
    BY <1>1, Zenon DEF Inv, TypeOK, Fixed
  <2>3. CASE n = 0
    <3>1. sorted \in [1 .. 0 -> Id]
      BY <1>1, <2>3 DEF Inv, Fixed
    <3>2. Range(sorted) = {}
      BY <3>1 DEF Range
    <3>3. QED
      BY <2>2, <2>3, <3>2
  <2>4. CASE n # 0
    <3>1. n > 0 /\ round_robin = m
      BY <2>1, <2>2, <2>4 DEF Done
    <3>2. Cardinality(Taken) = m /\ Taken \subseteq Slot
      BY <1>1, <3>1 DEF Inv, CountInv, Taken
    <3>3. IsFiniteSet(Slot) /\ Cardinality(Slot) = m
      BY <2>2, FS_Interval DEF Slot
    <3>4. Taken = Slot
      BY <3>2, <3>3, FS_Subset
    <3>5. QED
      BY <2>2, <2>4, <3>4 DEF Taken
  <2>5. QED
    BY <2>3, <2>4, Zenon
<1>2. QED
  BY <1>1, MaglevInvariant, PTL

(* How many preferences of a backend have been tried, in its current turn  *)
(* too                                                                     *)
TriedOf(b) == IF ~Done /\ b = Turn THEN j ELSE next[b]

(* The fill gets on: each of its steps tries one more preference of one    *)
(* backend and takes none back, and no backend tries more than m.          *)
FillAdvances ==
  /\ [](\A b \in Range(sorted) : TriedOf(b) \in 0 .. m)
  /\ [][/\ sorted' = sorted /\ m' = m
        /\ \E b \in Range(sorted) :
             /\ TriedOf(b)' = TriedOf(b) + 1
             /\ \A a \in Range(sorted) \ {b} : TriedOf(a)' = TriedOf(a)]_vars

(* The loop of maglev_table_generate cannot run for ever: of the m slots   *)
(* each of the n backends has m preferences to try, so there are at most   *)
(* n * m steps.  This is the safety half of FillEnds.                      *)
THEOREM FillGetsOn == Spec => FillAdvances
<1>1. ASSUME Inv PROVE \A b \in Range(sorted) : TriedOf(b) \in 0 .. m
  BY <1>1, Zenon DEF Inv, TypeOK, TriedOf
<1>2. ASSUME Inv, Next
      PROVE  [/\ sorted' = sorted /\ m' = m
              /\ \E b \in Range(sorted) :
                   /\ TriedOf(b)' = TriedOf(b) + 1
                   /\ \A a \in Range(sorted) \ {b} : TriedOf(a)' = TriedOf(a)]_vars
  <2>1. CASE Skip
    <3>1. /\ ~Done /\ sorted' = sorted /\ m' = m /\ next' = next
          /\ round_robin' = round_robin /\ j' = j + 1
      BY <2>1, Zenon DEF Skip
    <3>2. PICK b \in Range(sorted) : b = Turn
      BY <1>2, <3>1, InTurn, Zenon
    <3>3. Turn' = b /\ ~Done'
      BY <3>1, <3>2, Zenon DEF Turn, Done, n
    <3>4. TriedOf(b)' = TriedOf(b) + 1
      BY <3>1, <3>2, <3>3, Zenon DEF TriedOf
    <3>5. ASSUME NEW a \in Range(sorted) \ {b} PROVE TriedOf(a)' = TriedOf(a)
      BY <3>1, <3>2, <3>3, Zenon DEF TriedOf
    <3>6. QED
      BY <3>1, <3>4, <3>5, Zenon
  <2>2. CASE Claim
    <3>1. /\ ~Done /\ sorted' = sorted /\ m' = m
          /\ next' = [next EXCEPT ![Turn] = j + 1]
          /\ round_robin' = round_robin + 1
          /\ j' = next'[sorted[((round_robin + 1) % n) + 1]]
      BY <2>2, Zenon DEF Claim
    <3>2. PICK b \in Range(sorted) : b = Turn
      BY <1>2, <3>1, InTurn, Zenon
    <3>3. j' = next'[Turn']
      BY <3>1, Zenon DEF Turn, n
    <3>4. ASSUME NEW a PROVE TriedOf(a)' = next'[a]
      BY <3>3, Zenon DEF TriedOf
    <3>5. next \in [Range(sorted) -> 0 .. m] /\ next' = [next EXCEPT ![b] = j + 1]
      BY <1>2, <3>1, <3>2, Zenon DEF Inv, TypeOK
    <3>6. next'[b] = j + 1 /\ \A a \in Range(sorted) \ {b} : next'[a] = next[a]
      BY <3>5, Zenon
    <3>7. TriedOf(b)' = TriedOf(b) + 1
      BY <3>1, <3>2, <3>4, <3>6, Zenon DEF TriedOf
    <3>8. ASSUME NEW a \in Range(sorted) \ {b} PROVE TriedOf(a)' = TriedOf(a)
      BY <3>2, <3>4, <3>6, Zenon DEF TriedOf
    <3>9. QED
      BY <3>1, <3>7, <3>8, Zenon
  <2>3. CASE Terminated
    BY <2>3, Zenon DEF Terminated
  <2>4. QED
    BY <1>2, <2>1, <2>2, <2>3, Zenon DEF Next
<1>3. QED
  BY <1>1, <1>2, MaglevInvariant, PTL DEF Spec, FillAdvances
=============================================================================
