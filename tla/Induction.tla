----------------------------- MODULE Induction ------------------------------
(***************************************************************************)
(* Induction and recursion on the natural numbers, in a form that needs no *)
(* operator as a parameter.                                                *)
(***************************************************************************)
EXTENDS Integers, FiniteSetTheorems, TLAPS

(* A nonempty set of naturals has a least element. *)
LEMMA LeastNatural ==
  ASSUME NEW T, T \subseteq Nat, T # {}
  PROVE  \E x \in T : \A y \in T : x <= y
<1> DEFINE R == OpToRel(<, Nat)
<1>1. IsWellFoundedOn(R, Nat)
  BY NatLessThanWellFounded, Zenon
<1>2. \A x, y \in Nat : x < y => <<x, y>> \in R
  BY DEF OpToRel
<1> HIDE DEF R
<1>3. PICK x \in T : \A y \in T : ~(<<y, x>> \in R)
  BY <1>1, WFMin, Zenon
<1>4. ASSUME NEW y \in T PROVE x <= y
  <2>1. x \in Nat /\ y \in Nat /\ ~(y < x)
    BY <1>2, <1>3, Zenon
  <2>2. QED
    BY <2>1
<1>5. QED
  BY <1>4

(* Induction, with the property given as the set of numbers that have it: *)
(* no backend can instantiate an operator, every one can a set.           *)
LEMMA NatSet ==
  ASSUME NEW S, 0 \in S, \A n \in Nat : n \in S => n + 1 \in S
  PROVE  Nat \subseteq S
<1>1. SUFFICES ASSUME Nat \ S # {} PROVE FALSE
  OBVIOUS
<1>2. PICK x \in Nat \ S : \A y \in Nat \ S : x <= y
  BY <1>1, LeastNatural, Zenon
<1>3. x # 0 /\ x - 1 \in Nat
  BY <1>2
<1>4. x - 1 \in S
  BY <1>2, <1>3
<1>5. QED
  BY <1>2, <1>3, <1>4

(* A function on the naturals may be defined by its first value and by    *)
(* what becomes of each value at its place.                               *)
Steps(V, c, step) == c \in V /\ step \in [Nat \X V -> V]

Iterates(f, V, c, step) ==
  f \in [Nat -> V] /\ f[0] = c /\ \A n \in Nat : f[n + 1] = step[<<n, f[n]>>]

LEMMA NatIteration ==
  ASSUME NEW V, NEW c, NEW step, Steps(V, c, step)
  PROVE  \E f : Iterates(f, V, c, step)
<1> DEFINE Upto(n) == {f \in [0 .. n -> V] :
                         f[0] = c /\ \A i \in 0 .. n - 1 : f[i + 1] = step[<<i, f[i]>>]}
           Some == {n \in Nat : Upto(n) # {}}
           Same == {k \in Nat : \A m, n \in Nat : \A f \in Upto(m), g \in Upto(n) :
                      k <= m /\ k <= n => f[k] = g[k]}
           last == [n \in Nat |-> (CHOOSE f \in Upto(n) : TRUE)[n]]
<1> c \in V /\ step \in [Nat \X V -> V]
  BY DEF Steps
<1> HIDE DEF Upto, Some, Same, last
<1>1. Nat \subseteq Some
  <2>1. 0 \in Some
    <3>1. [i \in 0 .. 0 |-> c] \in Upto(0)
      BY DEF Upto
    <3>2. QED
      BY <3>1 DEF Some
  <2>2. ASSUME NEW n \in Nat, n \in Some PROVE n + 1 \in Some
    <3>1. PICK f \in Upto(n) : TRUE
      BY <2>2 DEF Some
    <3> DEFINE g == [i \in 0 .. n + 1 |-> IF i = n + 1 THEN step[<<n, f[n]>>] ELSE f[i]]
    <3>2. f \in [0 .. n -> V] /\ f[0] = c /\ \A i \in 0 .. n - 1 : f[i + 1] = step[<<i, f[i]>>]
      BY <3>1 DEF Upto
    <3>3. g \in [0 .. n + 1 -> V]
      BY <3>2
    <3>4. g[0] = c /\ \A i \in 0 .. (n + 1) - 1 : g[i + 1] = step[<<i, g[i]>>]
      <4>1. ASSUME NEW i \in 0 .. (n + 1) - 1 PROVE g[i + 1] = step[<<i, g[i]>>]
        <5>1. g[i] = f[i] /\ i + 1 \in 0 .. n + 1
          OBVIOUS
        <5>2. CASE i = n
          BY <5>1, <5>2, Zenon
        <5>3. CASE i # n
          <6>1. i \in 0 .. n - 1 /\ g[i + 1] = f[i + 1]
            BY <5>3
          <6> HIDE DEF g
          <6>2. QED
            BY <3>2, <5>1, <6>1
        <5>4. QED
          BY <5>2, <5>3
      <4>2. g[0] = c
        BY <3>2
      <4>3. QED
        BY <4>1, <4>2, Zenon
    <3> HIDE DEF g
    <3>5. g \in Upto(n + 1)
      BY <3>3, <3>4 DEF Upto
    <3>6. QED
      BY <3>5 DEF Some
  <2>3. QED
    BY <2>1, <2>2, NatSet
<1>2. Nat \subseteq Same
  <2>1. 0 \in Same
    BY DEF Same, Upto
  <2>2. ASSUME NEW k \in Nat, k \in Same PROVE k + 1 \in Same
    <3>1. ASSUME NEW m \in Nat, NEW n \in Nat, NEW f \in Upto(m), NEW g \in Upto(n),
                 k + 1 <= m, k + 1 <= n
          PROVE  f[k + 1] = g[k + 1]
      <4>1. f[k] = g[k]
        BY <2>2, <3>1 DEF Same
      <4>2. k \in 0 .. m - 1 /\ k \in 0 .. n - 1
        BY <3>1
      <4>3. f[k + 1] = step[<<k, f[k]>>] /\ g[k + 1] = step[<<k, g[k]>>]
        BY <4>2 DEF Upto
      <4>4. QED
        BY <4>1, <4>3
    <3>2. QED
      BY <3>1 DEF Same
  <2>3. QED
    BY <2>1, <2>2, NatSet
<1>3. ASSUME NEW n \in Nat
      PROVE  \E f \in Upto(n) : last[n] = f[n]
  BY <1>1, Zenon DEF Some, last
<1>4. last \in [Nat -> V]
  <2>1. ASSUME NEW n \in Nat PROVE last[n] \in V
    BY <1>3 DEF Upto
  <2>2. QED
    BY <2>1 DEF last
<1>5. last[0] = c
  BY <1>3 DEF Upto
<1>6. ASSUME NEW n \in Nat PROVE last[n + 1] = step[<<n, last[n]>>]
  <2>1. PICK f \in Upto(n) : last[n] = f[n]
    BY <1>3
  <2>2. PICK g \in Upto(n + 1) : last[n + 1] = g[n + 1]
    BY <1>3
  <2>3. n \in Same /\ n <= n /\ n <= n + 1 /\ n + 1 \in Nat
    BY <1>2
  <2>4. f[n] = g[n]
    BY <2>1, <2>2, <2>3 DEF Same
  <2>5. n \in 0 .. (n + 1) - 1
    OBVIOUS
  <2>6. g[n + 1] = step[<<n, g[n]>>]
    BY <2>2, <2>5 DEF Upto
  <2>7. QED
    BY <2>1, <2>2, <2>4, <2>6
<1>7. QED
  BY <1>4, <1>5, <1>6, Zenon DEF Iterates

(* The same when the place does not matter. *)
LEMMA NatRecursion ==
  ASSUME NEW V, NEW c \in V, NEW next \in [V -> V]
  PROVE  \E f \in [Nat -> V] : f[0] = c /\ \A n \in Nat : f[n + 1] = next[f[n]]
<1> DEFINE step == [w \in Nat \X V |-> next[w[2]]]
<1>1. Steps(V, c, step)
  BY DEF Steps
<1>2. PICK f : Iterates(f, V, c, step)
  <2> HIDE DEF step
  <2>1. QED
    BY <1>1, NatIteration, Zenon
<1>3. f \in [Nat -> V] /\ f[0] = c /\ \A n \in Nat : f[n + 1] = step[<<n, f[n]>>]
  BY <1>2, Zenon DEF Iterates
<1>4. ASSUME NEW n \in Nat PROVE f[n + 1] = next[f[n]]
  <2>1. f[n] \in V
    BY <1>3
  <2>2. QED
    BY <1>3, <2>1
<1>5. QED
  BY <1>3, <1>4

(* Both again, for the numbers up to N. *)
LEMMA IntervalSet ==
  ASSUME NEW N \in Nat, NEW S, 0 \in S, \A i \in 1 .. N : i - 1 \in S => i \in S
  PROVE  0 .. N \subseteq S
<1> DEFINE T == {n \in Nat : n > N \/ n \in S}
<1>1. 0 \in T
  OBVIOUS
<1>2. \A n \in Nat : n \in T => n + 1 \in T
  <2> SUFFICES ASSUME NEW n \in Nat, n \in T, n < N PROVE n + 1 \in S
    OBVIOUS
  <2>1. n + 1 \in 1 .. N /\ (n + 1) - 1 = n /\ n \in S
    OBVIOUS
  <2>2. QED
    BY <2>1, Zenon
<1>3. Nat \subseteq T
  <2> HIDE DEF T
  <2>1. QED
    BY <1>1, <1>2, NatSet, Zenon
<1>4. QED
  BY <1>3

StepsTo(N, V, c, step) == N \in Nat /\ c \in V /\ step \in [(1 .. N) \X V -> V]

IteratesTo(f, N, V, c, step) ==
  f \in [0 .. N -> V] /\ f[0] = c /\ \A i \in 1 .. N : f[i] = step[<<i, f[i - 1]>>]

LEMMA IntervalIteration ==
  ASSUME NEW N, NEW V, NEW c, NEW step, StepsTo(N, V, c, step)
  PROVE  \E f : IteratesTo(f, N, V, c, step)
<1> DEFINE on == [w \in Nat \X V |-> IF w[1] < N THEN step[<<w[1] + 1, w[2]>>] ELSE w[2]]
<1>1. N \in Nat /\ c \in V /\ step \in [(1 .. N) \X V -> V]
  BY DEF StepsTo
<1>2. ASSUME NEW n \in Nat, NEW v \in V
      PROVE  /\ n < N => on[<<n, v>>] = step[<<n + 1, v>>]
             /\ on[<<n, v>>] \in V
  <2>1. n < N => <<n + 1, v>> \in (1 .. N) \X V
    BY <1>1
  <2>2. on[<<n, v>>] = IF n < N THEN step[<<n + 1, v>>] ELSE v
    OBVIOUS
  <2> HIDE DEF on
  <2>3. QED
    BY <1>1, <2>1, <2>2
<1>3. on \in [Nat \X V -> V]
  <2>1. \A w \in Nat \X V : on[w] \in V
    <3>1. SUFFICES ASSUME NEW w \in Nat \X V PROVE on[w] \in V
      OBVIOUS
    <3>2. PICK n \in Nat, v \in V : w = <<n, v>>
      OBVIOUS
    <3> HIDE DEF on
    <3>3. QED
      BY <1>2, <3>2, Zenon
  <2>2. QED
    BY <2>1, Zenon
<1> HIDE DEF on
<1>4. Steps(V, c, on)
  BY <1>1, <1>3, Zenon DEF Steps
<1>5. PICK g : Iterates(g, V, c, on)
  BY <1>4, NatIteration, Zenon
<1>6. g \in [Nat -> V] /\ g[0] = c /\ \A n \in Nat : g[n + 1] = on[<<n, g[n]>>]
  BY <1>5, Zenon DEF Iterates
<1> DEFINE f == [i \in 0 .. N |-> g[i]]
<1>7. f \in [0 .. N -> V] /\ f[0] = c
  BY <1>1, <1>6
<1>8. ASSUME NEW i \in 1 .. N PROVE f[i] = step[<<i, f[i - 1]>>]
  <2>1. i - 1 \in Nat /\ i - 1 < N /\ (i - 1) + 1 = i /\ f[i] = g[i] /\ f[i - 1] = g[i - 1]
    BY <1>1
  <2> HIDE DEF f
  <2>2. g[i - 1] \in V
    BY <1>6, <2>1, Zenon
  <2>3. g[i] = on[<<i - 1, g[i - 1]>>]
    BY <1>6, <2>1, Zenon
  <2>4. on[<<i - 1, g[i - 1]>>] = step[<<i, g[i - 1]>>]
    <3>1. on[<<i - 1, g[i - 1]>>] = step[<<(i - 1) + 1, g[i - 1]>>]
      BY <1>2, <2>1, <2>2, Zenon
    <3>2. QED
      BY <2>1, <3>1
  <2>5. QED
    BY <2>1, <2>3, <2>4, Zenon
<1>9. IteratesTo(f, N, V, c, step)
  <2> HIDE DEF f
  <2>1. QED
    BY <1>7, <1>8, Zenon DEF IteratesTo
<1>10. QED
  BY <1>9, Zenon
=============================================================================
