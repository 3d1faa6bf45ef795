-------------------------- MODULE ConntrackProofs ---------------------------
(***************************************************************************)
(* For every number of entries, every hash function and every timeout: the *)
(* free list and the chains share out the slab at each step of a sweep, an *)
(* expired entry is gone after one turn of the cursor, and the table       *)
(* implements FlowTable.                                                   *)
(*                                                                         *)
(* Next fields are reasoned about as a function nx from entries to entries *)
(* or NULL.  A list is the sequence of its entries, and what an operation  *)
(* does to the links is shown to be what the obvious operation does to the *)
(* sequences; Walk, which the properties are stated with, finds them.      *)
(***************************************************************************)
EXTENDS Conntrack, Induction

-----------------------------------------------------------------------------
(* The number of buckets *)

(* Shifted is what its recursion says. *)
LEMMA ShiftedValues ==
  /\ Shifted \in [Nat -> Nat]
  /\ Shifted[0] = 1
  /\ \A n \in Nat : Shifted[n + 1] = 2 * Shifted[n]
<1> DEFINE double == [v \in Nat |-> 2 * v]
<1>1. PICK f \in [Nat -> Nat] : f[0] = 1 /\ \A n \in Nat : f[n + 1] = double[f[n]]
  <2>1. double \in [Nat -> Nat]
    OBVIOUS
  <2> DEFINE V == Nat
             c == 1
  <2>2. c \in V /\ double \in [V -> V]
    BY <2>1
  <2> HIDE DEF double, V, c
  <2>3. \E f \in [Nat -> V] : f[0] = c /\ \A n \in Nat : f[n + 1] = double[f[n]]
    BY <2>2, NatRecursion
  <2>4. QED
    BY <2>3 DEF V, c
<1>2. ASSUME NEW n \in Nat PROVE f[n] = IF n = 0 THEN 1 ELSE 2 * f[n - 1]
  <2>1. CASE n # 0
    <3>1. n - 1 \in Nat /\ (n - 1) + 1 = n
      BY <2>1
    <3>2. QED
      BY Zenon, <1>1, <2>1, <3>1
  <2>2. QED
    BY <1>1, <2>1
<1>3. f = [n \in Nat |-> IF n = 0 THEN 1 ELSE 2 * f[n - 1]]
  BY <1>1, <1>2
<1>4. Shifted = [n \in Nat |-> IF n = 0 THEN 1 ELSE 2 * Shifted[n - 1]]
  BY <1>3 DEF Shifted
<1> DEFINE S == {n \in Nat : Shifted[n] \in Nat}
<1>5. 0 \in S
  BY <1>4
<1>6. ASSUME NEW n \in Nat PROVE Shifted[n + 1] = 2 * Shifted[n]
  BY <1>4
<1>7. Nat \subseteq S
  <2>1. \A n \in Nat : n \in S => n + 1 \in S
    BY <1>6
  <2> HIDE DEF S
  <2>2. QED
    BY <1>5, <2>1, NatSet
<1>8. QED
  BY <1>4, <1>6, <1>7

(* There is at least one bucket: the loop of next_pow2 ends. *)
LEMMA BucketCount == bucket_count \in Nat \ {0}
<1> DEFINE x == (4 * MaxFlows) \div 3 + 1
           B == {n \in Nat : Shifted[n] > n}
           T == {n \in Nat : x <= Shifted[n]}
<1>1. x \in Nat /\ x > 0
  BY ConntrackAssumption
<1>2. Nat \subseteq B
  <2>1. 0 \in B
    BY ShiftedValues
  <2>2. ASSUME NEW n \in Nat, n \in B PROVE n + 1 \in B
    BY <2>2, ShiftedValues
  <2> HIDE DEF B
  <2>3. QED
    BY <2>1, <2>2, NatSet
<1> HIDE DEF x
<1>3. x \in T
  BY <1>1, <1>2, ShiftedValues
<1>4. PICK i \in T : \A k \in T : i <= k
  <2>1. T \subseteq Nat /\ T # {}
    BY <1>3
  <2> HIDE DEF T
  <2>2. QED
    BY Zenon, <2>1, LeastNatural
<1>5. i \in 0 .. x
  BY <1>1, <1>3, <1>4
<1>6. ASSUME NEW k \in 0 .. i - 1 PROVE Shifted[k] < x
  <2>1. k \in Nat /\ k < i /\ Shifted[k] \in Nat
    BY <1>5, ShiftedValues, <1>1
  <2>2. k \notin T
    BY <1>4, <2>1
  <2>3. QED
    BY <1>1, <2>1, <2>2
<1> DEFINE Ends(n) == x <= Shifted[n] /\ \A k \in 0 .. n - 1 : Shifted[k] < x
<1>7. Ends(i)
  BY <1>4, <1>6
<1>8. PICK n \in 0 .. x : next_pow2(x) = Shifted[n] /\ Ends(n)
  <2>1. next_pow2(x) = Shifted[CHOOSE n \in 0 .. x : Ends(n)]
    BY DEF next_pow2
  <2> HIDE DEF Ends
  <2>2. QED
    BY Zenon, <1>5, <1>7, <2>1
<1>9. QED
  BY <1>1, <1>8, ShiftedValues DEF bucket_count, x

-----------------------------------------------------------------------------
(* Lists *)

Link == Slot \cup {NULL}

(* s is the list that starts at h, by the next fields nx. *)
Path(nx, s, h) ==
  /\ s \in Seq(Slot)
  /\ h = IF s = <<>> THEN NULL ELSE s[1]
  /\ \A j \in 1 .. Len(s) : nx[s[j]] = IF j = Len(s) THEN NULL ELSE s[j + 1]

(* Next fields of a slab *)
Nexts(sl) == [x \in Slot |-> sl[x].next]

(* The function Walk recurs with is what its recursion says. *)
LEMMA WalkDef ==
  ASSUME NEW sl, Nexts(sl) \in [Slot -> Link]
  PROVE  \E w \in [0 .. MaxFlows + 1 -> [Link -> Seq(Slot)]] :
           /\ \A h \in Link : Walk(sl, h) = w[MaxFlows + 1][h]
           /\ \A n \in 0 .. MaxFlows + 1, x \in Link :
                w[n][x] = IF x = NULL \/ n = 0 THEN <<>> ELSE <<x>> \o w[n - 1][sl[x].next]
<1> DEFINE M == MaxFlows + 1
           V == [Link -> Seq(Slot)]
           c == [x \in Link |-> <<>>]
           after(g) == [x \in Link |-> IF x = NULL THEN <<>> ELSE <<x>> \o g[sl[x].next]]
           next == [g \in V |-> after(g)]
           Def(w) == [n \in 0 .. M |->
                        [x \in Link |-> IF x = NULL \/ n = 0 THEN <<>>
                                        ELSE <<x>> \o w[n - 1][sl[x].next]]]
<1>1. \A x \in Slot : sl[x].next \in Link
  BY DEF Nexts
<1>2. c \in V
  OBVIOUS
<1>3. ASSUME NEW g \in V PROVE after(g) \in V
  <2>1. ASSUME NEW x \in Link, x # NULL PROVE <<x>> \o g[sl[x].next] \in Seq(Slot)
    <3>1. x \in Slot /\ g[sl[x].next] \in Seq(Slot)
      BY <1>1, <2>1 DEF Link
    <3>2. <<x>> \in Seq(Slot)
      BY <3>1
    <3>3. QED
      BY <3>1, <3>2
  <2>2. QED
    BY <2>1
<1>4. next \in [V -> V]
  BY <1>3
<1>5. PICK f \in [Nat -> V] : f[0] = c /\ \A n \in Nat : f[n + 1] = next[f[n]]
  <2> HIDE DEF next, V, c, after
  <2>1. c \in V /\ next \in [V -> V]
    BY <1>2, <1>4
  <2>2. QED
    BY <2>1, NatRecursion, SMTT(120)
<1>6. M \in Nat
  BY ConntrackAssumption
<1> DEFINE w == [n \in 0 .. M |-> f[n]]
<1>7. w \in [0 .. M -> V]
  BY <1>5, <1>6
<1>8. ASSUME NEW n \in 0 .. M PROVE w[n] = Def(w)[n]
  <2>1. CASE n = 0
    <3>1. Def(w)[n] = c
      BY SMTT(60), <2>1
    <3>2. QED
      BY <1>5, <1>6, <2>1, <3>1
  <2>2. CASE n # 0
    <3>1. n - 1 \in Nat /\ n - 1 \in 0 .. M /\ (n - 1) + 1 = n
      BY <1>6, <2>2
    <3>2. w[n] = next[f[n - 1]] /\ w[n - 1] = f[n - 1] /\ f[n - 1] \in V
      BY Zenon, <1>5, <3>1
    <3>3. w[n] = after(w[n - 1])
      BY Zenon, <3>2
    <3>4. Def(w)[n] = after(w[n - 1])
      BY <2>2
    <3>5. QED
      BY Zenon, <3>3, <3>4
  <2>3. QED
    BY Zenon, <2>1, <2>2
<1>9. w = Def(w)
  <2>1. w \in [0 .. M -> V] /\ Def(w) = [n \in 0 .. M |-> Def(w)[n]]
    BY <1>7
  <2> HIDE DEF w, Def, V
  <2>2. QED
    BY <1>8, <2>1
<1> DEFINE walk == CHOOSE g : g = Def(g)
<1>10. walk = Def(walk)
  <2> HIDE DEF Def, w
  <2>1. QED
    BY <1>9
<1>11. \A h \in Link : Walk(sl, h) = walk[M][h]
  BY DEF Walk, Link
<1> HIDE DEF walk
<1>12. ASSUME NEW n \in 0 .. M, NEW x \in Link
       PROVE  walk[n][x] = IF x = NULL \/ n = 0 THEN <<>>
                           ELSE <<x>> \o walk[n - 1][sl[x].next]
  <2>1. walk[n] = Def(walk)[n]
    BY Zenon, <1>10
  <2>2. QED
    BY SMTT(60), <2>1
<1> DEFINE S == {n \in Nat : n <= M => walk[n] \in V}
<1>13. Nat \subseteq S
  <2>1. 0 \in S
    <3>1. 0 \in 0 .. M
      BY <1>6
    <3>2. walk[0] = c
      BY <1>10, <3>1
    <3> HIDE DEF c, V
    <3>3. QED
      BY <1>2, <3>2
  <2>2. ASSUME NEW n \in Nat, n \in S PROVE n + 1 \in S
    <3>1. SUFFICES ASSUME n + 1 <= M PROVE walk[n + 1] \in V
      OBVIOUS
    <3>2. n + 1 \in 0 .. M /\ n + 1 # 0 /\ (n + 1) - 1 = n /\ walk[n] \in V
      BY SMTT(60), <1>6, <2>2, <3>1
    <3>3. walk[n + 1] = after(walk[n])
      BY ZenonT(40), <1>10, <3>2
    <3> HIDE DEF V, after
    <3>4. QED
      BY <1>3, <3>2, <3>3
  <2> HIDE DEF S
  <2>3. QED
    BY ZenonT(60), <2>1, <2>2, NatSet
<1>14. walk \in [0 .. M -> V]
  <2>1. \A n \in 0 .. M : walk[n] \in V
    BY <1>6, <1>13
  <2> HIDE DEF V
  <2>2. QED
    BY Zenon, <1>10, <2>1
<1>15. QED
  BY Zenon, <1>11, <1>12, <1>14

(* The list a path is leaves when its first entry is passed is a path. *)
LEMMA PathTail ==
  ASSUME NEW nx, NEW s, NEW h, Path(nx, s, h), s # <<>>
  PROVE  /\ h \in Slot /\ h = s[1]
         /\ Path(nx, Tail(s), nx[h])
         /\ Len(Tail(s)) = Len(s) - 1
         /\ s = <<h>> \o Tail(s)
<1> DEFINE t == Tail(s)
<1>1. s \in Seq(Slot) /\ Len(s) \in Nat \ {0} /\ h = s[1] /\ h \in Slot
  BY DEF Path
<1>2. /\ t \in Seq(Slot) /\ Len(t) = Len(s) - 1
      /\ \A j \in 1 .. Len(s) - 1 : t[j] = s[j + 1]
  BY <1>1
<1>3. s = <<h>> \o t
  BY <1>1, <1>2
<1> HIDE DEF t
<1>4. \A j \in 1 .. Len(s) : nx[s[j]] = IF j = Len(s) THEN NULL ELSE s[j + 1]
  BY Zenon DEF Path
<1>5. nx[h] = IF t = <<>> THEN NULL ELSE t[1]
  <2>1. 1 \in 1 .. Len(s) /\ (t = <<>> <=> Len(s) = 1)
    BY <1>1, <1>2
  <2>2. nx[s[1]] = IF 1 = Len(s) THEN NULL ELSE s[1 + 1]
    BY Zenon, <1>4, <2>1
  <2>3. QED
    BY <1>1, <1>2, <2>1, <2>2
<1>6. ASSUME NEW j \in 1 .. Len(t)
      PROVE  nx[t[j]] = IF j = Len(t) THEN NULL ELSE t[j + 1]
  <2>1. j + 1 \in 1 .. Len(s) /\ j \in 1 .. Len(s) - 1 /\ t[j] = s[j + 1]
    BY <1>1, <1>2
  <2>2. nx[t[j]] = IF j + 1 = Len(s) THEN NULL ELSE s[(j + 1) + 1]
    BY <1>4, <2>1
  <2>3. j + 1 # Len(s) => s[(j + 1) + 1] = t[j + 1]
    BY SMTT(60), <1>1, <1>2, <2>1
  <2>4. QED
    BY <1>1, <1>2, <2>2, <2>3
<1>7. Path(nx, t, nx[h])
  BY <1>2, <1>5, <1>6, Zenon DEF Path
<1>8. QED
  BY <1>1, <1>2, <1>3, <1>7 DEF t

(* Walk finds the list. *)
LEMMA WalkFollows ==
  ASSUME NEW sl, Nexts(sl) \in [Slot -> Link],
         NEW s, NEW h, Path(Nexts(sl), s, h), Len(s) <= MaxFlows + 1
  PROVE  Walk(sl, h) = s
<1>1. PICK w \in [0 .. MaxFlows + 1 -> [Link -> Seq(Slot)]] :
        /\ \A x \in Link : Walk(sl, x) = w[MaxFlows + 1][x]
        /\ \A n \in 0 .. MaxFlows + 1, x \in Link :
             w[n][x] = IF x = NULL \/ n = 0 THEN <<>> ELSE <<x>> \o w[n - 1][sl[x].next]
  BY WalkDef
<1> DEFINE Found(n) == \A t, x : Path(Nexts(sl), t, x) /\ Len(t) <= n => w[n][x] = t
           S == {n \in Nat : n <= MaxFlows + 1 => Found(n)}
<1>2. \A t, x : Path(Nexts(sl), t, x) => x \in Link /\ t \in Seq(Slot) /\ (t = <<>> <=> x = NULL)
  BY SMTT(60), ConntrackAssumption DEF Path, Link, Slot
<1>3. Nat \subseteq S
  <2>1. 0 \in S
    <3>1. ASSUME NEW t, NEW x, Path(Nexts(sl), t, x), Len(t) <= 0 PROVE w[0][x] = t
      <4>1. t = <<>> /\ x \in Link /\ 0 \in 0 .. MaxFlows + 1
        BY <1>2, <3>1, ConntrackAssumption
      <4>2. QED
        BY Zenon, <1>1, <4>1
    <3>2. QED
      BY <3>1
  <2>2. ASSUME NEW n \in Nat, n \in S PROVE n + 1 \in S
    <3>1. ASSUME n + 1 <= MaxFlows + 1, NEW t, NEW x, Path(Nexts(sl), t, x), Len(t) <= n + 1
          PROVE  w[n + 1][x] = t
      <4>1. n + 1 \in 0 .. MaxFlows + 1 /\ n + 1 # 0 /\ (n + 1) - 1 = n /\ n <= MaxFlows + 1
        BY <3>1, ConntrackAssumption
      <4>2. x \in Link /\ t \in Seq(Slot) /\ (t = <<>> <=> x = NULL)
        BY <1>2, <3>1
      <4>3. CASE t = <<>>
        BY ZenonT(60), <1>1, <4>1, <4>2, <4>3
      <4>4. CASE t # <<>>
        <5>1. /\ x \in Slot /\ Path(Nexts(sl), Tail(t), Nexts(sl)[x])
              /\ Len(Tail(t)) = Len(t) - 1 /\ t = <<x>> \o Tail(t)
          BY <3>1, <4>4, PathTail
        <5>2. Nexts(sl)[x] = sl[x].next
          BY <5>1 DEF Nexts
        <5>3. Len(Tail(t)) <= n
          BY SMTT(60), <3>1, <4>2, <5>1
        <5>4. w[n][sl[x].next] = Tail(t)
          BY Zenon, <2>2, <4>1, <5>1, <5>2, <5>3
        <5>5. w[n + 1][x] = <<x>> \o w[n][sl[x].next]
          BY ZenonT(60), <1>1, <4>1, <4>2, <4>4
        <5>6. QED
          BY <5>1, <5>4, <5>5
      <4>5. QED
        BY <4>3, <4>4
    <3>2. QED
      BY <3>1
  <2> HIDE DEF S
  <2>3. QED
    BY <2>1, <2>2, NatSet
<1>4. w[MaxFlows + 1][h] = s
  BY <1>3, ConntrackAssumption
<1>5. QED
  BY <1>1, <1>2, <1>4

(* A list that no entry is on twice fits the slab. *)
LEMMA ShortList ==
  ASSUME NEW s \in Seq(Slot), \A j, k \in 1 .. Len(s) : s[j] = s[k] => j = k
  PROVE  Len(s) <= MaxFlows
<1>1. SUFFICES ASSUME Len(s) > MaxFlows PROVE FALSE
  BY ConntrackAssumption
<1>2. /\ IsFiniteSet(1 .. Len(s)) /\ Cardinality(1 .. Len(s)) = Len(s)
      /\ IsFiniteSet(Slot) /\ Cardinality(Slot) = MaxFlows
  <2>1. Len(s) \in Nat /\ MaxFlows \in Nat
    BY ConntrackAssumption
  <2>2. \A n \in Nat : IsFiniteSet(1 .. n) /\ Cardinality(1 .. n) = n
    BY FS_Interval
  <2>3. QED
    BY <2>1, <2>2 DEF Slot
<1>3. s \in [1 .. Len(s) -> Slot]
  OBVIOUS
<1>4. Cardinality(Slot) < Cardinality(1 .. Len(s))
  BY <1>1, <1>2, ConntrackAssumption
<1>5. \E j, k \in 1 .. Len(s) : j # k /\ s[j] = s[k]
  BY <1>2, <1>3, <1>4, FS_PigeonHole
<1>6. QED
  BY <1>5

(* A path is one for any next fields that agree on its entries. *)
LEMMA PathFrame ==
  ASSUME NEW nx, NEW s, NEW h, Path(nx, s, h),
         NEW ny, \A j \in 1 .. Len(s) : ny[s[j]] = nx[s[j]]
  PROVE  Path(ny, s, h)
BY Zenon DEF Path

LEMMA PathCons ==
  ASSUME NEW nx, NEW s, NEW h, Path(nx, s, h), NEW e \in Slot, nx[e] = h
  PROVE  Path(nx, <<e>> \o s, e)
<1> DEFINE t == <<e>> \o s
<1>1. /\ s \in Seq(Slot) /\ Len(s) \in Nat /\ h = IF s = <<>> THEN NULL ELSE s[1]
  BY DEF Path
<1>2. \A j \in 1 .. Len(s) : nx[s[j]] = IF j = Len(s) THEN NULL ELSE s[j + 1]
  BY Zenon DEF Path
<1>3. t \in Seq(Slot) /\ Len(t) = Len(s) + 1 /\ t[1] = e /\ t # <<>>
  BY <1>1
<1>4. \A j \in 1 .. Len(s) : t[j + 1] = s[j]
  BY <1>1
<1> HIDE DEF t
<1>5. ASSUME NEW j \in 1 .. Len(t)
      PROVE  nx[t[j]] = IF j = Len(t) THEN NULL ELSE t[j + 1]
  <2>1. CASE j = 1
    <3>1. s = <<>> <=> j = Len(t)
      BY <1>1, <1>3, <2>1
    <3>2. s # <<>> => t[j + 1] = s[1]
      BY <1>1, <1>4, <2>1
    <3>3. QED
      BY <1>1, <1>3, <2>1, <3>1, <3>2
  <2>2. CASE j # 1
    <3>1. j - 1 \in 1 .. Len(s) /\ (j - 1) + 1 = j
      BY <1>1, <1>3, <2>2
    <3>2. t[j] = s[j - 1]
      BY <1>4, <3>1
    <3>3. nx[s[j - 1]] = IF j - 1 = Len(s) THEN NULL ELSE s[(j - 1) + 1]
      BY <1>2, <3>1
    <3>4. j # Len(t) => s[j] = t[j + 1]
      BY <1>1, <1>3, <1>4, <2>2
    <3>5. QED
      BY <1>1, <1>3, <3>1, <3>2, <3>3, <3>4
  <2>3. QED
    BY <2>1, <2>2
<1>6. Path(nx, t, e)
  BY <1>3, <1>5, Zenon DEF Path
<1>7. QED
  BY <1>6 DEF t

(* A sequence without its p-th element, and the next fields of a list that *)
(* entry has been taken out of and put before fl.                          *)
Without(s, p) == [k \in 1 .. Len(s) - 1 |-> IF k < p THEN s[k] ELSE s[k + 1]]

Unlinked(nx, s, p, fl) ==
  [x \in Slot |-> IF x = s[p] THEN fl
                  ELSE IF p > 1 /\ x = s[p - 1] THEN nx[s[p]] ELSE nx[x]]

LEMMA PathWithout ==
  ASSUME NEW nx, NEW s, NEW h, Path(nx, s, h), NEW p \in 1 .. Len(s), NEW fl,
         \A j, k \in 1 .. Len(s) : s[j] = s[k] => j = k
  PROVE  Path(Unlinked(nx, s, p, fl), Without(s, p), IF p = 1 THEN nx[s[1]] ELSE h)
<1> DEFINE t == Without(s, p)
           ny == Unlinked(nx, s, p, fl)
<1>1. /\ s \in Seq(Slot) /\ Len(s) \in Nat \ {0} /\ h = s[1]
      /\ \A j \in 1 .. Len(s) : s[j] \in Slot
  BY DEF Path
<1>2. \A j \in 1 .. Len(s) : nx[s[j]] = IF j = Len(s) THEN NULL ELSE s[j + 1]
  BY Zenon DEF Path
<1>3. /\ t \in Seq(Slot) /\ Len(t) = Len(s) - 1
      /\ \A k \in 1 .. Len(s) - 1 : t[k] = IF k < p THEN s[k] ELSE s[k + 1]
  BY <1>1 DEF Without
<1>4. ASSUME NEW j \in 1 .. Len(s), j # p
      PROVE  ny[s[j]] = IF j + 1 = p THEN nx[s[p]] ELSE nx[s[j]]
  <2>1. s[j] \in Slot /\ s[j] # s[p]
    BY <1>1, <1>4
  <2>2. p > 1 => (s[j] = s[p - 1] <=> j = p - 1)
    BY <1>1
  <2>3. QED
    BY <1>1, <2>1, <2>2 DEF Unlinked
<1> HIDE DEF t, ny
<1>5. ASSUME NEW k \in 1 .. Len(t)
      PROVE  ny[t[k]] = IF k = Len(t) THEN NULL ELSE t[k + 1]
  <2>1. CASE k < p
    <3>1. k \in 1 .. Len(s) /\ k # p /\ t[k] = s[k]
      BY SMTT(60), <1>1, <1>3, <2>1
    <3>2. ny[t[k]] = IF k + 1 = p THEN nx[s[p]] ELSE nx[s[k]]
      BY <1>4, <3>1
    <3>3. CASE k + 1 = p
      <4>1. nx[s[p]] = IF p = Len(s) THEN NULL ELSE s[p + 1]
        BY <1>2
      <4>2. k # Len(t) => t[k + 1] = s[p + 1]
        BY <1>1, <1>3, <3>3
      <4>3. QED
        BY <1>1, <1>3, <3>2, <3>3, <4>1, <4>2
    <3>4. CASE k + 1 # p
      <4>1. nx[s[k]] = IF k = Len(s) THEN NULL ELSE s[k + 1]
        BY <1>2, <3>1
      <4>2. k # Len(t) /\ k # Len(s) /\ t[k + 1] = s[k + 1]
        BY SMTT(60), <1>1, <1>3, <2>1, <3>4
      <4>3. QED
        BY <3>2, <3>4, <4>1, <4>2
    <3>5. QED
      BY <3>3, <3>4
  <2>2. CASE ~(k < p)
    <3>1. k + 1 \in 1 .. Len(s) /\ k + 1 # p /\ (k + 1) + 1 # p /\ t[k] = s[k + 1]
      BY <1>1, <1>3, <2>2
    <3>2. ny[t[k]] = nx[s[k + 1]]
      BY <1>4, <3>1
    <3>3. nx[s[k + 1]] = IF k + 1 = Len(s) THEN NULL ELSE s[(k + 1) + 1]
      BY <1>2, <3>1
    <3>4. k # Len(t) => t[k + 1] = s[(k + 1) + 1]
      BY <1>1, <1>3, <2>2
    <3>5. QED
      BY <1>1, <1>3, <3>2, <3>3, <3>4
  <2>3. QED
    BY <2>1, <2>2
<1>6. (IF p = 1 THEN nx[s[1]] ELSE h) = IF t = <<>> THEN NULL ELSE t[1]
  <2>1. t = <<>> <=> Len(s) = 1
    BY <1>1, <1>3
  <2>2. 1 \in 1 .. Len(s)
    BY <1>1
  <2>3. nx[s[1]] = IF 1 = Len(s) THEN NULL ELSE s[1 + 1]
    BY Zenon, <1>2, <2>2
  <2>4. t # <<>> => t[1] = IF 1 < p THEN s[1] ELSE s[1 + 1]
    BY <1>1, <1>3, <2>1
  <2>5. QED
    BY <1>1, <2>1, <2>3, <2>4
<1>7. Path(ny, t, IF p = 1 THEN nx[s[1]] ELSE h)
  BY <1>3, <1>5, <1>6, Zenon DEF Path
<1>8. QED
  BY <1>7 DEF t, ny

-----------------------------------------------------------------------------
(* The free list fr and the chains ch share out the slab. *)
Shared(fr, ch) ==
  /\ \A j, k \in 1 .. Len(fr) : fr[j] = fr[k] => j = k
  /\ \A i, l \in Bucket : \A j \in 1 .. Len(ch[i]), k \in 1 .. Len(ch[l]) :
       ch[i][j] = ch[l][k] => i = l /\ j = k
  /\ \A j \in 1 .. Len(fr) : \A i \in Bucket : \A k \in 1 .. Len(ch[i]) : fr[j] # ch[i][k]
  /\ \A e \in Slot : \/ \E j \in 1 .. Len(fr) : fr[j] = e
                     \/ \E i \in Bucket : \E k \in 1 .. Len(ch[i]) : ch[i][k] = e

(* The next fields nx, the heads bk and the head fl are those of the lists *)
(* fr and ch, which share out the slab.                                    *)
Lists(nx, bk, fl, fr, ch) ==
  /\ nx \in [Slot -> Link] /\ bk \in [Bucket -> Link] /\ fl \in Link
  /\ fr \in Seq(Slot) /\ ch \in [Bucket -> Seq(Slot)]
  /\ Path(nx, fr, fl)
  /\ \A i \in Bucket : Path(nx, ch[i], bk[i])
  /\ Shared(fr, ch)

(* Then they are the lists the code walks. *)
LEMMA ListsWalk ==
  ASSUME NEW sl, NEW bk, NEW fl, NEW fr, NEW ch, Lists(Nexts(sl), bk, fl, fr, ch)
  PROVE  Walk(sl, fl) = fr /\ \A i \in Bucket : Walk(sl, bk[i]) = ch[i]
<1>1. /\ Nexts(sl) \in [Slot -> Link] /\ bk \in [Bucket -> Link] /\ fl \in Link
      /\ fr \in Seq(Slot) /\ ch \in [Bucket -> Seq(Slot)]
  BY Zenon DEF Lists
<1>2. Path(Nexts(sl), fr, fl) /\ \A i \in Bucket : Path(Nexts(sl), ch[i], bk[i])
  BY Zenon DEF Lists
<1>3. ASSUME NEW s \in Seq(Slot), NEW h \in Link, Path(Nexts(sl), s, h),
             \A j, k \in 1 .. Len(s) : s[j] = s[k] => j = k
      PROVE  Walk(sl, h) = s
  <2>1. Len(s) <= MaxFlows
    BY <1>3, ShortList, Zenon
  <2>2. Len(s) <= MaxFlows + 1
    BY <2>1, ConntrackAssumption
  <2>3. QED
    BY <1>1, <1>3, <2>2, WalkFollows, Zenon
<1>4. \A j, k \in 1 .. Len(fr) : fr[j] = fr[k] => j = k
  BY Zenon DEF Lists, Shared
<1>5. ASSUME NEW i \in Bucket
      PROVE  \A j, k \in 1 .. Len(ch[i]) : ch[i][j] = ch[i][k] => j = k
  <2>1. \A l, m \in Bucket : \A j \in 1 .. Len(ch[l]), k \in 1 .. Len(ch[m]) :
          ch[l][j] = ch[m][k] => l = m /\ j = k
    BY Zenon DEF Lists, Shared
  <2>2. QED
    BY <2>1
<1>6. Walk(sl, fl) = fr
  BY <1>1, <1>2, <1>3, <1>4, Zenon
<1>7. ASSUME NEW i \in Bucket PROVE Walk(sl, bk[i]) = ch[i]
  <2>1. ch[i] \in Seq(Slot) /\ bk[i] \in Link
    BY <1>1
  <2>2. QED
    BY <1>2, <1>3, <1>5, <2>1, Zenon
<1>8. QED
  BY <1>6, <1>7

(* conntrack_insert's moves: the first free entry goes to the head of a    *)
(* chain.                                                                  *)
LEMMA InsertLists ==
  ASSUME NEW nx, NEW bk, NEW fl, NEW fr, NEW ch, Lists(nx, bk, fl, fr, ch),
         fl # NULL, NEW b \in Bucket
  PROVE  Lists([nx EXCEPT ![fl] = bk[b]], [bk EXCEPT ![b] = fl], nx[fl],
               Tail(fr), [ch EXCEPT ![b] = <<fl>> \o ch[b]])
<1> DEFINE ny == [nx EXCEPT ![fl] = bk[b]]
           bl == [bk EXCEPT ![b] = fl]
           t == Tail(fr)
           c == <<fl>> \o ch[b]
           ci == [ch EXCEPT ![b] = c]
<1>1. /\ nx \in [Slot -> Link] /\ bk \in [Bucket -> Link] /\ fl \in Slot
      /\ fr \in Seq(Slot) /\ ch \in [Bucket -> Seq(Slot)] /\ ch[b] \in Seq(Slot)
      /\ bk[b] \in Link
  BY DEF Lists, Link
<1>2. Path(nx, fr, fl) /\ \A i \in Bucket : Path(nx, ch[i], bk[i])
  BY Zenon DEF Lists
<1>3. /\ \A j, k \in 1 .. Len(fr) : fr[j] = fr[k] => j = k
      /\ \A j \in 1 .. Len(fr) : \A i \in Bucket : \A k \in 1 .. Len(ch[i]) : fr[j] # ch[i][k]
  BY Zenon DEF Lists, Shared
<1>4. \A i, l \in Bucket : \A j \in 1 .. Len(ch[i]), k \in 1 .. Len(ch[l]) :
        ch[i][j] = ch[l][k] => i = l /\ j = k
  BY Zenon DEF Lists, Shared
<1>5. \A e \in Slot : \/ \E j \in 1 .. Len(fr) : fr[j] = e
                      \/ \E i \in Bucket : \E k \in 1 .. Len(ch[i]) : ch[i][k] = e
  BY Zenon DEF Lists, Shared
<1>6. fr # <<>> /\ fr[1] = fl /\ Len(fr) \in Nat \ {0}
  BY <1>1, <1>2 DEF Path
<1>7. /\ t \in Seq(Slot) /\ Len(t) = Len(fr) - 1
      /\ \A j \in 1 .. Len(t) : t[j] = fr[j + 1] /\ j + 1 \in 1 .. Len(fr)
  BY <1>1, <1>6
<1>8. /\ c \in Seq(Slot) /\ Len(c) = Len(ch[b]) + 1 /\ Len(ch[b]) \in Nat
      /\ c[1] = fl /\ \A j \in 1 .. Len(c) : j # 1 => c[j] = ch[b][j - 1] /\ j - 1 \in 1 .. Len(ch[b])
  BY <1>1
<1>9. /\ ny \in [Slot -> Link] /\ ny[fl] = bk[b] /\ \A x \in Slot : x # fl => ny[x] = nx[x]
      /\ bl \in [Bucket -> Link] /\ bl[b] = fl /\ \A i \in Bucket : i # b => bl[i] = bk[i]
      /\ nx[fl] \in Link
  BY <1>1 DEF Link
<1>10. /\ ci \in [Bucket -> Seq(Slot)] /\ ci[b] = c
       /\ \A i \in Bucket : i # b => ci[i] = ch[i]
  BY <1>1, <1>8
<1>11. \A i \in Bucket : \A k \in 1 .. Len(ch[i]) : ch[i][k] # fl /\ ch[i][k] \in Slot
  <2>1. 1 \in 1 .. Len(fr)
    BY <1>6
  <2>2. \A i \in Bucket : \A k \in 1 .. Len(ch[i]) : fr[1] # ch[i][k]
    BY <1>3, <2>1, Zenon
  <2>3. ASSUME NEW i \in Bucket, NEW k \in 1 .. Len(ch[i]) PROVE ch[i][k] \in Slot
    <3>1. ch[i] \in Seq(Slot)
      BY <1>1
    <3>2. QED
      BY <3>1
  <2>4. QED
    BY <1>6, <2>2, <2>3, Zenon
<1>12. \A j \in 1 .. Len(t) : t[j] # fl /\ t[j] \in Slot
  <2> TAKE j \in 1 .. Len(t)
  <2>1. j + 1 \in 1 .. Len(fr) /\ 1 \in 1 .. Len(fr) /\ j + 1 # 1 /\ t[j] = fr[j + 1]
    BY <1>6, <1>7
  <2>2. fr[j + 1] # fr[1]
    BY <1>3, <2>1, Zenon
  <2>3. QED
    BY <1>6, <1>7, <2>1, <2>2
<1> HIDE DEF ny, bl, t, c, ci
<1>13. Path(ny, t, nx[fl])
  <2>1. Path(nx, t, nx[fl])
    BY <1>1, <1>2, <1>6, PathTail, Zenon DEF t
  <2>2. \A j \in 1 .. Len(t) : ny[t[j]] = nx[t[j]]
    BY <1>9, <1>12, Zenon
  <2>3. QED
    BY <2>1, <2>2, PathFrame, Zenon
<1>14. ASSUME NEW i \in Bucket PROVE Path(ny, ch[i], bk[i])
  <2>1. \A j \in 1 .. Len(ch[i]) : ny[ch[i][j]] = nx[ch[i][j]]
    BY <1>9, <1>11, Zenon
  <2>2. QED
    BY <1>2, <2>1, PathFrame, Zenon
<1>15. ASSUME NEW i \in Bucket PROVE Path(ny, ci[i], bl[i])
  <2>1. CASE i = b
    <3>1. Path(ny, c, fl)
      BY <1>1, <1>9, <1>14, PathCons, Zenon DEF c
    <3>2. QED
      BY <1>9, <1>10, <2>1, <3>1, Zenon
  <2>2. CASE i # b
    BY <1>9, <1>10, <1>14, <2>2, Zenon
  <2>3. QED
    BY <2>1, <2>2
<1>16. Shared(t, ci)
  <2>1. ASSUME NEW j \in 1 .. Len(t), NEW k \in 1 .. Len(t), t[j] = t[k] PROVE j = k
    <3>1. /\ j + 1 \in 1 .. Len(fr) /\ t[j] = fr[j + 1]
          /\ k + 1 \in 1 .. Len(fr) /\ t[k] = fr[k + 1]
      BY <1>7, Zenon
    <3>2. j + 1 = k + 1
      BY ZenonT(60), <1>3, <2>1, <3>1
    <3>3. QED
      BY <3>2
  <2>2. ASSUME NEW i \in Bucket, NEW j \in 1 .. Len(ci[i])
        PROVE  \/ i = b /\ j = 1 /\ ci[i][j] = fl
               \/ \E k \in 1 .. Len(ch[i]) : /\ ci[i][j] = ch[i][k] /\ ci[i][j] # fl
                                             /\ j = IF i = b THEN k + 1 ELSE k
    <3>1. CASE i = b /\ j = 1
      BY <1>8, <1>10, <3>1
    <3>2. CASE i = b /\ j # 1
      <4>1. ci[i][j] = ch[i][j - 1] /\ j - 1 \in 1 .. Len(ch[i])
        BY SMTT(60), <1>8, <1>10, <2>2, <3>2
      <4>2. j = (j - 1) + 1
        BY <1>8, <1>10, <3>2
      <4>3. QED
        BY <1>11, <3>2, <4>1, <4>2, ZenonT(60)
    <3>3. CASE i # b
      BY <1>10, <1>11, <3>3, ZenonT(60)
    <3>4. QED
      BY <3>1, <3>2, <3>3
  <2>3. ASSUME NEW i \in Bucket, NEW l \in Bucket,
               NEW j \in 1 .. Len(ci[i]), NEW k \in 1 .. Len(ci[l]), ci[i][j] = ci[l][k]
        PROVE  i = l /\ j = k
    <3>1. CASE ci[i][j] = fl
      <4>1. i = b /\ j = 1
        BY <2>2, <3>1, Zenon
      <4>2. l = b /\ k = 1
        BY <2>2, <2>3, <3>1, Zenon
      <4>3. QED
        BY <4>1, <4>2
    <3>2. CASE ci[i][j] # fl
      <4>1. PICK m \in 1 .. Len(ch[i]) : /\ ci[i][j] = ch[i][m]
                                         /\ j = IF i = b THEN m + 1 ELSE m
        BY <2>2, <3>2, Zenon
      <4>2. PICK n \in 1 .. Len(ch[l]) : /\ ci[l][k] = ch[l][n]
                                         /\ k = IF l = b THEN n + 1 ELSE n
        BY <2>2, <2>3, <3>2, ZenonT(60)
      <4>3. ch[i][m] = ch[l][n]
        BY <2>3, <4>1, <4>2, Zenon
      <4>4. i = l /\ m = n
        BY <1>4, <4>3, ZenonT(60)
      <4>5. QED
        BY <4>1, <4>2, <4>4
    <3>3. QED
      BY <3>1, <3>2
  <2>4. ASSUME NEW j \in 1 .. Len(t), NEW i \in Bucket, NEW k \in 1 .. Len(ci[i])
        PROVE  t[j] # ci[i][k]
    <3>1. CASE ci[i][k] = fl
      BY <1>12, <3>1, Zenon
    <3>2. CASE ci[i][k] # fl
      <4>1. PICK m \in 1 .. Len(ch[i]) : ci[i][k] = ch[i][m]
        BY <2>2, <3>2, Zenon
      <4>2. t[j] = fr[j + 1] /\ j + 1 \in 1 .. Len(fr)
        BY <1>7, Zenon
      <4>3. QED
        BY <1>3, <4>1, <4>2
    <3>3. QED
      BY <3>1, <3>2
  <2>5. ASSUME NEW e \in Slot
        PROVE  \/ \E j \in 1 .. Len(t) : t[j] = e
               \/ \E i \in Bucket : \E k \in 1 .. Len(ci[i]) : ci[i][k] = e
    <3>1. CASE e = fl
      BY <1>8, <1>10, <3>1
    <3>2. ASSUME NEW j \in 1 .. Len(fr), fr[j] = e, e # fl PROVE \E k \in 1 .. Len(t) : t[k] = e
      <4>1. j - 1 \in 1 .. Len(t) /\ (j - 1) + 1 = j
        BY SMTT(60), <1>6, <1>7, <3>2
      <4>2. QED
        BY ZenonT(60), <1>7, <3>2, <4>1
    <3>3. ASSUME NEW i \in Bucket, NEW k \in 1 .. Len(ch[i]), ch[i][k] = e
          PROVE  \E j \in 1 .. Len(ci[i]) : ci[i][j] = e
      <4>1. CASE i = b
        <5>1. k + 1 \in 1 .. Len(c) /\ k + 1 # 1 /\ (k + 1) - 1 = k
          BY <1>8, <4>1
        <5>2. c[k + 1] = ch[b][k]
          BY <1>8, <5>1
        <5>3. QED
          BY <1>10, <3>3, <4>1, <5>1, <5>2, ZenonT(60)
      <4>2. CASE i # b
        BY <1>10, <3>3, <4>2, Zenon
      <4>3. QED
        BY <4>1, <4>2
    <3>4. QED
      BY <1>5, <3>1, <3>2, <3>3, ZenonT(60)
  <2>6. QED
    BY <2>1, <2>3, <2>4, <2>5, Zenon DEF Shared
<1>17. Lists(ny, bl, nx[fl], t, ci)
  BY <1>7, <1>9, <1>10, <1>13, <1>15, <1>16, ZenonT(60) DEF Lists
<1>18. QED
  BY <1>17 DEF ny, bl, t, c, ci

(* A sweep's eviction: the p-th entry of a chain goes to the head of the   *)
(* free list.                                                              *)
LEMMA EvictLists ==
  ASSUME NEW nx, NEW bk, NEW fl, NEW fr, NEW ch, Lists(nx, bk, fl, fr, ch),
         NEW b \in Bucket, NEW p \in 1 .. Len(ch[b])
  PROVE  Lists(Unlinked(nx, ch[b], p, fl),
               IF p = 1 THEN [bk EXCEPT ![b] = nx[ch[b][1]]] ELSE bk,
               ch[b][p], <<ch[b][p]>> \o fr, [ch EXCEPT ![b] = Without(ch[b], p)])
<1> DEFINE s == ch[b]
           x == s[p]
           ny == Unlinked(nx, s, p, fl)
           bl == IF p = 1 THEN [bk EXCEPT ![b] = nx[s[1]]] ELSE bk
           f == <<x>> \o fr
           t == Without(s, p)
           ci == [ch EXCEPT ![b] = t]
<1>1. /\ nx \in [Slot -> Link] /\ bk \in [Bucket -> Link] /\ fl \in Link
      /\ fr \in Seq(Slot) /\ ch \in [Bucket -> Seq(Slot)] /\ s \in Seq(Slot)
      /\ Len(s) \in Nat /\ Len(fr) \in Nat
  BY DEF Lists
<1>2. Path(nx, fr, fl) /\ \A i \in Bucket : Path(nx, ch[i], bk[i])
  BY Zenon DEF Lists
<1>3. /\ \A j, k \in 1 .. Len(fr) : fr[j] = fr[k] => j = k
      /\ \A j \in 1 .. Len(fr) : \A i \in Bucket : \A k \in 1 .. Len(ch[i]) : fr[j] # ch[i][k]
  BY Zenon DEF Lists, Shared
<1>4. \A i, l \in Bucket : \A j \in 1 .. Len(ch[i]), k \in 1 .. Len(ch[l]) :
        ch[i][j] = ch[l][k] => i = l /\ j = k
  BY Zenon DEF Lists, Shared
<1>5. \A e \in Slot : \/ \E j \in 1 .. Len(fr) : fr[j] = e
                      \/ \E i \in Bucket : \E k \in 1 .. Len(ch[i]) : ch[i][k] = e
  BY Zenon DEF Lists, Shared
<1>6. \A j, k \in 1 .. Len(s) : s[j] = s[k] => j = k
  BY <1>4
<1>7. \A j \in 1 .. Len(s) : s[j] \in Slot
  BY <1>1
<1>8. /\ t \in Seq(Slot) /\ Len(t) = Len(s) - 1
      /\ \A k \in 1 .. Len(t) : t[k] = IF k < p THEN s[k] ELSE s[k + 1]
  BY <1>1 DEF Without
<1>9. /\ f \in Seq(Slot) /\ Len(f) = Len(fr) + 1 /\ f[1] = x
      /\ \A j \in 1 .. Len(f) : j # 1 => f[j] = fr[j - 1] /\ j - 1 \in 1 .. Len(fr)
  BY <1>1, <1>7
<1>10. /\ x \in Slot /\ nx[s[1]] \in Link /\ bk[b] \in Link /\ nx[x] \in Link
       /\ p > 1 => p - 1 \in 1 .. Len(s) /\ s[p - 1] \in Slot
  BY <1>1, <1>7
<1>11. ny \in [Slot -> Link]
  BY <1>1, <1>7, <1>10 DEF Unlinked
<1>12. \A e \in Slot : ny[e] = IF e = x THEN fl ELSE IF p > 1 /\ e = s[p - 1] THEN nx[x] ELSE nx[e]
  BY DEF Unlinked
<1>13. /\ bl \in [Bucket -> Link] /\ bl[b] = (IF p = 1 THEN nx[s[1]] ELSE bk[b])
       /\ \A i \in Bucket : i # b => bl[i] = bk[i]
  BY <1>1, <1>10
<1>14. /\ ci \in [Bucket -> Seq(Slot)] /\ ci[b] = t
       /\ \A i \in Bucket : i # b => ci[i] = ch[i]
  BY <1>1, <1>8
<1> HIDE DEF ny, bl, f, t, ci
<1>15. Path(ny, t, bl[b])
  <2>1. Path(nx, s, bk[b])
    BY <1>2
  <2>2. Path(ny, t, IF p = 1 THEN nx[s[1]] ELSE bk[b])
    BY <1>6, <2>1, PathWithout, Zenon DEF ny, t
  <2>3. QED
    BY <1>13, <2>2
<1>16. ASSUME NEW i \in Bucket PROVE Path(ny, ci[i], bl[i])
  <2>1. CASE i = b
    BY <1>14, <1>15, <2>1, Zenon
  <2>2. CASE i # b
    <3>1. ASSUME NEW j \in 1 .. Len(ch[i]) PROVE ny[ch[i][j]] = nx[ch[i][j]]
      <4>1. ch[i][j] \in Slot
        BY <1>1
      <4>2. ch[i][j] # x /\ (p > 1 => ch[i][j] # s[p - 1])
        BY ZenonT(60), <1>4, <1>10, <2>2
      <4>3. QED
        BY <1>12, <4>1, <4>2, Zenon
    <3>2. Path(ny, ch[i], bk[i])
      BY <1>2, <3>1, PathFrame, Zenon
    <3>3. QED
      BY <1>13, <1>14, <2>2, <3>2, Zenon
  <2>3. QED
    BY <2>1, <2>2
<1>17. ASSUME NEW j \in 1 .. Len(fr)
       PROVE  fr[j] \in Slot /\ fr[j] # x /\ (p > 1 => fr[j] # s[p - 1])
  BY <1>1, <1>3, <1>10
<1>18. Path(ny, f, x)
  <2>1. \A j \in 1 .. Len(fr) : ny[fr[j]] = nx[fr[j]]
    BY <1>12, <1>17, Zenon
  <2>2. Path(ny, fr, fl)
    <3>1. Path(nx, fr, fl)
      BY <1>2
    <3>2. QED
      BY <2>1, <3>1, PathFrame
  <2>3. ny[x] = fl
    BY <1>10, <1>12, Zenon
  <2>4. QED
    BY <1>10, <2>2, <2>3, PathCons, Zenon DEF f
<1>19. Shared(f, ci)
  <2>1. ASSUME NEW i \in Bucket, NEW k \in 1 .. Len(ci[i])
        PROVE  \E m \in 1 .. Len(ch[i]) : /\ ci[i][k] = ch[i][m] /\ ci[i][k] # x
                                          /\ m = IF i = b /\ k >= p THEN k + 1 ELSE k
    <3>1. CASE i = b
      <4> DEFINE m == IF k < p THEN k ELSE k + 1
      <4>1. m \in 1 .. Len(s) /\ m # p /\ (m = IF i = b /\ k >= p THEN k + 1 ELSE k)
        BY <1>1, <1>8, <1>14, <3>1
      <4>2. ci[i][k] = s[m]
        BY ZenonT(60), <1>8, <1>14, <3>1
      <4>3. s[m] # x
        BY <1>6, <4>1
      <4> HIDE DEF m
      <4>4. QED
        BY <3>1, <4>1, <4>2, <4>3, ZenonT(60)
    <3>2. CASE i # b
      <4>1. ci[i] = ch[i]
        BY <1>14, <3>2
      <4>2. ch[i][k] # x
        BY <1>4, <3>2, <4>1
      <4>3. QED
        BY <3>2, <4>1, <4>2, Zenon
    <3>3. QED
      BY <3>1, <3>2
  <2>2. ASSUME NEW j \in 1 .. Len(f), NEW k \in 1 .. Len(f), f[j] = f[k] PROVE j = k
    <3>1. ASSUME NEW l \in 1 .. Len(f), l # 1 PROVE f[l] # x
      BY Zenon, <1>9, <1>17, <3>1
    <3>2. CASE j = 1 \/ k = 1
      BY <1>9, <2>2, <3>1, <3>2
    <3>3. CASE j # 1 /\ k # 1
      <4>1. /\ f[j] = fr[j - 1] /\ j - 1 \in 1 .. Len(fr)
            /\ f[k] = fr[k - 1] /\ k - 1 \in 1 .. Len(fr)
        BY <1>9, <3>3
      <4>2. j - 1 = k - 1
        BY Zenon, <1>3, <2>2, <4>1
      <4>3. QED
        BY <4>2
    <3>4. QED
      BY <3>2, <3>3
  <2>3. ASSUME NEW i \in Bucket, NEW l \in Bucket,
               NEW j \in 1 .. Len(ci[i]), NEW k \in 1 .. Len(ci[l]), ci[i][j] = ci[l][k]
        PROVE  i = l /\ j = k
    <3>1. PICK m \in 1 .. Len(ch[i]) : /\ ci[i][j] = ch[i][m]
                                       /\ m = IF i = b /\ j >= p THEN j + 1 ELSE j
      BY <2>1, ZenonT(60)
    <3>2. PICK n \in 1 .. Len(ch[l]) : /\ ci[l][k] = ch[l][n]
                                       /\ n = IF l = b /\ k >= p THEN k + 1 ELSE k
      BY <2>1, Zenon
    <3>3. ch[i][m] = ch[l][n]
      BY <2>3, <3>1, <3>2, ZenonT(60)
    <3>4. i = l /\ m = n
      BY ZenonT(60), <1>4, <3>3
    <3>5. QED
      BY <3>1, <3>2, <3>4
  <2>4. ASSUME NEW j \in 1 .. Len(f), NEW i \in Bucket, NEW k \in 1 .. Len(ci[i])
        PROVE  f[j] # ci[i][k]
    <3>1. PICK m \in 1 .. Len(ch[i]) : ci[i][k] = ch[i][m] /\ ci[i][k] # x
      BY <2>1, Zenon
    <3>2. CASE j = 1
      BY <1>9, <3>1, <3>2
    <3>3. CASE j # 1
      <4>1. f[j] = fr[j - 1] /\ j - 1 \in 1 .. Len(fr)
        BY <1>9, <3>3
      <4>2. QED
        BY ZenonT(60), <1>3, <3>1, <4>1
    <3>4. QED
      BY <3>2, <3>3
  <2>5. ASSUME NEW e \in Slot
        PROVE  \/ \E j \in 1 .. Len(f) : f[j] = e
               \/ \E i \in Bucket : \E k \in 1 .. Len(ci[i]) : ci[i][k] = e
    <3>1. CASE e = x
      BY <1>1, <1>9, <3>1
    <3>2. ASSUME NEW j \in 1 .. Len(fr), fr[j] = e PROVE \E k \in 1 .. Len(f) : f[k] = e
      <4>1. j + 1 \in 1 .. Len(f) /\ j + 1 # 1 /\ (j + 1) - 1 = j
        BY <1>1, <1>9
      <4>2. f[j + 1] = fr[j]
        BY <1>9, <4>1
      <4>3. QED
        BY <3>2, <4>1, <4>2, Zenon
    <3>3. ASSUME NEW i \in Bucket, NEW k \in 1 .. Len(ch[i]), ch[i][k] = e, e # x
          PROVE  \E j \in 1 .. Len(ci[i]) : ci[i][j] = e
      <4>1. CASE i = b /\ k < p
        <5>1. k \in 1 .. Len(t)
          BY <1>1, <1>8, <4>1
        <5>2. t[k] = e
          BY <1>8, <3>3, <4>1, <5>1
        <5>3. QED
          BY <1>14, <4>1, <5>1, <5>2, ZenonT(60)
      <4>2. CASE i = b /\ ~(k < p)
        <5>1. k # p
          BY <3>3, <4>2
        <5>2. k - 1 \in 1 .. Len(t) /\ ~(k - 1 < p) /\ (k - 1) + 1 = k
          BY SMTT(60), <1>1, <1>8, <4>2, <5>1
        <5>3. t[k - 1] = e
          BY <1>8, <3>3, <4>2, <5>2
        <5>4. QED
          BY <1>14, <4>2, <5>2, <5>3, ZenonT(60)
      <4>3. CASE i # b
        BY <1>14, <3>3, <4>3, Zenon
      <4>4. QED
        BY <4>1, <4>2, <4>3
    <3>4. QED
      BY <1>5, <3>1, <3>2, <3>3, Zenon
  <2>6. QED
    BY <2>2, <2>3, <2>4, <2>5, ZenonT(60) DEF Shared
<1>20. Lists(ny, bl, x, f, ci)
  <2>1. x \in Link
    BY <1>10 DEF Link
  <2>2. QED
    BY <1>9, <1>11, <1>13, <1>14, <1>16, <1>18, <1>19, <2>1, ZenonT(60) DEF Lists
<1>21. QED
  BY <1>20 DEF ny, bl, f, t, ci

-----------------------------------------------------------------------------
(* The lists of a state, as the code walks them. *)
Free == Chain(free_list)
Chains == [i \in Bucket |-> Chain(buckets[i])]

ListInv == Lists(Nexts(slab), buckets, free_list, Free, Chains)

(* What is chained is a flow, in the bucket its key hashes to, and no two  *)
(* entries are the same flow's.                                            *)
EntryInv ==
  /\ \A i \in Bucket : \A e \in Chained(i) :
       slab[e].key \in Flow /\ slab[e].backend_id \in BackendId /\ BucketOf(slab[e].key) = i
  /\ \A e, x \in Linked : slab[e].key = slab[x].key => e = x

(* The bucket under a sweep: the cursor has moved on already. *)
Before(c) == IF c = 0 THEN bucket_count - 1 ELSE c - 1
Swept == Before(sweep_cursor)

(* Inside a bucket the sweep has passed the first p entries of the chain,  *)
(* and none of those was expired.                                          *)
At(p) ==
  /\ sweep.link = IF p = 0 THEN <<"bucket", Swept>> ELSE <<"entry", Chains[Swept][p]>>
  /\ \A j \in 1 .. p : overdue[Chains[Swept][j]] = 0

SweepInv ==
  /\ sweep.now <= now
  /\ sweep.pc = "link" => sweep.n > 0 /\ \E p \in 0 .. Len(Chains[Swept]) : At(p)

(* How many buckets a cursor at c has to pass before it sweeps bucket i. *)
Ahead(c, i) == IF i >= c THEN i - c ELSE i + bucket_count - c

(* An entry of bucket i that has been overdue for o ticks: the buckets     *)
(* scanned since the first of them and those still ahead of it are less    *)
(* than a turn.                                                            *)
InTime(sw, c, i, o) ==
  IF sw.pc = "idle" THEN o * buckets_to_scan + Ahead(c, i) < bucket_count
  ELSE IF sw.pc = "link" /\ i = Before(c)
  THEN (o - 1) * buckets_to_scan + sw.n <= bucket_count
  ELSE (o - 1) * buckets_to_scan + sw.n + Ahead(c, i) < bucket_count

(* The time entries are measured against, and Expired of a given slab. *)
SweepTime == IF sweep.pc = "idle" THEN now ELSE sweep.now
Late(sl, e, t) == t - sl[e].last_seen > Timeout[sl[e].key]

(* An entry counted as overdue is linked and expired, and still in time. *)
OverdueInv ==
  \A e \in Slot : overdue[e] > 0 =>
    /\ e \in Linked
    /\ Late(slab, e, SweepTime)
    /\ \A i \in Bucket : e \in Chained(i) => InTime(sweep, sweep_cursor, i, overdue[e])

(* The gauge counts the linked entries, in the middle of a sweep too. *)
ActiveIsLinked == active = Cardinality(Linked)

Inv == TypeOK /\ ListInv /\ EntryInv /\ SweepInv /\ OverdueInv /\ ActiveIsLinked

(* The set of a chain's entries, for chains given as sequences. *)
Entries(ch, i) == {ch[i][k] : k \in 1 .. Len(ch[i])}

LEMMA RangeIsEntries ==
  ASSUME NEW ch \in [Bucket -> Seq(Slot)], NEW i \in Bucket
  PROVE  Range(ch[i]) = Entries(ch, i) /\ Entries(ch, i) \subseteq Slot
<1>1. ch[i] \in Seq(Slot)
  OBVIOUS
<1>2. DOMAIN ch[i] = 1 .. Len(ch[i]) /\ \A k \in 1 .. Len(ch[i]) : ch[i][k] \in Slot
  BY <1>1
<1>3. QED
  BY <1>2, Zenon DEF Range, Entries

LEMMA Chaining ==
  ASSUME ListInv
  PROVE  /\ Chains \in [Bucket -> Seq(Slot)] /\ Free \in Seq(Slot)
         /\ \A i \in Bucket : Chained(i) = Entries(Chains, i) /\ Chained(i) \subseteq Slot
         /\ \A i, l \in Bucket : \A e : e \in Chained(i) /\ e \in Chained(l) => i = l
         /\ Linked \subseteq Slot
<1>1. Chains \in [Bucket -> Seq(Slot)] /\ Free \in Seq(Slot)
  BY Zenon DEF ListInv, Lists
<1>2. ASSUME NEW i \in Bucket
      PROVE  Chained(i) = Entries(Chains, i) /\ Chained(i) \subseteq Slot
  <2>1. Chained(i) = Range(Chains[i])
    BY DEF Chained, Chains
  <2>2. QED
    BY <1>1, <2>1, RangeIsEntries, Zenon
<1>3. \A i, l \in Bucket : \A e : e \in Chained(i) /\ e \in Chained(l) => i = l
  <2> TAKE i, l \in Bucket
  <2>1. \A j \in 1 .. Len(Chains[i]), k \in 1 .. Len(Chains[l]) :
          Chains[i][j] = Chains[l][k] => i = l
    BY Zenon DEF ListInv, Lists, Shared
  <2>2. ASSUME NEW e, e \in Chained(i), e \in Chained(l) PROVE i = l
    <3>1. PICK j \in 1 .. Len(Chains[i]) : e = Chains[i][j]
      BY <1>2, <2>2, Zenon DEF Entries
    <3>2. PICK k \in 1 .. Len(Chains[l]) : e = Chains[l][k]
      BY <1>2, <2>2, Zenon DEF Entries
    <3>3. QED
      BY <2>1, <3>1, <3>2, Zenon
  <2>3. QED
    BY <2>2
<1>4. Linked \subseteq Slot
  BY <1>2, Zenon DEF Linked
<1>5. QED
  BY <1>1, <1>2, <1>3, <1>4

LEMMA LinkedIs ==
  \A e : e \in Linked <=> \E i \in Bucket : e \in Chained(i)
BY Zenon DEF Linked

(* Lists that a step has changed are the ones walked after it. *)
LEMMA ListsAfter ==
  ASSUME NEW f, NEW c, Lists(Nexts(slab'), buckets', free_list', f, c)
  PROVE  /\ Free' = f /\ Chains' = c /\ ListInv'
         /\ \A i \in Bucket : Chained(i)' = Entries(c, i)
<1>1. Walk(slab', free_list') = f /\ \A i \in Bucket : Walk(slab', buckets'[i]) = c[i]
  BY ListsWalk
<1>2. c \in [Bucket -> Seq(Slot)]
  BY Zenon DEF Lists
<1>3. Free' = f
  BY <1>1, Zenon DEF Free, Chain
<1>4. Chains' = c
  <2>1. Chains' = [i \in Bucket |-> Walk(slab', buckets'[i])]
    BY Zenon DEF Chains, Chain
  <2>2. QED
    BY <1>1, <1>2, <2>1
<1>5. ListInv'
  BY <1>3, <1>4 DEF ListInv
<1>6. ASSUME NEW i \in Bucket PROVE Chained(i)' = Entries(c, i)
  <2>1. Chained(i)' = Range(Walk(slab', buckets'[i]))
    BY Zenon DEF Chained, Chain
  <2>2. Chained(i)' = Range(c[i])
    BY <1>1, <2>1, Zenon
  <2>3. QED
    BY <1>2, <2>2, RangeIsEntries, Zenon
<1>7. QED
  BY <1>3, <1>4, <1>5, <1>6

(* A step that leaves heads and next fields alone leaves the lists alone. *)
LEMMA SameLists ==
  ASSUME ListInv, buckets' = buckets, free_list' = free_list, Nexts(slab') = Nexts(slab)
  PROVE  /\ Free' = Free /\ Chains' = Chains /\ ListInv'
         /\ \A i \in Bucket : Chained(i)' = Chained(i)
         /\ Linked' = Linked
<1>1. Lists(Nexts(slab'), buckets', free_list', Free, Chains)
  BY DEF ListInv
<1>2. /\ Free' = Free /\ Chains' = Chains /\ ListInv'
      /\ \A i \in Bucket : Chained(i)' = Entries(Chains, i)
  BY <1>1, ListsAfter, Zenon
<1>3. \A i \in Bucket : Chained(i)' = Chained(i)
  BY <1>2, Chaining, Zenon
<1>4. Linked' = Linked
  BY <1>3, Zenon DEF Linked
<1>5. QED
  BY <1>2, <1>3, <1>4

LEMMA Numbers ==
  /\ bucket_count \in Nat \ {0}
  /\ buckets_to_scan \in Nat \ {0}
  /\ \A k \in Flow : BucketOf(k) \in Bucket
  /\ \A i \in Bucket : i \in 0 .. bucket_count - 1
<1>1. bucket_count \in Nat \ {0}
  BY BucketCount
<1>2. buckets_to_scan \in Nat \ {0}
  <2>1. bucket_count \div 60 \in Nat
    BY <1>1
  <2>2. QED
    BY <1>1, <2>1 DEF buckets_to_scan, reaper_buckets_per_tick
<1>3. ASSUME NEW k \in Flow PROVE BucketOf(k) \in Bucket
  <2>1. Hash[k] \in Nat
    BY ConntrackAssumption
  <2>2. QED
    BY <1>1, <2>1 DEF BucketOf, Bucket
<1>4. QED
  BY <1>1, <1>2, <1>3 DEF Bucket

LEMMA InsertStep ==
  ASSUME TypeOK, ListInv, NEW k \in Flow, NEW b \in BackendId, conntrack_insert(k, b)
  PROVE  /\ ListInv'
         /\ free_list \in Slot \ Linked
         /\ Chained(BucketOf(k))' = Chained(BucketOf(k)) \cup {free_list}
         /\ \A i \in Bucket : i # BucketOf(k) => Chained(i)' = Chained(i)
         /\ Linked' = Linked \cup {free_list}
<1> DEFINE i0 == BucketOf(k)
           nx == Nexts(slab)
           c == [Chains EXCEPT ![i0] = <<free_list>> \o Chains[i0]]
<1>1. i0 \in Bucket
  BY Numbers
<1>2. free_list \in Slot /\ free_list # NULL
  BY DEF TypeOK, conntrack_insert, Link
<1>3. /\ free_list' = slab[free_list].next
      /\ slab' = [slab EXCEPT ![free_list] = [key |-> k, backend_id |-> b, last_seen |-> now,
                                              next |-> buckets[i0]]]
      /\ buckets' = [buckets EXCEPT ![i0] = free_list]
  BY Zenon DEF conntrack_insert
<1>4. Nexts(slab') = [nx EXCEPT ![free_list] = buckets[i0]] /\ nx[free_list] = slab[free_list].next
  <2>1. slab \in [Slot -> [key : Flow \cup {NULL}, backend_id : BackendId \cup {NULL},
                           last_seen : 0 .. MaxNow, next : Slot \cup {NULL}]]
    BY DEF TypeOK
  <2>2. QED
    BY Zenon, <1>2, <1>3, <2>1 DEF Nexts
<1>5. Lists(nx, buckets, free_list, Free, Chains)
  BY DEF ListInv
<1> HIDE DEF i0, nx, c
<1>6. Lists(Nexts(slab'), buckets', free_list', Tail(Free), c)
  <2>1. Lists([nx EXCEPT ![free_list] = buckets[i0]], [buckets EXCEPT ![i0] = free_list],
              nx[free_list], Tail(Free), [Chains EXCEPT ![i0] = <<free_list>> \o Chains[i0]])
    BY <1>1, <1>2, <1>5, InsertLists, Zenon
  <2>2. QED
    BY <1>3, <1>4, <2>1, Zenon DEF c
<1>7. ListInv' /\ \A i \in Bucket : Chained(i)' = Entries(c, i)
  BY <1>6, ListsAfter, Zenon
<1>8. Chains \in [Bucket -> Seq(Slot)] /\ \A i \in Bucket : Chained(i) = Entries(Chains, i)
  BY Chaining
<1>9. \A i \in Bucket : i # i0 => Chained(i)' = Chained(i)
  <2> TAKE i \in Bucket
  <2>1. i # i0 => c[i] = Chains[i]
    BY <1>8 DEF c
  <2>2. QED
    BY <1>7, <1>8, <2>1, ZenonT(60) DEF Entries
<1>10. Chained(i0)' = Chained(i0) \cup {free_list}
  <2> DEFINE s == Chains[i0]
             t == <<free_list>> \o s
  <2>1. s \in Seq(Slot) /\ Len(s) \in Nat /\ c[i0] = t
    BY <1>1, <1>8 DEF c
  <2>2. /\ Len(t) = Len(s) + 1 /\ t[1] = free_list
        /\ \A j \in 1 .. Len(s) : t[j + 1] = s[j]
    BY <1>2, <2>1
  <2> HIDE DEF s, t
  <2>3. {t[j] : j \in 1 .. Len(t)} = {s[j] : j \in 1 .. Len(s)} \cup {free_list}
    <3>1. ASSUME NEW j \in 1 .. Len(t), j # 1 PROVE j - 1 \in 1 .. Len(s) /\ t[j] = s[j - 1]
      <4>1. j - 1 \in 1 .. Len(s) /\ (j - 1) + 1 = j
        BY <2>1, <2>2, <3>1
      <4>2. QED
        BY <2>2, <4>1
    <3>2. 1 \in 1 .. Len(t) /\ \A j \in 1 .. Len(s) : j + 1 \in 1 .. Len(t)
      BY <2>1, <2>2
    <3>3. ASSUME NEW j \in 1 .. Len(t) PROVE t[j] \in {s[m] : m \in 1 .. Len(s)} \cup {free_list}
      BY <2>2, <3>1, Zenon
    <3>4. ASSUME NEW j \in 1 .. Len(s) PROVE s[j] \in {t[m] : m \in 1 .. Len(t)}
      BY <2>2, <3>2, Zenon
    <3>5. free_list \in {t[m] : m \in 1 .. Len(t)}
      BY <2>2, <3>2, Zenon
    <3>6. QED
      BY <3>3, <3>4, <3>5, Zenon
  <2>4. QED
    BY <1>1, <1>7, <1>8, <2>1, <2>3, ZenonT(60) DEF Entries, s
<1>11. \A i \in Bucket : free_list \notin Chained(i)
  <2> TAKE i \in Bucket
  <2>1. \A j \in 1 .. Len(Free) : \A m \in 1 .. Len(Chains[i]) : Free[j] # Chains[i][m]
    BY Zenon DEF ListInv, Lists, Shared
  <2>2. 1 \in 1 .. Len(Free) /\ Free[1] = free_list
    <3>1. Path(nx, Free, free_list)
      BY <1>5, Zenon DEF Lists
    <3>2. QED
      BY <1>2, <3>1 DEF Path
  <2>3. QED
    BY <1>8, <2>1, <2>2, Zenon DEF Entries
<1>12. free_list \notin Linked
  BY <1>11, LinkedIs, Zenon
<1>13. Linked' = Linked \cup {free_list}
  <2>1. \A e : e \in Linked' <=> \E i \in Bucket : e \in Chained(i)'
    BY Zenon DEF Linked
  <2>2. QED
    BY SMTT(60), <1>1, <1>9, <1>10, <2>1, LinkedIs
<1>14. QED
  BY SMTT(60), <1>2, <1>7, <1>9, <1>10, <1>12, <1>13 DEF i0

LEMMA SweptBucket ==
  ASSUME TypeOK
  PROVE  Swept \in Bucket
BY SMTT(60), Numbers DEF TypeOK, Swept, Before, Bucket

(* After p entries of a chain the link of the sweep holds the next one. *)
LEMMA SweepTarget ==
  ASSUME TypeOK, ListInv, NEW p \in 0 .. Len(Chains[Swept]), At(p)
  PROVE  /\ Chains[Swept] \in Seq(Slot)
         /\ Target = IF p = Len(Chains[Swept]) THEN NULL ELSE Chains[Swept][p + 1]
         /\ \A x \in Slot : sweep.link = <<"entry", x>> <=> p > 0 /\ x = Chains[Swept][p]
         /\ sweep.link[1] = "bucket" <=> p = 0
         /\ p = 0 => sweep.link[2] = Swept
<1> DEFINE s == Chains[Swept]
<1>1. Swept \in Bucket /\ s \in Seq(Slot)
  BY SweptBucket, Chaining
<1>2. Path(Nexts(slab), s, buckets[Swept])
  BY <1>1, Zenon DEF ListInv, Lists
<1>3. /\ buckets[Swept] = IF s = <<>> THEN NULL ELSE s[1]
      /\ \A j \in 1 .. Len(s) : Nexts(slab)[s[j]] = IF j = Len(s) THEN NULL ELSE s[j + 1]
  BY <1>2, Zenon DEF Path
<1>4. sweep.link = IF p = 0 THEN <<"bucket", Swept>> ELSE <<"entry", s[p]>>
  BY Zenon DEF At
<1> HIDE DEF s
<1>5. \A x \in Slot : sweep.link = <<"entry", x>> <=> p > 0 /\ x = s[p]
  BY <1>4
<1>6. sweep.link[1] = "bucket" <=> p = 0
  BY <1>4
<1>7. p = 0 => sweep.link[2] = Swept
  BY <1>4
<1>8. Target = IF p = Len(s) THEN NULL ELSE s[p + 1]
  <2>1. CASE p = 0
    <3>1. Target = buckets[Swept]
      BY <1>6, <1>7, <2>1 DEF Target
    <3>2. s = <<>> <=> Len(s) = 0
      BY <1>1
    <3>3. QED
      BY SMTT(60), <1>3, <2>1, <3>1, <3>2
  <2>2. CASE p # 0
    <3>1. p \in 1 .. Len(s) /\ s[p] \in Slot
      BY <1>1, <2>2 DEF s
    <3>2. Target = slab[s[p]].next
      BY SMTT(60), <1>4, <1>6, <2>2 DEF Target
    <3>3. Nexts(slab)[s[p]] = slab[s[p]].next
      BY <3>1 DEF Nexts
    <3>4. QED
      BY SMTT(60), <1>3, <3>1, <3>2, <3>3
  <2>3. QED
    BY <2>1, <2>2
<1>9. QED
  BY SMTT(60), <1>1, <1>5, <1>6, <1>7, <1>8 DEF s

LEMMA EvictStep ==
  ASSUME TypeOK, ListInv, NEW p \in 0 .. Len(Chains[Swept]), At(p), ReapEvict
  PROVE  /\ ListInv'
         /\ Target \in Chained(Swept)
         /\ \A i \in Bucket : Chained(i)' = Chained(i) \ {Target}
         /\ Linked' = Linked \ {Target}
         /\ p \in 0 .. Len(Chains'[Swept])
         /\ \A j \in 1 .. p : Chains'[Swept][j] = Chains[Swept][j]
<1> DEFINE s == Chains[Swept]
           q == p + 1
           t == Without(s, q)
           c == [Chains EXCEPT ![Swept] = t]
           nx == Nexts(slab)
<1>1. /\ s \in Seq(Slot) /\ Len(s) \in Nat
      /\ Target = IF p = Len(s) THEN NULL ELSE s[q]
      /\ \A x \in Slot : sweep.link = <<"entry", x>> <=> p > 0 /\ x = s[p]
      /\ sweep.link[1] = "bucket" <=> p = 0
      /\ p = 0 => sweep.link[2] = Swept
  BY SweepTarget
<1>2. Swept \in Bucket /\ Chains \in [Bucket -> Seq(Slot)]
  BY SweptBucket, Chaining
<1>3. q \in 1 .. Len(s) /\ Target = s[q] /\ s[q] \in Slot /\ q - 1 = p
  BY <1>1 DEF ReapEvict
<1>4. /\ slab' = [x \in Slot |->
                   IF x = s[q] THEN [slab[s[q]] EXCEPT !.next = free_list]
                   ELSE IF sweep.link = <<"entry", x>> THEN [slab[x] EXCEPT !.next = slab[s[q]].next]
                   ELSE slab[x]]
      /\ buckets' = IF sweep.link[1] = "bucket"
                    THEN [buckets EXCEPT ![sweep.link[2]] = slab[s[q]].next] ELSE buckets
      /\ free_list' = s[q]
  BY <1>3, Zenon DEF ReapEvict, Unlink
<1>5. slab \in [Slot -> [key : Flow \cup {NULL}, backend_id : BackendId \cup {NULL},
                         last_seen : 0 .. MaxNow, next : Slot \cup {NULL}]]
  BY DEF TypeOK
<1>6. Nexts(slab') = Unlinked(nx, s, q, free_list)
  <2>1. ASSUME NEW x \in Slot
        PROVE  slab'[x].next = IF x = s[q] THEN free_list
                               ELSE IF q > 1 /\ x = s[q - 1] THEN nx[s[q]] ELSE nx[x]
    <3>1. slab'[x] = IF x = s[q] THEN [slab[s[q]] EXCEPT !.next = free_list]
                     ELSE IF p > 0 /\ x = s[p] THEN [slab[x] EXCEPT !.next = slab[s[q]].next]
                     ELSE slab[x]
      BY <1>1, <1>4, Zenon
    <3>2. /\ [slab[x] EXCEPT !.next = free_list].next = free_list
          /\ [slab[x] EXCEPT !.next = slab[s[q]].next].next = slab[s[q]].next
      BY <1>5
    <3>3. nx[x] = slab[x].next /\ nx[s[q]] = slab[s[q]].next
      BY <1>3 DEF Nexts
    <3>4. QED
      BY <1>3, <3>1, <3>2, <3>3
  <2>2. QED
    BY <2>1, Zenon DEF Nexts, Unlinked
<1>7. buckets' = IF q = 1 THEN [buckets EXCEPT ![Swept] = nx[s[1]]] ELSE buckets
  <2>1. nx[s[q]] = slab[s[q]].next
    BY <1>3 DEF Nexts
  <2>2. CASE p = 0
    <3>1. q = 1 /\ sweep.link[1] = "bucket" /\ sweep.link[2] = Swept
      BY <1>1, <2>2
    <3>2. buckets' = [buckets EXCEPT ![Swept] = nx[s[q]]]
      BY <1>4, <2>1, <3>1, Zenon
    <3>3. QED
      BY Zenon, <3>1, <3>2
  <2>3. CASE p # 0
    <3>1. q # 1 /\ sweep.link[1] # "bucket"
      BY <1>1, <2>3
    <3>2. QED
      BY <1>4, <3>1
  <2>4. QED
    BY <2>2, <2>3
<1>8. Lists(nx, buckets, free_list, Free, Chains)
  BY DEF ListInv
<1>9. Lists(Nexts(slab'), buckets', free_list', <<s[q]>> \o Free, c)
  <2>1. Lists(Unlinked(nx, s, q, free_list),
              IF q = 1 THEN [buckets EXCEPT ![Swept] = nx[s[1]]] ELSE buckets,
              s[q], <<s[q]>> \o Free, [Chains EXCEPT ![Swept] = Without(s, q)])
    <3> HIDE DEF q, nx
    <3>1. QED
      BY <1>2, <1>3, <1>8, EvictLists, Zenon
  <2>2. QED
    BY <1>4, <1>6, <1>7, <2>1, ZenonT(40)
<1>10. Chains' = c /\ ListInv' /\ \A i \in Bucket : Chained(i)' = Entries(c, i)
  <2> HIDE DEF c
  <2>1. QED
    BY <1>9, ListsAfter, Zenon
<1>11. /\ Len(t) = Len(s) - 1
       /\ \A k \in 1 .. Len(t) : t[k] = IF k < q THEN s[k] ELSE s[k + 1]
  BY <1>1, <1>3 DEF Without
<1>12. c[Swept] = t /\ \A i \in Bucket : i # Swept => c[i] = Chains[i]
  BY <1>2
<1>13. \A i \in Bucket : Chained(i) = Entries(Chains, i)
  BY Chaining
<1>14. \A j, k \in 1 .. Len(s) : s[j] = s[k] => j = k
  <2>1. \A l, m \in Bucket : \A j \in 1 .. Len(Chains[l]), k \in 1 .. Len(Chains[m]) :
          Chains[l][j] = Chains[m][k] => l = m /\ j = k
    BY Zenon DEF ListInv, Lists, Shared
  <2>2. QED
    BY <1>2, <2>1
<1>15. {t[k] : k \in 1 .. Len(t)} = {s[k] : k \in 1 .. Len(s)} \ {s[q]}
  <2>1. ASSUME NEW k \in 1 .. Len(t)
        PROVE  \E m \in 1 .. Len(s) : t[k] = s[m] /\ s[m] # s[q]
    <3> DEFINE m == IF k < q THEN k ELSE k + 1
    <3>1. m \in 1 .. Len(s) /\ m # q /\ t[k] = s[m]
      BY SMTT(60), <1>1, <1>3, <1>11
    <3>2. s[m] # s[q]
      BY <1>3, <1>14, <3>1
    <3> HIDE DEF m
    <3>3. QED
      BY <3>1, <3>2, ZenonT(60)
  <2>2. ASSUME NEW m \in 1 .. Len(s), s[m] # s[q]
        PROVE  \E k \in 1 .. Len(t) : t[k] = s[m]
    <3> DEFINE k == IF m < q THEN m ELSE m - 1
    <3>1. m # q
      BY ZenonT(60), <2>2
    <3>2. k \in 1 .. Len(t) /\ (IF k < q THEN k ELSE k + 1) = m
      BY SMTT(60), <1>1, <1>3, <1>11, <3>1
    <3>3. t[k] = s[m]
      BY <1>11, <3>2
    <3> HIDE DEF k
    <3>4. QED
      BY <3>2, <3>3, Zenon
  <2> HIDE DEF s, t, q
  <2>3. \A k \in 1 .. Len(t) : t[k] \in {s[m] : m \in 1 .. Len(s)} \ {s[q]}
    BY <2>1, Zenon
  <2>4. \A m \in 1 .. Len(s) : s[m] # s[q] => s[m] \in {t[k] : k \in 1 .. Len(t)}
    BY <2>2, Zenon
  <2>5. QED
    BY ZenonT(60), <2>3, <2>4
<1>16. Target \in Chained(Swept)
  <2> HIDE DEF q
  <2>1. QED
    BY <1>2, <1>3, <1>13, Zenon DEF Entries
<1>17. \A i, l \in Bucket : \A e : e \in Chained(i) /\ e \in Chained(l) => i = l
  BY Chaining
<1>18. ASSUME NEW i \in Bucket PROVE Chained(i)' = Chained(i) \ {Target}
  <2>1. Chained(i)' = Entries(c, i) /\ Chained(i) = Entries(Chains, i)
    BY Zenon, <1>10, <1>13
  <2>2. CASE i = Swept
    <3> HIDE DEF s, t, q, c
    <3>1. Entries(c, i) = {t[k] : k \in 1 .. Len(t)}
      BY <1>12, <2>2, Zenon DEF Entries
    <3>2. Entries(Chains, i) = {s[k] : k \in 1 .. Len(s)}
      BY <2>2, Zenon DEF Entries, s
    <3>3. QED
      BY <1>3, <1>15, <2>1, <3>1, <3>2, ZenonT(60)
  <2>3. CASE i # Swept
    <3>1. Target \notin Chained(i)
      BY <1>2, <1>16, <1>17, <2>3, ZenonT(40)
    <3>2. Entries(c, i) = Entries(Chains, i)
      <4> HIDE DEF c
      <4>1. QED
        BY <1>12, <2>3, Zenon DEF Entries
    <3>3. QED
      BY <2>1, <3>1, <3>2, Zenon
  <2>4. QED
    BY <2>2, <2>3
<1>19. Linked' = Linked \ {Target}
  <2>1. \A e : e \in Linked' <=> \E i \in Bucket : e \in Chained(i)'
    BY Zenon DEF Linked
  <2>2. QED
    BY <1>18, <2>1, LinkedIs, ZenonT(60)
<1>20. /\ p \in 0 .. Len(Chains'[Swept])
       /\ \A j \in 1 .. p : Chains'[Swept][j] = Chains[Swept][j]
  <2>1. Chains'[Swept] = t
    BY <1>10, <1>12, Zenon
  <2> HIDE DEF t
  <2>2. QED
    BY <1>1, <1>3, <1>11, <2>1
<1>21. QED
  BY ZenonT(60), <1>10, <1>16, <1>18, <1>19, <1>20

LEMMA SlabType ==
  ASSUME TypeOK
  PROVE  /\ slab \in [Slot -> [key : Flow \cup {NULL}, backend_id : BackendId \cup {NULL},
                               last_seen : 0 .. MaxNow, next : Slot \cup {NULL}]]
         /\ overdue \in [Slot -> Nat] /\ now \in 0 .. MaxNow
BY DEF TypeOK

(* A hit refreshes an entry of the flow. *)
LEMMA LookupStep ==
  ASSUME TypeOK, ListInv, NEW k \in Flow, conntrack_lookup(k)
  PROVE  \E e \in Chained(BucketOf(k)) :
           /\ slab[e].key = k
           /\ slab' = [slab EXCEPT ![e].last_seen = now]
           /\ overdue' = [overdue EXCEPT ![e] = 0]
<1> DEFINE i0 == BucketOf(k)
           s == Chain(buckets[i0])
<1>1. i0 \in Bucket
  BY Numbers
<1>2. s = Chains[i0] /\ s \in Seq(Slot) /\ Chained(i0) = {s[j] : j \in 1 .. Len(s)}
  <2>1. s = Chains[i0]
    BY <1>1 DEF Chains
  <2>2. QED
    BY <1>1, <2>1, Chaining DEF Entries
<1>3. PICK i \in DOMAIN s :
        /\ slab[s[i]].key = k
        /\ slab' = [slab EXCEPT ![s[i]].last_seen = now]
        /\ overdue' = [overdue EXCEPT ![s[i]] = 0]
  BY Zenon DEF conntrack_lookup
<1> HIDE DEF s
<1>4. s[i] \in Chained(i0)
  BY <1>2
<1>5. QED
  BY <1>3, <1>4, Zenon DEF i0

-----------------------------------------------------------------------------
(* The count-down to the cursor, for every kind of step of a sweep. *)
LEMMA StartInTime ==
  ASSUME TypeOK, ReapStart, NEW i \in Bucket, NEW o \in Nat, o = 0 \/ InTime(sweep, sweep_cursor, i, o)
  PROVE  InTime(sweep', sweep_cursor', i, o + 1)
<1>1. /\ sweep.pc = "idle" /\ sweep'.pc = "bucket" /\ sweep'.n = 0
      /\ sweep_cursor' = sweep_cursor /\ sweep_cursor \in 0 .. bucket_count - 1
      /\ i \in 0 .. bucket_count - 1 /\ bucket_count \in Nat \ {0} /\ buckets_to_scan \in Nat \ {0}
  BY Numbers DEF ReapStart, TypeOK, Bucket
<1>2. (o + 1) - 1 = o /\ o * buckets_to_scan \in Nat /\ (o = 0 => o * buckets_to_scan = 0)
  BY <1>1
<1>3. Ahead(sweep_cursor, i) \in 0 .. bucket_count - 1 /\ Ahead(sweep_cursor', i) = Ahead(sweep_cursor, i)
  BY <1>1 DEF Ahead
<1>4. o * buckets_to_scan + Ahead(sweep_cursor, i) < bucket_count
  BY <1>1, <1>2, <1>3 DEF InTime
<1>5. QED
  BY SMTT(60), <1>1, <1>2, <1>3, <1>4 DEF InTime

LEMMA BucketInTime ==
  ASSUME TypeOK, ReapBucket, NEW i \in Bucket, NEW o \in Nat, InTime(sweep, sweep_cursor, i, o)
  PROVE  InTime(sweep', sweep_cursor', i, o)
<1> DEFINE w == (o - 1) * buckets_to_scan
<1>1. /\ sweep.pc = "bucket" /\ sweep'.pc = "link" /\ sweep'.n = sweep.n + 1 /\ sweep.n \in Nat
      /\ sweep_cursor' = (sweep_cursor + 1) % bucket_count /\ sweep_cursor \in 0 .. bucket_count - 1
      /\ i \in 0 .. bucket_count - 1 /\ bucket_count \in Nat \ {0} /\ buckets_to_scan \in Nat \ {0}
  BY Numbers DEF ReapBucket, TypeOK, Bucket
<1>2. sweep_cursor' = IF sweep_cursor + 1 = bucket_count THEN 0 ELSE sweep_cursor + 1
  BY <1>1
<1>3. w \in Int /\ w + sweep.n + Ahead(sweep_cursor, i) < bucket_count
  BY <1>1 DEF InTime
<1>4. Swept' = sweep_cursor
  BY <1>1, <1>2 DEF Swept, Before
<1> HIDE DEF w
<1>5. IF i = Swept' THEN w + sweep'.n <= bucket_count ELSE w + sweep'.n + Ahead(sweep_cursor', i) < bucket_count
  BY SMTT(60), <1>1, <1>2, <1>3, <1>4 DEF Ahead
<1>6. QED
  BY <1>1, <1>5 DEF InTime, Swept, w

LEMMA DoneInTime ==
  ASSUME TypeOK, ReapDone, NEW i \in Bucket, NEW o \in Nat, InTime(sweep, sweep_cursor, i, o)
  PROVE  InTime(sweep', sweep_cursor', i, o)
<1>1. /\ sweep.pc = "bucket" /\ sweep'.pc = "idle" /\ sweep.n = buckets_to_scan
      /\ sweep_cursor' = sweep_cursor /\ sweep_cursor \in 0 .. bucket_count - 1
      /\ i \in 0 .. bucket_count - 1 /\ bucket_count \in Nat \ {0} /\ buckets_to_scan \in Nat \ {0}
  BY Numbers DEF ReapDone, TypeOK, Bucket, Idle
<1>2. Ahead(sweep_cursor, i) \in 0 .. bucket_count - 1 /\ Ahead(sweep_cursor', i) = Ahead(sweep_cursor, i)
  BY <1>1 DEF Ahead
<1>3. (o - 1) * buckets_to_scan + buckets_to_scan = o * buckets_to_scan /\ o * buckets_to_scan \in Nat
  BY <1>1
<1>4. (o - 1) * buckets_to_scan + buckets_to_scan + Ahead(sweep_cursor, i) < bucket_count
  BY <1>1 DEF InTime
<1>5. o * buckets_to_scan + Ahead(sweep_cursor, i) < bucket_count
  BY <1>2, <1>3, <1>4
<1>6. QED
  BY ZenonT(60), <1>1, <1>2, <1>5 DEF InTime

LEMMA ChainEndInTime ==
  ASSUME ReapChainEnd, TypeOK, NEW i \in Bucket, i # Swept, NEW o, InTime(sweep, sweep_cursor, i, o)
  PROVE  InTime(sweep', sweep_cursor', i, o)
BY DEF ReapChainEnd, TypeOK, InTime, Ahead, Swept

LEMMA Division ==
  ASSUME NEW x \in Nat, NEW k \in Nat \ {0}
  PROVE  x \div k \in Nat /\ x % k \in 0 .. k - 1 /\ x = k * (x \div k) + (x % k)
OBVIOUS

LEMMA InTimeOnTime ==
  ASSUME TypeOK, SweepInv, NEW i \in Bucket, NEW o \in Nat, o > 0, InTime(sweep, sweep_cursor, i, o)
  PROVE  o <= TurnTicks
<1> DEFINE K == buckets_to_scan
           N == bucket_count
           T == TurnTicks
<1>1. K \in Nat \ {0} /\ N \in Nat \ {0} /\ i \in 0 .. N - 1 /\ sweep_cursor \in 0 .. N - 1
  BY Numbers DEF TypeOK, Bucket
<1>2. Ahead(sweep_cursor, i) \in Nat /\ sweep.n \in Nat
  BY <1>1 DEF Ahead, TypeOK
<1>3. (o - 1) * K < N
  <2>1. o * K = (o - 1) * K + K /\ (o - 1) * K \in Nat
    BY <1>1
  <2>2. CASE sweep.pc = "idle"
    <3>1. o * K + Ahead(sweep_cursor, i) < N
      BY <2>2 DEF InTime
    <3>2. QED
      BY <1>1, <1>2, <2>1, <3>1
  <2>3. CASE sweep.pc = "link" /\ i = Swept
    <3>1. (o - 1) * K + sweep.n <= N /\ sweep.n > 0
      BY <2>3 DEF InTime, Swept, SweepInv
    <3>2. QED
      BY SMTT(60), <1>1, <1>2, <2>1, <3>1
  <2>4. CASE sweep.pc # "idle" /\ ~(sweep.pc = "link" /\ i = Swept)
    <3>1. (o - 1) * K + sweep.n + Ahead(sweep_cursor, i) < N
      BY <2>4 DEF InTime, Swept
    <3>2. QED
      BY SMTT(60), <1>1, <1>2, <2>1, <3>1
  <2>5. QED
    BY <2>2, <2>3, <2>4
<1>4. T \in Nat /\ T * K >= N
  <2> DEFINE x == N + K - 1
  <2>1. x \in Nat /\ T = x \div K
    BY <1>1 DEF TurnTicks
  <2>2. x \div K \in Nat /\ x = K * (x \div K) + (x % K) /\ x % K \in 0 .. K - 1
    <3> HIDE DEF x, K
    <3>1. QED
      BY Zenon, <1>1, <2>1, Division
  <2> HIDE DEF x, K, N, T
  <2>3. K * T = T * K /\ T * K \in Nat
    BY <1>1, <2>1, <2>2
  <2>4. x = T * K + (x % K)
    BY <2>1, <2>2, <2>3
  <2>5. QED
    BY SMTT(60), <1>1, <2>1, <2>2, <2>3, <2>4 DEF x
<1> HIDE DEF K, N, T
<1>5. SUFFICES ASSUME o > T PROVE FALSE
  BY <1>4 DEF T
<1>6. (o - 1 - T) * K \in Nat
  BY <1>1, <1>4, <1>5
<1>7. (o - 1) * K = T * K + (o - 1 - T) * K
  BY <1>1, <1>4
<1>8. QED
  BY SMTT(60), <1>1, <1>3, <1>4, <1>6, <1>7

-----------------------------------------------------------------------------
(* The steps that move no entry. *)
LEMMA QuietStep ==
  ASSUME Inv, UNCHANGED <<buckets, slab, free_list, active>>
  PROVE  /\ ListInv' /\ EntryInv' /\ ActiveIsLinked'
         /\ Chains' = Chains /\ Linked' = Linked
         /\ \A i \in Bucket : Chained(i)' = Chained(i)
<1>1. /\ ListInv' /\ Chains' = Chains /\ Linked' = Linked
      /\ \A i \in Bucket : Chained(i)' = Chained(i)
  BY SameLists, Zenon DEF Inv
<1>2. EntryInv'
  BY <1>1, Zenon DEF Inv, EntryInv
<1>3. ActiveIsLinked'
  BY <1>1, Zenon DEF Inv, ActiveIsLinked
<1>4. QED
  BY <1>1, <1>2, <1>3

LEMMA LateLater ==
  ASSUME TypeOK, EntryInv, NEW e \in Slot, e \in Linked, NEW t \in Int, NEW u \in Int, t <= u,
         Late(slab, e, t)
  PROVE  Late(slab, e, u)
<1>1. slab[e].key \in Flow /\ slab[e].last_seen \in 0 .. MaxNow
  BY SMTT(60), LinkedIs, SlabType DEF EntryInv
<1>2. Timeout[slab[e].key] \in Nat /\ slab[e].last_seen \in Int
  BY <1>1, ConntrackAssumption
<1>3. QED
  BY <1>2 DEF Late

LEMMA AdvanceInv ==
  ASSUME Inv, Advance
  PROVE  Inv'
<1>1. /\ ListInv' /\ EntryInv' /\ ActiveIsLinked'
      /\ Chains' = Chains /\ Linked' = Linked
      /\ \A i \in Bucket : Chained(i)' = Chained(i)
  BY QuietStep, Zenon DEF Advance
<1>2. TypeOK /\ EntryInv /\ SweepInv /\ OverdueInv
  BY DEF Inv
<1>3. /\ sweep' = sweep /\ sweep_cursor' = sweep_cursor /\ overdue' = overdue
      /\ now' = now + 1 /\ now < MaxNow /\ MaxNow \in Nat
      /\ now \in 0 .. MaxNow /\ sweep.now \in 0 .. MaxNow
  BY ZenonT(60), <1>2, ConntrackAssumption DEF Advance, TypeOK
<1>4. TypeOK'
  BY <1>2, <1>3 DEF TypeOK, Advance
<1>5. SweepInv'
  <2>1. sweep'.now <= now'
    BY <1>2, <1>3 DEF SweepInv
  <2>2. Swept' = Swept
    BY <1>3 DEF Swept
  <2>3. \A p : At(p)' <=> At(p)
    BY <1>1, <1>3, <2>2, Zenon DEF At
  <2>4. QED
    BY <1>1, <1>2, <1>3, <2>1, <2>2, <2>3, ZenonT(60) DEF SweepInv
<1>6. OverdueInv'
  <2> SUFFICES ASSUME NEW e \in Slot, overdue[e] > 0
               PROVE  /\ e \in Linked' /\ Late(slab', e, SweepTime')
                      /\ \A i \in Bucket : e \in Chained(i)' => InTime(sweep', sweep_cursor', i, overdue[e])
    BY <1>3 DEF OverdueInv
  <2>1. /\ e \in Linked /\ Late(slab, e, SweepTime)
        /\ \A i \in Bucket : e \in Chained(i) => InTime(sweep, sweep_cursor, i, overdue[e])
    BY <1>2 DEF OverdueInv
  <2>2. SweepTime \in Int /\ SweepTime' \in Int /\ SweepTime <= SweepTime'
    BY <1>3 DEF SweepTime
  <2>3. Late(slab, e, SweepTime')
    BY <1>2, <2>1, <2>2, LateLater, ZenonT(60)
  <2>4. \A i \in Bucket : InTime(sweep', sweep_cursor', i, overdue[e]) <=> InTime(sweep, sweep_cursor, i, overdue[e])
    BY <1>3 DEF InTime, Ahead, Before, Swept
  <2>5. slab' = slab
    BY DEF Advance
  <2>6. QED
    BY <1>1, <2>1, <2>3, <2>4, <2>5, ZenonT(60)
<1>7. QED
  BY <1>1, <1>4, <1>5, <1>6 DEF Inv

LEMMA StartInv ==
  ASSUME Inv, ReapStart
  PROVE  Inv'
<1>1. /\ ListInv' /\ EntryInv' /\ ActiveIsLinked'
      /\ Chains' = Chains /\ Linked' = Linked
      /\ \A i \in Bucket : Chained(i)' = Chained(i)
  BY QuietStep, Zenon DEF ReapStart
<1>2. TypeOK /\ ListInv /\ EntryInv /\ SweepInv /\ OverdueInv
  BY DEF Inv
<1>3. /\ sweep.pc = "idle" /\ now' = now /\ slab' = slab /\ sweep_cursor' = sweep_cursor
      /\ sweep' = [pc |-> "bucket", n |-> 0, link |-> <<"bucket", 0>>, now |-> now]
      /\ now \in 0 .. MaxNow /\ overdue \in [Slot -> Nat]
  BY <1>2, SlabType DEF ReapStart
<1>4. \A e \in Slot : /\ overdue'[e] = IF e \in Linked /\ Expired(e, now) /\ overdue[e] <= TurnTicks
                                       THEN overdue[e] + 1 ELSE overdue[e]
                      /\ overdue'[e] \in Nat
  BY SMTT(60), <1>3 DEF ReapStart
<1>5. TypeOK'
  <2>1. overdue' \in [Slot -> Nat]
    BY ZenonT(60), <1>3, <1>4 DEF ReapStart
  <2>2. sweep' \in [pc : {"idle", "bucket", "link"}, n : 0 .. buckets_to_scan,
                    link : ({"bucket"} \X Bucket) \cup ({"entry"} \X Slot), now : 0 .. MaxNow]
    BY SMTT(60), <1>3, Numbers DEF Bucket
  <2>3. QED
    BY ZenonT(60), <1>2, <2>1, <2>2 DEF TypeOK, ReapStart
<1>6. SweepInv'
  BY SMTT(60), <1>3, ConntrackAssumption DEF SweepInv
<1>7. OverdueInv'
  <2> SUFFICES ASSUME NEW e \in Slot, overdue'[e] > 0
               PROVE  /\ e \in Linked' /\ Late(slab', e, SweepTime')
                      /\ \A i \in Bucket : e \in Chained(i)' =>
                           InTime(sweep', sweep_cursor', i, overdue'[e])
    BY DEF OverdueInv
  <2>1. SweepTime' = now /\ SweepTime = now
    BY ZenonT(60), <1>3 DEF SweepTime
  <2>2. overdue[e] > 0 => /\ e \in Linked /\ Late(slab, e, now)
                          /\ \A i \in Bucket : e \in Chained(i) =>
                               InTime(sweep, sweep_cursor, i, overdue[e])
    BY ZenonT(60), <1>2, <2>1 DEF OverdueInv
  <2>3. Expired(e, now) <=> Late(slab, e, now)
    BY DEF Expired, Late
  <2>4. overdue[e] \in Nat
    BY ZenonT(60), <1>3
  <2>5. e \in Linked /\ Late(slab, e, now)
    BY <1>4, <2>2, <2>3, <2>4
  <2>6. PICK l \in Bucket : e \in Chained(l)
    BY SMTT(60), <2>5, LinkedIs
  <2>7. overdue[e] > 0 => overdue[e] <= TurnTicks
    BY SMTT(60), <1>2, <2>2, <2>4, <2>6, InTimeOnTime
  <2>8. TurnTicks >= 0
    <3>1. bucket_count + buckets_to_scan - 1 \in Nat /\ buckets_to_scan \in Nat \ {0}
      BY Numbers
    <3>2. TurnTicks \in Nat
      BY SMTT(60), <3>1, Division DEF TurnTicks
    <3>3. QED
      BY <3>2
  <2>9. overdue'[e] = overdue[e] + 1
    BY ZenonT(60), <1>4, <2>3, <2>4, <2>5, <2>7, <2>8
  <2>10. ASSUME NEW i \in Bucket, e \in Chained(i)
         PROVE  InTime(sweep', sweep_cursor', i, overdue[e] + 1)
    <3>1. overdue[e] = 0 \/ InTime(sweep, sweep_cursor, i, overdue[e])
      BY SMTT(60), <2>2, <2>4, <2>10
    <3>2. QED
      BY ZenonT(60), <1>2, <2>4, <3>1, StartInTime
  <2>11. QED
    BY ZenonT(60), <1>1, <1>3, <2>1, <2>5, <2>9, <2>10
<1>8. QED
  BY <1>1, <1>5, <1>6, <1>7 DEF Inv

LEMMA BucketInv ==
  ASSUME Inv, ReapBucket
  PROVE  Inv'
<1>1. /\ ListInv' /\ EntryInv' /\ ActiveIsLinked'
      /\ Chains' = Chains /\ Linked' = Linked
      /\ \A i \in Bucket : Chained(i)' = Chained(i)
  BY QuietStep, Zenon DEF ReapBucket
<1>2. TypeOK /\ ListInv /\ EntryInv /\ SweepInv /\ OverdueInv
  BY DEF Inv
<1>3. /\ sweep.pc = "bucket" /\ now' = now /\ slab' = slab /\ overdue' = overdue
      /\ sweep' = [sweep EXCEPT !.pc = "link", !.n = @ + 1, !.link = <<"bucket", sweep_cursor>>]
      /\ sweep.n < buckets_to_scan
      /\ sweep_cursor' = (sweep_cursor + 1) % bucket_count
  BY DEF ReapBucket
<1>4. /\ sweep \in [pc : {"idle", "bucket", "link"}, n : 0 .. buckets_to_scan,
                    link : ({"bucket"} \X Bucket) \cup ({"entry"} \X Slot), now : 0 .. MaxNow]
      /\ sweep_cursor \in Bucket /\ sweep_cursor \in 0 .. bucket_count - 1
      /\ bucket_count \in Nat \ {0} /\ buckets_to_scan \in Nat \ {0}
  BY <1>2, Numbers DEF TypeOK
<1>5. sweep_cursor' = IF sweep_cursor + 1 = bucket_count THEN 0 ELSE sweep_cursor + 1
  BY <1>3, <1>4
<1>6. /\ sweep'.pc = "link" /\ sweep'.n = sweep.n + 1 /\ sweep'.now = sweep.now
      /\ sweep'.link = <<"bucket", sweep_cursor>>
  BY <1>3, <1>4
<1>7. TypeOK'
  <2>1. sweep_cursor' \in Bucket
    BY SMTT(60), <1>4, <1>5 DEF Bucket
  <2>2. sweep' \in [pc : {"idle", "bucket", "link"}, n : 0 .. buckets_to_scan,
                    link : ({"bucket"} \X Bucket) \cup ({"entry"} \X Slot), now : 0 .. MaxNow]
    <3>1. sweep' = [pc |-> "link", n |-> sweep.n + 1, link |-> <<"bucket", sweep_cursor>>,
                    now |-> sweep.now]
      BY Zenon, <1>3, <1>4
    <3>2. /\ sweep.n + 1 \in 0 .. buckets_to_scan /\ sweep.now \in 0 .. MaxNow
          /\ <<"bucket", sweep_cursor>> \in {"bucket"} \X Bucket
      BY <1>3, <1>4
    <3>3. QED
      BY <3>1, <3>2
  <2>3. QED
    BY ZenonT(60), <1>2, <2>1, <2>2 DEF TypeOK, ReapBucket
<1>8. SweepInv'
  <2>1. Swept' = sweep_cursor
    BY <1>4, <1>5 DEF Swept, Before
  <2>2. At(0)'
    BY <1>6, <2>1 DEF At
  <2>3. 0 \in 0 .. Len(Chains'[Swept'])
    <3>1. Chains'[Swept'] \in Seq(Slot)
      BY ZenonT(60), <1>1, <1>2, <1>4, <2>1, Chaining
    <3>2. QED
      BY <3>1
  <2>4. sweep'.n > 0 /\ sweep'.now <= now'
    BY <1>2, <1>3, <1>4, <1>6 DEF SweepInv
  <2>5. QED
    BY SMTT(60), <2>2, <2>3, <2>4 DEF SweepInv
<1>9. OverdueInv'
  <2> SUFFICES ASSUME NEW e \in Slot, overdue[e] > 0
               PROVE  /\ e \in Linked' /\ Late(slab', e, SweepTime')
                      /\ \A i \in Bucket : e \in Chained(i)' =>
                           InTime(sweep', sweep_cursor', i, overdue[e])
    BY <1>3 DEF OverdueInv
  <2>1. SweepTime' = SweepTime
    BY <1>3, <1>6 DEF SweepTime
  <2>2. /\ e \in Linked /\ Late(slab, e, SweepTime)
        /\ \A i \in Bucket : e \in Chained(i) => InTime(sweep, sweep_cursor, i, overdue[e])
    BY <1>2 DEF OverdueInv
  <2>3. overdue[e] \in Nat
    BY <1>2, SlabType
  <2>4. \A i \in Bucket : e \in Chained(i) => InTime(sweep', sweep_cursor', i, overdue[e])
    BY ZenonT(60), <1>2, <2>2, <2>3, BucketInTime
  <2>5. QED
    BY <1>1, <1>3, <2>1, <2>2, <2>4, ZenonT(60)
<1>10. QED
  BY <1>1, <1>7, <1>8, <1>9 DEF Inv

LEMMA DoneInv ==
  ASSUME Inv, ReapDone
  PROVE  Inv'
<1>1. /\ ListInv' /\ EntryInv' /\ ActiveIsLinked'
      /\ Chains' = Chains /\ Linked' = Linked
      /\ \A i \in Bucket : Chained(i)' = Chained(i)
  BY QuietStep, ZenonT(60) DEF ReapDone
<1>2. TypeOK /\ ListInv /\ EntryInv /\ SweepInv /\ OverdueInv
  BY DEF Inv
<1>3. /\ sweep.pc = "bucket" /\ now' = now /\ slab' = slab /\ overdue' = overdue
      /\ sweep' = Idle /\ sweep_cursor' = sweep_cursor
      /\ now \in 0 .. MaxNow /\ sweep.now \in 0 .. MaxNow
  BY <1>2 DEF ReapDone, TypeOK
<1>4. TypeOK'
  <2>1. Idle \in [pc : {"idle", "bucket", "link"}, n : 0 .. buckets_to_scan,
                  link : ({"bucket"} \X Bucket) \cup ({"entry"} \X Slot), now : 0 .. MaxNow]
    BY SMTT(60), Numbers, ConntrackAssumption DEF Idle, Bucket
  <2>2. QED
    BY ZenonT(60), <1>2, <1>3, <2>1 DEF TypeOK, ReapDone
<1>5. SweepInv'
  BY <1>3, ConntrackAssumption DEF SweepInv, Idle
<1>6. OverdueInv'
  <2> SUFFICES ASSUME NEW e \in Slot, overdue[e] > 0
               PROVE  /\ e \in Linked' /\ Late(slab', e, SweepTime')
                      /\ \A i \in Bucket : e \in Chained(i)' =>
                           InTime(sweep', sweep_cursor', i, overdue[e])
    BY <1>3 DEF OverdueInv
  <2>1. /\ e \in Linked /\ Late(slab, e, SweepTime)
        /\ \A i \in Bucket : e \in Chained(i) => InTime(sweep, sweep_cursor, i, overdue[e])
    BY <1>2 DEF OverdueInv
  <2>2. SweepTime \in Int /\ SweepTime' \in Int /\ SweepTime <= SweepTime'
    BY <1>2, <1>3 DEF SweepTime, SweepInv, Idle
  <2>3. Late(slab, e, SweepTime')
    BY <1>2, <2>1, <2>2, LateLater, ZenonT(60)
  <2>4. overdue[e] \in Nat
    BY <1>2, SlabType
  <2>5. \A i \in Bucket : e \in Chained(i) => InTime(sweep', sweep_cursor', i, overdue[e])
    BY <1>2, <2>1, <2>4, DoneInTime
  <2>6. QED
    BY <1>1, <1>3, <2>1, <2>3, <2>5, ZenonT(60)
<1>7. QED
  BY <1>1, <1>4, <1>5, <1>6 DEF Inv

LEMMA SkipInv ==
  ASSUME Inv, ReapSkip
  PROVE  Inv'
<1>1. /\ ListInv' /\ EntryInv' /\ ActiveIsLinked'
      /\ Chains' = Chains /\ Linked' = Linked
      /\ \A i \in Bucket : Chained(i)' = Chained(i)
  BY QuietStep, Zenon DEF ReapSkip
<1>2. TypeOK /\ ListInv /\ EntryInv /\ SweepInv /\ OverdueInv
  BY DEF Inv
<1>3. /\ sweep.pc = "link" /\ now' = now /\ slab' = slab /\ overdue' = overdue
      /\ sweep' = [sweep EXCEPT !.link = <<"entry", Target>>] /\ sweep_cursor' = sweep_cursor
  BY DEF ReapSkip
<1>4. sweep \in [pc : {"idle", "bucket", "link"}, n : 0 .. buckets_to_scan,
                 link : ({"bucket"} \X Bucket) \cup ({"entry"} \X Slot), now : 0 .. MaxNow]
  BY <1>2 DEF TypeOK
<1>5. /\ sweep'.pc = "link" /\ sweep'.n = sweep.n /\ sweep'.now = sweep.now
      /\ sweep'.link = <<"entry", Target>>
  BY <1>3, <1>4
<1>6. PICK p \in 0 .. Len(Chains[Swept]) : At(p)
  BY SMTT(60), <1>2, <1>3 DEF SweepInv
<1> DEFINE s == Chains[Swept]
<1>7. s \in Seq(Slot) /\ Len(s) \in Nat /\ Target = IF p = Len(s) THEN NULL ELSE s[p + 1]
  BY <1>2, <1>6, SweepTarget
<1>8. p + 1 \in 1 .. Len(s) /\ Target = s[p + 1] /\ Target \in Slot
  BY <1>7 DEF ReapSkip
<1>9. TypeOK'
  <2>1. sweep' = [pc |-> sweep.pc, n |-> sweep.n, link |-> <<"entry", Target>>, now |-> sweep.now]
    BY ZenonT(60), <1>3, <1>4
  <2>2. sweep' \in [pc : {"idle", "bucket", "link"}, n : 0 .. buckets_to_scan,
                    link : ({"bucket"} \X Bucket) \cup ({"entry"} \X Slot), now : 0 .. MaxNow]
    BY <1>4, <1>8, <2>1
  <2>3. QED
    BY SMTT(60), <1>2, <2>2 DEF TypeOK, ReapSkip
<1>10. Swept' = Swept
  BY <1>3 DEF Swept
<1>11. SweepInv'
  <2>1. overdue[Target] = 0
    <3>1. ~Late(slab, Target, SweepTime)
      BY <1>3 DEF ReapSkip, Expired, Late, SweepTime
    <3>2. overdue[Target] \in Nat
      BY <1>2, <1>8, SlabType
    <3>3. QED
      BY <1>2, <1>8, <3>1, <3>2 DEF OverdueInv
  <2>2. \A j \in 1 .. p + 1 : overdue[s[j]] = 0
    <3>1. \A j \in 1 .. p : overdue[s[j]] = 0
      BY <1>6, Zenon DEF At
    <3>2. \A j \in 1 .. p + 1 : j \in 1 .. p \/ j = p + 1
      OBVIOUS
    <3>3. QED
      BY <1>8, <2>1, <3>1, <3>2, ZenonT(60)
  <2>3. At(p + 1)'
    <3>1. p + 1 # 0
      OBVIOUS
    <3>2. QED
      BY <1>1, <1>3, <1>5, <1>8, <1>10, <2>2, <3>1, ZenonT(60) DEF At
  <2>4. p + 1 \in 0 .. Len(Chains'[Swept'])
    BY SMTT(60), <1>1, <1>7, <1>8, <1>10
  <2>5. sweep'.n > 0 /\ sweep'.now <= now'
    BY <1>2, <1>3, <1>5 DEF SweepInv
  <2>6. QED
    BY SMTT(60), <2>3, <2>4, <2>5 DEF SweepInv
<1>12. OverdueInv'
  <2> SUFFICES ASSUME NEW e \in Slot, overdue[e] > 0
               PROVE  /\ e \in Linked' /\ Late(slab', e, SweepTime')
                      /\ \A i \in Bucket : e \in Chained(i)' =>
                           InTime(sweep', sweep_cursor', i, overdue[e])
    BY <1>3 DEF OverdueInv
  <2>1. SweepTime' = SweepTime
    BY SMTT(60), <1>3, <1>5 DEF SweepTime
  <2>2. /\ e \in Linked /\ Late(slab, e, SweepTime)
        /\ \A i \in Bucket : e \in Chained(i) => InTime(sweep, sweep_cursor, i, overdue[e])
    BY <1>2 DEF OverdueInv
  <2>3. \A i \in Bucket : InTime(sweep', sweep_cursor', i, overdue[e])
                          <=> InTime(sweep, sweep_cursor, i, overdue[e])
    BY ZenonT(60), <1>3, <1>5 DEF InTime
  <2>4. QED
    BY <1>1, <1>3, <2>1, <2>2, <2>3, ZenonT(60)
<1>13. QED
  BY <1>1, <1>9, <1>11, <1>12 DEF Inv

LEMMA ChainEndInv ==
  ASSUME Inv, ReapChainEnd
  PROVE  Inv'
<1>1. /\ ListInv' /\ EntryInv' /\ ActiveIsLinked'
      /\ Chains' = Chains /\ Linked' = Linked
      /\ \A i \in Bucket : Chained(i)' = Chained(i)
  BY QuietStep, Zenon DEF ReapChainEnd
<1>2. TypeOK /\ ListInv /\ EntryInv /\ SweepInv /\ OverdueInv
  BY DEF Inv
<1>3. /\ sweep.pc = "link" /\ now' = now /\ slab' = slab /\ overdue' = overdue
      /\ sweep' = [sweep EXCEPT !.pc = "bucket"] /\ sweep_cursor' = sweep_cursor
  BY DEF ReapChainEnd
<1>4. sweep \in [pc : {"idle", "bucket", "link"}, n : 0 .. buckets_to_scan,
                 link : ({"bucket"} \X Bucket) \cup ({"entry"} \X Slot), now : 0 .. MaxNow]
  BY <1>2 DEF TypeOK
<1>5. sweep'.pc = "bucket" /\ sweep'.n = sweep.n /\ sweep'.now = sweep.now
  BY <1>3, <1>4
<1>6. PICK p \in 0 .. Len(Chains[Swept]) : At(p)
  BY SMTT(60), <1>2, <1>3 DEF SweepInv
<1> DEFINE s == Chains[Swept]
<1>7. s \in Seq(Slot) /\ Len(s) \in Nat /\ Target = IF p = Len(s) THEN NULL ELSE s[p + 1]
  BY <1>2, <1>6, SweepTarget
<1>8. p = Len(s)
  <2>1. p # Len(s) => s[p + 1] \in Slot
    BY <1>7
  <2>2. NULL \notin Slot
    BY ConntrackAssumption DEF Slot
  <2>3. QED
    BY SMTT(60), <1>7, <2>1, <2>2 DEF ReapChainEnd
<1>9. \A e \in Chained(Swept) : overdue[e] = 0
  <2>1. \A j \in 1 .. Len(s) : overdue[s[j]] = 0
    BY <1>6, <1>8, Zenon DEF At
  <2>2. Chained(Swept) = Entries(Chains, Swept)
    BY <1>2, Chaining, SweptBucket
  <2>3. QED
    BY <2>1, <2>2, Zenon DEF Entries
<1>10. TypeOK'
  <2>1. sweep' \in [pc : {"idle", "bucket", "link"}, n : 0 .. buckets_to_scan,
                    link : ({"bucket"} \X Bucket) \cup ({"entry"} \X Slot), now : 0 .. MaxNow]
    BY <1>3, <1>4
  <2>2. QED
    BY <1>2, <2>1 DEF TypeOK, ReapChainEnd
<1>11. SweepInv'
  BY <1>2, <1>3, <1>5 DEF SweepInv
<1>12. OverdueInv'
  <2> SUFFICES ASSUME NEW e \in Slot, overdue[e] > 0
               PROVE  /\ e \in Linked' /\ Late(slab', e, SweepTime')
                      /\ \A i \in Bucket : e \in Chained(i)' =>
                           InTime(sweep', sweep_cursor', i, overdue[e])
    BY <1>3 DEF OverdueInv
  <2>1. SweepTime' = SweepTime
    BY <1>3, <1>5 DEF SweepTime
  <2>2. /\ e \in Linked /\ Late(slab, e, SweepTime)
        /\ \A i \in Bucket : e \in Chained(i) => InTime(sweep, sweep_cursor, i, overdue[e])
    BY <1>2 DEF OverdueInv
  <2>3. \A i \in Bucket : e \in Chained(i) => i # Swept
    BY <1>9
  <2>4. \A i \in Bucket : e \in Chained(i) => InTime(sweep', sweep_cursor', i, overdue[e])
    BY <1>2, <2>2, <2>3, ChainEndInTime, ZenonT(60)
  <2>5. QED
    BY <1>1, <1>3, <2>1, <2>2, <2>4, ZenonT(60)
<1>13. QED
  BY <1>1, <1>10, <1>11, <1>12 DEF Inv

LEMMA SlotCount ==
  ASSUME NEW S, S \subseteq Slot
  PROVE  /\ IsFiniteSet(S) /\ Cardinality(S) \in 0 .. MaxFlows
         /\ \A x \in S : Cardinality(S \ {x}) = Cardinality(S) - 1
         /\ \A x \in Slot : x \notin S => Cardinality(S \cup {x}) = Cardinality(S) + 1
<1>1. \A n \in Nat : IsFiniteSet(1 .. n) /\ Cardinality(1 .. n) = n
  BY FS_Interval
<1>2. IsFiniteSet(Slot) /\ Cardinality(Slot) = MaxFlows
  BY <1>1, ConntrackAssumption DEF Slot
<1>3. IsFiniteSet(S) /\ Cardinality(S) <= Cardinality(Slot)
  BY <1>2, FS_Subset, Zenon
<1>4. Cardinality(S) \in Nat
  BY <1>3, FS_CardinalityType, ZenonT(60)
<1>5. \A x \in S : Cardinality(S \ {x}) = Cardinality(S) - 1
  BY <1>3, FS_RemoveElement
<1>6. \A x \in Slot : x \notin S => Cardinality(S \cup {x}) = Cardinality(S) + 1
  BY SMTT(60), <1>3, FS_AddElement
<1>7. QED
  BY SMTT(60), <1>2, <1>3, <1>4, <1>5, <1>6, ConntrackAssumption

LEMMA EvictInv ==
  ASSUME Inv, ReapEvict
  PROVE  Inv'
<1>1. TypeOK /\ ListInv /\ EntryInv /\ SweepInv /\ OverdueInv /\ ActiveIsLinked
  BY DEF Inv
<1>2. /\ sweep.pc = "link" /\ now' = now /\ sweep' = sweep /\ sweep_cursor' = sweep_cursor
      /\ active' = active - 1 /\ overdue' = [overdue EXCEPT ![Target] = 0]
  BY Zenon DEF ReapEvict, Unlink
<1>3. PICK p \in 0 .. Len(Chains[Swept]) : At(p)
  BY <1>1, <1>2 DEF SweepInv
<1>4. /\ ListInv' /\ Target \in Chained(Swept) /\ Linked' = Linked \ {Target}
      /\ \A i \in Bucket : Chained(i)' = Chained(i) \ {Target}
      /\ p \in 0 .. Len(Chains'[Swept])
      /\ \A j \in 1 .. p : Chains'[Swept][j] = Chains[Swept][j]
  BY <1>1, <1>3, EvictStep, Zenon
<1>5. Swept \in Bucket /\ Linked \subseteq Slot /\ Chained(Swept) \subseteq Slot
  BY SMTT(60), <1>1, SweptBucket, Chaining
<1>6. Target \in Slot /\ Target \in Linked
  BY SMTT(60), <1>4, <1>5, LinkedIs
<1>7. /\ slab \in [Slot -> [key : Flow \cup {NULL}, backend_id : BackendId \cup {NULL},
                            last_seen : 0 .. MaxNow, next : Slot \cup {NULL}]]
      /\ overdue \in [Slot -> Nat]
  BY <1>1, SlabType
<1>8. ASSUME NEW e \in Slot
      PROVE  /\ slab'[e].key = slab[e].key /\ slab'[e].backend_id = slab[e].backend_id
             /\ slab'[e].last_seen = slab[e].last_seen
  BY ZenonT(60), <1>7 DEF ReapEvict, Unlink
<1>9. ActiveIsLinked'
  BY ZenonT(60), <1>1, <1>2, <1>4, <1>5, <1>6, SlotCount DEF ActiveIsLinked
<1>10. TypeOK'
  <2>1. free_list' \in Slot \cup {NULL} /\ overdue' \in [Slot -> Nat]
    BY SMTT(60), <1>2, <1>6, <1>7 DEF ReapEvict, Unlink
  <2>2. slab' \in [Slot -> [key : Flow \cup {NULL}, backend_id : BackendId \cup {NULL},
                            last_seen : 0 .. MaxNow, next : Slot \cup {NULL}]]
    <3>1. free_list \in Slot \cup {NULL} /\ slab[Target].next \in Slot \cup {NULL}
      BY SMTT(60), <1>1, <1>6, <1>7 DEF TypeOK
    <3> DEFINE Rec == [key : Flow \cup {NULL}, backend_id : BackendId \cup {NULL},
                       last_seen : 0 .. MaxNow, next : Slot \cup {NULL}]
    <3>2. \A x \in Slot, v \in Slot \cup {NULL} : [slab[x] EXCEPT !.next = v] \in Rec
      BY Zenon, <1>7
    <3>3. slab \in [Slot -> Rec]
      BY <1>7
    <3> HIDE DEF Rec
    <3>4. slab' = [x \in Slot |->
                    IF x = Target THEN [slab[Target] EXCEPT !.next = free_list]
                    ELSE IF sweep.link = <<"entry", x>>
                    THEN [slab[x] EXCEPT !.next = slab[Target].next] ELSE slab[x]]
      BY Zenon DEF ReapEvict, Unlink
    <3>5. slab' \in [Slot -> Rec]
      BY ZenonT(60), <1>6, <3>1, <3>2, <3>3, <3>4
    <3>6. QED
      BY SMTT(60), <3>5 DEF Rec
  <2>3. buckets' \in [Bucket -> Slot \cup {NULL}]
    <3>1. Lists(Nexts(slab'), buckets', free_list', Free', Chains')
      BY ZenonT(60), <1>4 DEF ListInv
    <3>2. QED
      BY ZenonT(60), <3>1 DEF Lists, Link
  <2>4. active' \in 0 .. MaxFlows
    BY ZenonT(60), <1>4, <1>5, <1>9, SlotCount DEF ActiveIsLinked
  <2>5. QED
    BY ZenonT(60), <1>1, <1>2, <2>1, <2>2, <2>3, <2>4 DEF TypeOK
<1>11. EntryInv'
  <2>1. ASSUME NEW i \in Bucket, NEW e \in Chained(i)'
        PROVE  /\ slab'[e].key \in Flow /\ slab'[e].backend_id \in BackendId
               /\ BucketOf(slab'[e].key) = i
    <3>1. e \in Chained(i) /\ e \in Slot
      BY SMTT(60), <1>1, <1>4, <2>1, Chaining
    <3>2. /\ slab[e].key \in Flow /\ slab[e].backend_id \in BackendId
          /\ BucketOf(slab[e].key) = i
      BY <1>1, <3>1, Zenon DEF EntryInv
    <3>3. QED
      BY ZenonT(60), <1>8, <3>1, <3>2
  <2>2. ASSUME NEW e \in Linked', NEW x \in Linked', slab'[e].key = slab'[x].key PROVE e = x
    <3>1. e \in Linked /\ x \in Linked /\ e \in Slot /\ x \in Slot
      BY SMTT(60), <1>4, <1>5
    <3>2. slab[e].key = slab[x].key
      BY ZenonT(60), <1>8, <2>2, <3>1
    <3>3. QED
      BY <1>1, <3>1, <3>2, ZenonT(60) DEF EntryInv
  <2>3. QED
    BY SMTT(60), <2>1, <2>2 DEF EntryInv, BucketOf
<1>12. SweepInv'
  <2>1. Swept' = Swept
    BY <1>2 DEF Swept
  <2>2. \A j \in 1 .. p : overdue'[Chains[Swept][j]] = 0
    <3>1. ASSUME NEW j \in 1 .. p PROVE overdue'[Chains[Swept][j]] = 0
      <4>1. Chains[Swept] \in Seq(Slot)
        BY SMTT(60), <1>1, <1>5, Chaining
      <4>2. Chains[Swept][j] \in Slot
        BY <4>1
      <4>3. overdue[Chains[Swept][j]] = 0
        BY <1>3, Zenon DEF At
      <4>4. QED
        BY ZenonT(60), <1>2, <1>7, <4>2, <4>3
    <3>2. QED
      BY <3>1
  <2>3. At(p)'
    <3>1. sweep.link = IF p = 0 THEN <<"bucket", Swept>> ELSE <<"entry", Chains[Swept][p]>>
      BY <1>3, Zenon DEF At
    <3>2. p # 0 => p \in 1 .. p
      OBVIOUS
    <3>3. sweep'.link = IF p = 0 THEN <<"bucket", Swept'>> ELSE <<"entry", Chains'[Swept'][p]>>
      BY <1>2, <1>4, <2>1, <3>1, <3>2, ZenonT(60)
    <3>4. \A j \in 1 .. p : overdue'[Chains'[Swept'][j]] = 0
      BY <1>4, <2>1, <2>2, ZenonT(60)
    <3>5. QED
      BY <3>3, <3>4, Zenon DEF At
  <2>4. QED
    BY ZenonT(60), <1>1, <1>2, <1>4, <2>1, <2>3 DEF SweepInv
<1>13. OverdueInv'
  <2> SUFFICES ASSUME NEW e \in Slot, overdue'[e] > 0
               PROVE  /\ e \in Linked' /\ Late(slab', e, SweepTime')
                      /\ \A i \in Bucket : e \in Chained(i)' =>
                           InTime(sweep', sweep_cursor', i, overdue'[e])
    BY DEF OverdueInv
  <2>1. e # Target /\ overdue'[e] = overdue[e]
    <3> DEFINE x == Target
    <3>1. x \in Slot /\ overdue \in [Slot -> Nat] /\ overdue' = [overdue EXCEPT ![x] = 0]
      BY <1>2, <1>6, <1>7, Zenon
    <3> HIDE DEF x
    <3>2. e # x /\ overdue'[e] = overdue[e]
      BY SMTT(60), <3>1
    <3>3. QED
      BY <3>2, Zenon DEF x
  <2>2. /\ e \in Linked /\ Late(slab, e, SweepTime)
        /\ \A i \in Bucket : e \in Chained(i) => InTime(sweep, sweep_cursor, i, overdue[e])
    BY <1>1, <2>1 DEF OverdueInv
  <2>3. SweepTime' = SweepTime
    BY ZenonT(60), <1>2 DEF SweepTime
  <2>4. Late(slab', e, SweepTime')
    BY ZenonT(60), <1>8, <2>2, <2>3 DEF Late
  <2>5. QED
    BY ZenonT(60), <1>2, <1>4, <2>1, <2>2, <2>4
<1>14. QED
  BY ZenonT(60), <1>4, <1>9, <1>10, <1>11, <1>12, <1>13 DEF Inv

LEMMA LookupInv ==
  ASSUME Inv, NEW k \in Flow, conntrack_lookup(k)
  PROVE  Inv'
<1>1. TypeOK /\ ListInv /\ EntryInv /\ SweepInv /\ OverdueInv /\ ActiveIsLinked
  BY DEF Inv
<1>2. /\ sweep.pc = "idle" /\ now' = now /\ sweep' = sweep /\ sweep_cursor' = sweep_cursor
      /\ active' = active /\ buckets' = buckets /\ free_list' = free_list
  BY DEF conntrack_lookup
<1>3. PICK x \in Chained(BucketOf(k)) : /\ slab[x].key = k
                                        /\ slab' = [slab EXCEPT ![x].last_seen = now]
                                        /\ overdue' = [overdue EXCEPT ![x] = 0]
  BY <1>1, LookupStep, ZenonT(60)
<1>4. /\ slab \in [Slot -> [key : Flow \cup {NULL}, backend_id : BackendId \cup {NULL},
                            last_seen : 0 .. MaxNow, next : Slot \cup {NULL}]]
      /\ overdue \in [Slot -> Nat] /\ now \in 0 .. MaxNow
  BY SMTT(60), <1>1, SlabType
<1>5. x \in Slot /\ Linked \subseteq Slot
  BY SMTT(60), <1>1, Chaining, Numbers
<1>6. ASSUME NEW e \in Slot
      PROVE  /\ slab'[e].key = slab[e].key /\ slab'[e].backend_id = slab[e].backend_id
             /\ slab'[e].next = slab[e].next
             /\ e # x => slab'[e].last_seen = slab[e].last_seen
  BY ZenonT(60), <1>3, <1>4
<1>7. Nexts(slab') = Nexts(slab)
  BY <1>6 DEF Nexts
<1>8. /\ ListInv' /\ Chains' = Chains /\ Linked' = Linked
      /\ \A i \in Bucket : Chained(i)' = Chained(i)
  BY <1>1, <1>2, <1>7, SameLists, ZenonT(60)
<1>9. TypeOK'
  <2>1. slab' \in [Slot -> [key : Flow \cup {NULL}, backend_id : BackendId \cup {NULL},
                            last_seen : 0 .. MaxNow, next : Slot \cup {NULL}]]
    BY ZenonT(60), <1>3, <1>4
  <2>2. overdue' \in [Slot -> Nat]
    BY Zenon, <1>3, <1>4
  <2>3. QED
    BY ZenonT(60), <1>1, <1>2, <2>1, <2>2 DEF TypeOK
<1>10. EntryInv'
  <2>1. ASSUME NEW i \in Bucket, NEW e \in Chained(i)'
        PROVE  /\ slab'[e].key \in Flow /\ slab'[e].backend_id \in BackendId
               /\ BucketOf(slab'[e].key) = i
    <3>1. e \in Chained(i) /\ e \in Slot
      BY SMTT(60), <1>1, <1>8, <2>1, Chaining
    <3>2. /\ slab[e].key \in Flow /\ slab[e].backend_id \in BackendId
          /\ BucketOf(slab[e].key) = i
      BY <1>1, <3>1, Zenon DEF EntryInv
    <3>3. QED
      BY SMTT(60), <1>6, <3>1, <3>2
  <2>2. ASSUME NEW e \in Linked', NEW y \in Linked', slab'[e].key = slab'[y].key PROVE e = y
    <3>1. e \in Linked /\ y \in Linked /\ e \in Slot /\ y \in Slot
      BY ZenonT(60), <1>5, <1>8
    <3>2. slab[e].key = slab[y].key
      BY ZenonT(60), <1>6, <2>2, <3>1
    <3>3. QED
      BY <1>1, <3>1, <3>2, ZenonT(60) DEF EntryInv
  <2>3. QED
    BY ZenonT(60), <2>1, <2>2 DEF EntryInv, BucketOf
<1>11. SweepInv'
  BY SMTT(60), <1>1, <1>2 DEF SweepInv
<1>12. OverdueInv'
  <2> SUFFICES ASSUME NEW e \in Slot, overdue'[e] > 0
               PROVE  /\ e \in Linked' /\ Late(slab', e, SweepTime')
                      /\ \A i \in Bucket : e \in Chained(i)' =>
                           InTime(sweep', sweep_cursor', i, overdue'[e])
    BY DEF OverdueInv
  <2>1. e # x /\ overdue'[e] = overdue[e]
    <3>1. x \in Slot /\ overdue \in [Slot -> Nat] /\ overdue' = [overdue EXCEPT ![x] = 0]
      BY <1>3, <1>4, <1>5, ZenonT(60)
    <3>2. QED
      BY SMTT(60), <3>1
  <2>2. /\ e \in Linked /\ Late(slab, e, SweepTime)
        /\ \A i \in Bucket : e \in Chained(i) => InTime(sweep, sweep_cursor, i, overdue[e])
    BY <1>1, <2>1 DEF OverdueInv
  <2>3. SweepTime' = SweepTime
    BY ZenonT(60), <1>2 DEF SweepTime
  <2>4. Late(slab', e, SweepTime')
    BY ZenonT(60), <1>6, <2>1, <2>2, <2>3 DEF Late
  <2>5. QED
    <3>1. e \in Linked'
      BY <1>8, <2>2, Zenon
    <3>2. ASSUME NEW i \in Bucket, e \in Chained(i)'
          PROVE  InTime(sweep', sweep_cursor', i, overdue'[e])
      <4>1. e \in Chained(i)
        BY <1>8, <3>2, Zenon
      <4>2. InTime(sweep, sweep_cursor, i, overdue[e])
        BY <2>2, <4>1, ZenonT(60)
      <4>3. QED
        BY <1>2, <2>1, <4>2, ZenonT(60)
    <3>3. QED
      BY <2>4, <3>1, <3>2, Zenon
<1>13. ActiveIsLinked'
  BY ZenonT(60), <1>1, <1>2, <1>8 DEF ActiveIsLinked
<1>14. QED
  BY ZenonT(60), <1>8, <1>9, <1>10, <1>11, <1>12, <1>13 DEF Inv

LEMMA InsertInv ==
  ASSUME Inv, NEW k \in Flow, NEW b \in BackendId, conntrack_insert(k, b)
  PROVE  Inv'
<1> DEFINE x == free_list
           i0 == BucketOf(k)
<1>1. TypeOK /\ ListInv /\ EntryInv /\ SweepInv /\ OverdueInv /\ ActiveIsLinked
  BY SMTT(60) DEF Inv
<1>2. /\ sweep.pc = "idle" /\ now' = now /\ sweep' = sweep /\ sweep_cursor' = sweep_cursor
      /\ active' = active + 1 /\ overdue' = [overdue EXCEPT ![x] = 0]
      /\ slab' = [slab EXCEPT ![x] = [key |-> k, backend_id |-> b, last_seen |-> now,
                                      next |-> buckets[i0]]]
  BY DEF conntrack_insert
<1>3. /\ ListInv' /\ x \in Slot \ Linked /\ Linked' = Linked \cup {x}
      /\ Chained(i0)' = Chained(i0) \cup {x}
      /\ \A i \in Bucket : i # i0 => Chained(i)' = Chained(i)
  BY <1>1, InsertStep, ZenonT(60)
<1>4. /\ slab \in [Slot -> [key : Flow \cup {NULL}, backend_id : BackendId \cup {NULL},
                            last_seen : 0 .. MaxNow, next : Slot \cup {NULL}]]
      /\ overdue \in [Slot -> Nat] /\ now \in 0 .. MaxNow
  BY <1>1, SlabType
<1>5. i0 \in Bucket /\ Linked \subseteq Slot /\ \A i \in Bucket : Chained(i) \subseteq Slot
  BY ZenonT(60), <1>1, Chaining, Numbers
<1>6. /\ slab'[x].key = k /\ slab'[x].backend_id = b
      /\ \A e \in Slot : e # x => slab'[e] = slab[e]
  BY ZenonT(60), <1>2, <1>3, <1>4
<1>7. ActiveIsLinked'
  BY ZenonT(60), <1>1, <1>2, <1>3, <1>5, SlotCount DEF ActiveIsLinked
<1>8. TypeOK'
  <2>1. Lists(Nexts(slab'), buckets', free_list', Free', Chains')
    BY SMTT(60), <1>3 DEF ListInv
  <2>2. buckets' \in [Bucket -> Slot \cup {NULL}] /\ free_list' \in Slot \cup {NULL}
    BY ZenonT(60), <2>1 DEF Lists, Link
  <2>3. buckets[i0] \in Slot \cup {NULL}
    BY <1>1, <1>5 DEF TypeOK
  <2>4. slab' \in [Slot -> [key : Flow \cup {NULL}, backend_id : BackendId \cup {NULL},
                            last_seen : 0 .. MaxNow, next : Slot \cup {NULL}]]
    <3> DEFINE R == [key : Flow \cup {NULL}, backend_id : BackendId \cup {NULL},
                     last_seen : 0 .. MaxNow, next : Slot \cup {NULL}]
               r == [key |-> k, backend_id |-> b, last_seen |-> now, next |-> buckets[i0]]
    <3>1. r \in R
      BY <1>4, <2>3
    <3>2. slab \in [Slot -> R] /\ slab' = [slab EXCEPT ![x] = r]
      BY <1>2, <1>4, Zenon
    <3> HIDE DEF R, r
    <3>3. slab' \in [Slot -> R]
      BY <3>1, <3>2, ZenonT(60)
    <3>4. QED
      BY <3>3, ZenonT(60) DEF R
  <2>5. overdue' \in [Slot -> Nat]
    BY ZenonT(60), <1>2, <1>4
  <2>6. active' \in 0 .. MaxFlows
    <3>1. Linked' \subseteq Slot
      BY ZenonT(60), <1>3, <1>5
    <3>2. QED
      BY ZenonT(60), <1>7, <3>1, SlotCount DEF ActiveIsLinked
  <2>7. QED
    BY ZenonT(60), <1>1, <1>2, <2>2, <2>4, <2>5, <2>6 DEF TypeOK
<1> HIDE DEF x
<1>9. EntryInv'
  <2>1. ASSUME NEW i \in Bucket, NEW e \in Chained(i)'
        PROVE  /\ slab'[e].key \in Flow /\ slab'[e].backend_id \in BackendId
               /\ BucketOf(slab'[e].key) = i
    <3>1. CASE e = x
      <4>1. i = i0
        <5>1. x \notin Chained(i)
          BY ZenonT(60), <1>3, LinkedIs
        <5>2. QED
          BY ZenonT(60), <1>3, <2>1, <3>1, <5>1
      <4>2. QED
        BY ZenonT(60), <1>6, <3>1, <4>1
    <3>2. CASE e # x
      <4>1. e \in Chained(i) /\ e \in Slot
        BY SMTT(60), <1>3, <1>5, <2>1, <3>2
      <4>2. /\ slab[e].key \in Flow /\ slab[e].backend_id \in BackendId
            /\ BucketOf(slab[e].key) = i
        BY <1>1, <4>1, ZenonT(60) DEF EntryInv
      <4>3. QED
        BY ZenonT(60), <1>6, <3>2, <4>1, <4>2
    <3>3. QED
      BY ZenonT(60), <3>1, <3>2
  <2>2. ASSUME NEW e \in Linked PROVE slab[e].key # k
    <3>1. SUFFICES ASSUME slab[e].key = k PROVE FALSE
      OBVIOUS
    <3>2. PICK i \in Bucket : e \in Chained(i)
      BY SMTT(60), <2>2, LinkedIs
    <3>3. i = i0
      BY SMTT(60), <1>1, <3>1, <3>2 DEF EntryInv
    <3>4. e \in Matches(k)
      BY <3>1, <3>2, <3>3, ZenonT(60) DEF Matches
    <3>5. QED
      BY <3>4 DEF conntrack_insert
  <2>3. ASSUME NEW e \in Linked', NEW y \in Linked', slab'[e].key = slab'[y].key PROVE e = y
    <3>1. CASE e # x /\ y # x
      <4>1. e \in Linked /\ y \in Linked /\ e \in Slot /\ y \in Slot
        BY ZenonT(60), <1>3, <1>5, <3>1
      <4>2. slab[e].key = slab[y].key
        BY ZenonT(60), <1>6, <2>3, <3>1, <4>1
      <4>3. QED
        BY <1>1, <4>1, <4>2, ZenonT(60) DEF EntryInv
    <3>2. ASSUME NEW z \in Linked', z # x PROVE slab'[z].key # k
      <4>1. z \in Linked /\ z \in Slot
        BY ZenonT(60), <1>3, <1>5, <3>2
      <4>2. QED
        BY ZenonT(60), <1>6, <2>2, <3>2, <4>1
    <3>3. QED
      BY ZenonT(60), <1>6, <2>3, <3>1, <3>2
  <2>4. QED
    BY SMTT(60), <2>1, <2>3 DEF EntryInv, BucketOf
<1>10. SweepInv'
  BY SMTT(60), <1>1, <1>2 DEF SweepInv
<1>11. OverdueInv'
  <2> SUFFICES ASSUME NEW e \in Slot, overdue'[e] > 0
               PROVE  /\ e \in Linked' /\ Late(slab', e, SweepTime')
                      /\ \A i \in Bucket : e \in Chained(i)' =>
                           InTime(sweep', sweep_cursor', i, overdue'[e])
    BY DEF OverdueInv
  <2>1. x \in Slot /\ overdue \in [Slot -> Nat] /\ overdue' = [overdue EXCEPT ![x] = 0]
    BY <1>2, <1>3, <1>4, ZenonT(60)
  <2>2. e # x /\ overdue'[e] = overdue[e]
    BY SMTT(60), <2>1
  <2>3. /\ e \in Linked /\ Late(slab, e, SweepTime)
        /\ \A i \in Bucket : e \in Chained(i) => InTime(sweep, sweep_cursor, i, overdue[e])
    BY ZenonT(60), <1>1, <2>2 DEF OverdueInv
  <2>4. SweepTime' = SweepTime
    BY SMTT(60), <1>2 DEF SweepTime
  <2>5. Late(slab', e, SweepTime')
    BY ZenonT(60), <1>6, <2>2, <2>3, <2>4 DEF Late
  <2>6. \A i \in Bucket : e \in Chained(i)' => e \in Chained(i)
    BY <1>3, <2>2
  <2>7. QED
    <3>1. e \in Linked'
      BY <1>3, <2>3, ZenonT(60)
    <3>2. ASSUME NEW i \in Bucket, e \in Chained(i)'
          PROVE  InTime(sweep', sweep_cursor', i, overdue'[e])
      <4>1. e \in Chained(i)
        BY <2>6, <3>2, ZenonT(60)
      <4>2. InTime(sweep, sweep_cursor, i, overdue[e])
        BY <2>3, <4>1, ZenonT(60)
      <4>3. QED
        BY <1>2, <2>2, <4>2, ZenonT(60)
    <3>3. QED
      BY <2>5, <3>1, <3>2, ZenonT(60)
<1>12. QED
  BY ZenonT(60), <1>3, <1>7, <1>8, <1>9, <1>10, <1>11 DEF Inv

-----------------------------------------------------------------------------
LEMMA InitInv ==
  ASSUME Init
  PROVE  Inv
<1> DEFINE fr == [j \in 1 .. MaxFlows |-> j]
           ch == [i \in Bucket |-> <<>>]
<1>1. MaxFlows \in Nat /\ MaxNow \in Nat /\ NULL \notin Slot
  BY ZenonT(60), ConntrackAssumption DEF Slot
<1>2. /\ buckets = [i \in Bucket |-> NULL] /\ sweep = Idle /\ now = 0 /\ sweep_cursor = 0
      /\ free_list = IF MaxFlows > 0 THEN 1 ELSE NULL
      /\ active = 0 /\ overdue = [e \in Slot |-> 0]
      /\ \A e \in Slot : slab[e].next = IF e < MaxFlows THEN e + 1 ELSE NULL
  BY ZenonT(60) DEF Init
<1>3. TypeOK
  <2>1. slab \in [Slot -> [key : Flow \cup {NULL}, backend_id : BackendId \cup {NULL},
                           last_seen : 0 .. MaxNow, next : Slot \cup {NULL}]]
    BY SMTT(60), <1>1 DEF Init, Slot
  <2>2. sweep \in [pc : {"idle", "bucket", "link"}, n : 0 .. buckets_to_scan,
                   link : ({"bucket"} \X Bucket) \cup ({"entry"} \X Slot), now : 0 .. MaxNow]
    BY SMTT(60), <1>1, <1>2, Numbers DEF Idle, Bucket
  <2>3. QED
    BY SMTT(60), <1>1, <1>2, <2>1, <2>2, Numbers DEF TypeOK, Slot, Bucket
<1>4. Lists(Nexts(slab), buckets, free_list, fr, ch)
  <2>1. Nexts(slab) \in [Slot -> Link] /\ buckets \in [Bucket -> Link] /\ free_list \in Link
    BY ZenonT(60), <1>1, <1>2, <1>3 DEF Nexts, Link, TypeOK
  <2>2. fr \in Seq(Slot) /\ Len(fr) = MaxFlows /\ \A j \in 1 .. MaxFlows : fr[j] = j
    BY <1>1 DEF Slot
  <2>3. ch \in [Bucket -> Seq(Slot)] /\ \A i \in Bucket : ch[i] = <<>> /\ Len(ch[i]) = 0
    OBVIOUS
  <2> HIDE DEF fr, ch
  <2>4. Path(Nexts(slab), fr, free_list)
    <3>1. fr = <<>> <=> MaxFlows = 0
      BY SMTT(60), <1>1, <2>2
    <3>2. free_list = IF fr = <<>> THEN NULL ELSE fr[1]
      BY SMTT(60), <1>1, <1>2, <2>2, <3>1
    <3>3. \A j \in 1 .. Len(fr) : Nexts(slab)[fr[j]] = IF j = Len(fr) THEN NULL ELSE fr[j + 1]
      <4> TAKE j \in 1 .. Len(fr)
      <4>1. j \in Slot /\ fr[j] = j /\ Nexts(slab)[j] = slab[j].next
        BY <2>2 DEF Slot, Nexts
      <4>2. j # Len(fr) => fr[j + 1] = j + 1
        BY SMTT(60), <1>1, <2>2
      <4>3. QED
        BY SMTT(60), <1>1, <1>2, <2>2, <4>1, <4>2
    <3>4. QED
      BY SMTT(60), <2>2, <3>2, <3>3 DEF Path
  <2>5. \A i \in Bucket : Path(Nexts(slab), ch[i], buckets[i])
    BY SMTT(60), <1>2, <2>3 DEF Path
  <2>6. Shared(fr, ch)
    BY <2>2, <2>3 DEF Shared, Slot
  <2>7. QED
    BY ZenonT(60), <2>1, <2>2, <2>3, <2>4, <2>5, <2>6 DEF Lists
<1> HIDE DEF fr
<1>5. Free = fr /\ Chains = ch
  <2>1. Walk(slab, free_list) = fr /\ \A i \in Bucket : Walk(slab, buckets[i]) = ch[i]
    <3> HIDE DEF ch
    <3>1. QED
      BY <1>4, ListsWalk
  <2>2. QED
    BY ZenonT(60), <2>1 DEF Free, Chains, Chain
<1>6. ListInv
  BY <1>4, <1>5 DEF ListInv
<1>7. Linked = {}
  <2>1. \A i \in Bucket : Chained(i) = Entries(Chains, i)
    BY <1>6, Chaining
  <2>2. \A i \in Bucket : Entries(Chains, i) = {}
    BY <1>5 DEF Entries
  <2>3. QED
    BY <2>1, <2>2 DEF Linked
<1>8. EntryInv
  BY ZenonT(60), <1>7, LinkedIs DEF EntryInv
<1>9. SweepInv
  BY SMTT(60), <1>2 DEF SweepInv, Idle
<1>10. OverdueInv
  BY SMTT(60), <1>2 DEF OverdueInv
<1>11. ActiveIsLinked
  BY <1>2, <1>7, FS_EmptySet DEF ActiveIsLinked
<1>12. QED
  BY ZenonT(60), <1>3, <1>6, <1>8, <1>9, <1>10, <1>11 DEF Inv

LEMMA NextInv ==
  ASSUME Inv, Next
  PROVE  Inv'
BY ZenonT(60), AdvanceInv, LookupInv, InsertInv, StartInv, BucketInv, DoneInv, SkipInv, EvictInv, ChainEndInv,
   Zenon DEF Next, Reap

LEMMA StutterInv ==
  ASSUME Inv, UNCHANGED vars
  PROVE  Inv'
<1>1. /\ ListInv' /\ EntryInv' /\ ActiveIsLinked'
      /\ Chains' = Chains /\ Linked' = Linked
      /\ \A i \in Bucket : Chained(i)' = Chained(i)
  BY SMTT(60), QuietStep DEF vars
<1>2. TypeOK' /\ SweepTime' = SweepTime /\ Swept' = Swept
  BY DEF Inv, vars, TypeOK, SweepTime, Swept
<1>3. SweepInv'
  <2>1. \A p : At(p)' <=> At(p)
    BY <1>1, <1>2, Zenon DEF At, vars
  <2>2. QED
    BY <1>1, <1>2, <2>1, ZenonT(40) DEF Inv, SweepInv, vars
<1>4. OverdueInv'
  BY <1>1, <1>2, Zenon DEF Inv, OverdueInv, vars
<1>5. QED
  BY ZenonT(60), <1>1, <1>2, <1>3, <1>4 DEF Inv

(* The slab, its lists, the sweep's position and the overdue count keep    *)
(* the invariant the three results below rest on.                          *)
THEOREM ConntrackInvariant == Spec => []Inv
<1>1. Init => Inv
  BY InitInv
<1>2. Inv /\ [Next]_vars => Inv'
  BY NextInv, StutterInv
<1>3. QED
  BY <1>1, <1>2, PTL DEF Spec

LEMMA ListsPartition ==
  ASSUME ListInv
  PROVE  SlabPartitioned
<1>1. Chains \in [Bucket -> Seq(Slot)] /\ Free \in Seq(Slot)
  BY Chaining
<1>2. /\ \A i \in Bucket : Chained(i) = Entries(Chains, i) /\ Chained(i) \subseteq Slot
      /\ \A i, l \in Bucket : \A e : e \in Chained(i) /\ e \in Chained(l) => i = l
      /\ Linked \subseteq Slot
  BY Chaining
<1>3. DOMAIN Free = 1 .. Len(Free) /\ \A j \in 1 .. Len(Free) : Free[j] \in Slot
  BY <1>1
<1>4. Range(Free) = {Free[j] : j \in 1 .. Len(Free)}
  BY <1>3, Zenon DEF Range
<1>5. IsInjective(Free)
  <2>1. \A j, k \in 1 .. Len(Free) : Free[j] = Free[k] => j = k
    BY Zenon DEF ListInv, Lists, Shared
  <2>2. QED
    BY <1>3, <2>1, Zenon DEF IsInjective
<1>6. ASSUME NEW i \in Bucket PROVE IsInjective(Chain(buckets[i]))
  <2>1. \A l, m \in Bucket : \A j \in 1 .. Len(Chains[l]), k \in 1 .. Len(Chains[m]) :
          Chains[l][j] = Chains[m][k] => l = m /\ j = k
    BY Zenon DEF ListInv, Lists, Shared
  <2>2. \A j, k \in 1 .. Len(Chains[i]) : Chains[i][j] = Chains[i][k] => j = k
    BY <2>1
  <2>3. Chain(buckets[i]) = Chains[i] /\ DOMAIN Chains[i] = 1 .. Len(Chains[i])
    BY <1>1 DEF Chains
  <2>4. QED
    BY <2>2, <2>3, ZenonT(60) DEF IsInjective
<1>7. Range(Free) \cup Linked = Slot
  <2>1. ASSUME NEW e \in Slot PROVE e \in Range(Free) \/ e \in Linked
    <3>1. \/ \E j \in 1 .. Len(Free) : Free[j] = e
          \/ \E i \in Bucket : \E k \in 1 .. Len(Chains[i]) : Chains[i][k] = e
      BY Zenon DEF ListInv, Lists, Shared
    <3>2. ASSUME NEW i \in Bucket, NEW k \in 1 .. Len(Chains[i]), Chains[i][k] = e
          PROVE  e \in Linked
      <4>1. e \in Entries(Chains, i)
        BY <3>2, ZenonT(60) DEF Entries
      <4>2. QED
        BY <1>2, <4>1, LinkedIs
    <3>3. QED
      BY <1>4, <3>1, <3>2, Zenon
  <2>2. Range(Free) \subseteq Slot
    BY <1>3, <1>4
  <2>3. QED
    BY <1>2, <2>1, <2>2, ZenonT(60)
<1>8. Range(Free) \cap Linked = {}
  <2>1. ASSUME NEW e, e \in Range(Free), e \in Linked PROVE FALSE
    <3>1. PICK i \in Bucket : e \in Chained(i)
      BY <2>1, LinkedIs
    <3>2. PICK j \in 1 .. Len(Free) : e = Free[j]
      BY <1>4, <2>1
    <3>3. e \in Entries(Chains, i)
      BY <1>2, <3>1
    <3>4. PICK k \in 1 .. Len(Chains[i]) : e = Chains[i][k]
      BY <3>3, Zenon DEF Entries
    <3>5. \A m \in 1 .. Len(Free) : \A l \in Bucket : \A n \in 1 .. Len(Chains[l]) :
            Free[m] # Chains[l][n]
      BY Zenon DEF ListInv, Lists, Shared
    <3>6. QED
      BY <3>2, <3>4, <3>5, ZenonT(60)
  <2>2. QED
    BY <2>1, Zenon
<1>9. \A i, j \in Bucket : Chained(i) \cap Chained(j) # {} => i = j
  BY <1>2, Zenon
<1>10. QED
  BY ZenonT(60), <1>5, <1>6, <1>7, <1>8, <1>9 DEF SlabPartitioned, Free

(* For every slab size, hash and timeouts, and at every link of every      *)
(* sweep, each entry of conntrack.c's slab is exactly once on exactly one  *)
(* of the free list and the chains, and no list is a cycle.                *)
THEOREM SlabSharedOut == Spec => []SlabPartitioned
<1>1. Inv => SlabPartitioned
  BY ListsPartition DEF Inv
<1>2. QED
  BY <1>1, ConntrackInvariant, PTL

(* conntrack_reap_slice's persistent cursor reaps every expired entry      *)
(* within one turn's worth of ticks of the reaper, whatever the number of  *)
(* buckets a tick scans.                                                   *)
THEOREM ReapedInTurn == Spec => []ReapedInOneTurn
<1>1. ASSUME Inv PROVE ReapedInOneTurn
  <2> SUFFICES ASSUME NEW e \in Slot PROVE overdue[e] <= TurnTicks
    BY DEF ReapedInOneTurn
  <2>1. TypeOK /\ SweepInv /\ OverdueInv /\ overdue[e] \in Nat
    BY <1>1, SlabType DEF Inv
  <2>2. TurnTicks \in Nat
    <3>1. bucket_count + buckets_to_scan - 1 \in Nat /\ buckets_to_scan \in Nat \ {0}
      BY Numbers
    <3>2. QED
      BY <3>1, Division DEF TurnTicks
  <2>3. CASE overdue[e] > 0
    <3>1. PICK i \in Bucket : e \in Chained(i)
      BY SMTT(60), <2>1, <2>3, LinkedIs DEF OverdueInv
    <3>2. InTime(sweep, sweep_cursor, i, overdue[e])
      BY <2>1, <2>3, <3>1 DEF OverdueInv
    <3>3. QED
      BY ZenonT(60), <2>1, <2>3, <3>2, InTimeOnTime
  <2>4. QED
    BY <2>1, <2>2, <2>3
<1>2. QED
  BY <1>1, ConntrackInvariant, PTL

(* conntrack_active_flows, which other threads read at any moment of a     *)
(* sweep, is the number of linked entries and never more than the slab.    *)
THEOREM GaugeCounts == Spec => [](ActiveIsLinked /\ TypeOK)
<1>1. Inv => ActiveIsLinked /\ TypeOK
  BY DEF Inv
<1>2. QED
  BY <1>1, ConntrackInvariant, PTL

-----------------------------------------------------------------------------
(* The abstract map of a slab sl with linked entries ln. *)
FlowsOf(sl, ln) ==
  [k \in {sl[e].key : e \in ln} |->
     LET x == CHOOSE e \in ln : sl[e].key = k
     IN [backend |-> sl[x].backend_id, last_seen |-> sl[x].last_seen]]

LEMMA FlowsOfDomain ==
  ASSUME NEW sl, NEW ln
  PROVE  DOMAIN FlowsOf(sl, ln) = {sl[e].key : e \in ln}
BY DEF FlowsOf

LEMMA FlowsOfEntry ==
  ASSUME NEW sl, NEW ln, \A e, x \in ln : sl[e].key = sl[x].key => e = x, NEW z \in ln
  PROVE  FlowsOf(sl, ln)[sl[z].key]
         = [backend |-> sl[z].backend_id, last_seen |-> sl[z].last_seen]
<1> DEFINE k == sl[z].key
           x == CHOOSE e \in ln : sl[e].key = k
<1>1. x \in ln /\ sl[x].key = k
  <2> HIDE DEF k
  <2>1. \E e \in ln : sl[e].key = k
    BY DEF k
  <2>2. QED
    BY <2>1, Zenon
<1>2. x = z
  <2> HIDE DEF x
  <2>1. QED
    BY <1>1
<1>3. FlowsOf(sl, ln)[k] = [backend |-> sl[x].backend_id, last_seen |-> sl[x].last_seen]
  BY Zenon DEF FlowsOf
<1>4. QED
  BY <1>2, <1>3, Zenon

LEMMA FlowsAre == Flows = FlowsOf(slab, Linked)
BY Zenon DEF Flows, FlowsOf, EntryOf

LEMMA FlowsAreAfter == Flows' = FlowsOf(slab', Linked')
BY ZenonT(60) DEF Flows, FlowsOf, EntryOf

LEMMA EntryTypes ==
  ASSUME Inv
  PROVE  /\ Linked \subseteq Slot
         /\ \A e \in Linked : slab[e].key \in Flow /\ slab[e].backend_id \in BackendId
         /\ \A e, x \in Linked : slab[e].key = slab[x].key => e = x
         /\ Table!Known = {slab[e].key : e \in Linked}
         /\ DOMAIN Flows = Table!Known
         /\ \A e \in Linked : Flows[slab[e].key] = [backend |-> slab[e].backend_id,
                                                    last_seen |-> slab[e].last_seen]
<1>1. Linked \subseteq Slot
  BY Chaining DEF Inv
<1>2. \A e \in Linked : slab[e].key \in Flow /\ slab[e].backend_id \in BackendId
  BY LinkedIs DEF Inv, EntryInv
<1>3. \A e, x \in Linked : slab[e].key = slab[x].key => e = x
  BY Zenon DEF Inv, EntryInv
<1>4. Table!Known = {slab[e].key : e \in Linked} /\ DOMAIN Flows = Table!Known
  BY FlowsAre, FlowsOfDomain, ZenonT(60) DEF Table!Known
<1>5. \A e \in Linked : Flows[slab[e].key] = [backend |-> slab[e].backend_id,
                                              last_seen |-> slab[e].last_seen]
  <2>1. ASSUME NEW e \in Linked
        PROVE  FlowsOf(slab, Linked)[slab[e].key]
               = [backend |-> slab[e].backend_id, last_seen |-> slab[e].last_seen]
    BY <1>3, FlowsOfEntry, SMTT(60)
  <2>2. QED
    BY ZenonT(60), <2>1, FlowsAre
<1>6. QED
  BY ZenonT(60), <1>1, <1>2, <1>3, <1>4, <1>5

(* The map after a step, from the slab and the linked entries after it. *)
LEMMA FlowsAfter ==
  ASSUME Inv'
  PROVE  /\ Flows' = [k \in {slab'[e].key : e \in Linked'} |-> Flows'[k]]
         /\ \A e \in Linked' : Flows'[slab'[e].key] = [backend |-> slab'[e].backend_id,
                                                       last_seen |-> slab'[e].last_seen]
<1>1. \A e, x \in Linked' : slab'[e].key = slab'[x].key => e = x
  BY Zenon DEF Inv, EntryInv
<1>2. DOMAIN FlowsOf(slab', Linked') = {slab'[e].key : e \in Linked'}
  BY FlowsOfDomain, Zenon
<1>3. Flows' = [k \in {slab'[e].key : e \in Linked'} |-> Flows'[k]]
  <2>1. FlowsOf(slab', Linked') = [k \in DOMAIN FlowsOf(slab', Linked') |-> FlowsOf(slab', Linked')[k]]
    BY DEF FlowsOf
  <2>2. QED
    BY <1>2, <2>1, FlowsAreAfter, ZenonT(60)
<1>4. \A e \in Linked' : Flows'[slab'[e].key] = [backend |-> slab'[e].backend_id,
                                                 last_seen |-> slab'[e].last_seen]
  <2>1. \A e \in Linked' : FlowsOf(slab', Linked')[slab'[e].key]
                            = [backend |-> slab'[e].backend_id, last_seen |-> slab'[e].last_seen]
    BY <1>1, FlowsOfEntry
  <2>2. QED
    BY ZenonT(60), <2>1, FlowsAreAfter
<1>5. QED
  BY <1>3, <1>4

LEMMA QuietRefines ==
  ASSUME Inv, UNCHANGED <<buckets, slab, free_list, active>>
  PROVE  Flows' = Flows
<1>1. Linked' = Linked
  BY QuietStep
<1>2. QED
  BY <1>1, FlowsAre, FlowsAreAfter, ZenonT(60)

LEMMA LookupRefines ==
  ASSUME Inv, Inv', NEW k \in Flow, conntrack_lookup(k)
  PROVE  Table!Refresh(k)
<1>1. TypeOK /\ ListInv /\ buckets' = buckets /\ free_list' = free_list /\ now' = now
  BY DEF Inv, conntrack_lookup
<1>2. PICK x \in Chained(BucketOf(k)) : /\ slab[x].key = k
                                        /\ slab' = [slab EXCEPT ![x].last_seen = now]
  BY <1>1, LookupStep, ZenonT(60)
<1>3. slab \in [Slot -> [key : Flow \cup {NULL}, backend_id : BackendId \cup {NULL},
                         last_seen : 0 .. MaxNow, next : Slot \cup {NULL}]]
  BY <1>1, SlabType
<1>4. x \in Linked /\ x \in Slot /\ Linked \subseteq Slot
  BY ZenonT(60), <1>1, <1>2, Chaining, LinkedIs, Numbers
<1>5. \A e \in Slot : /\ slab'[e].key = slab[e].key /\ slab'[e].backend_id = slab[e].backend_id
                      /\ slab'[e].next = slab[e].next
                      /\ slab'[e].last_seen = IF e = x THEN now ELSE slab[e].last_seen
  BY ZenonT(60), <1>2, <1>3, <1>4
<1>6. Nexts(slab') = Nexts(slab)
  BY <1>5 DEF Nexts
<1>7. Linked' = Linked
  BY <1>1, <1>6, SameLists, ZenonT(60)
<1>8. {slab'[e].key : e \in Linked'} = Table!Known
  BY SMTT(60), <1>4, <1>5, <1>7, EntryTypes
<1>9. k \in Table!Known
  BY <1>2, <1>4, EntryTypes
<1>10. ASSUME NEW f \in Table!Known
       PROVE  Flows'[f] = [Flows EXCEPT ![k].last_seen = now][f]
  <2>1. PICK e \in Linked : slab[e].key = f
    BY EntryTypes
  <2>2. e \in Slot /\ slab'[e].key = f /\ Flows[f] = [backend |-> slab[e].backend_id,
                                                      last_seen |-> slab[e].last_seen]
    BY ZenonT(60), <1>4, <1>5, <2>1, EntryTypes
  <2>3. Flows'[f] = [backend |-> slab'[e].backend_id, last_seen |-> slab'[e].last_seen]
    BY SMTT(60), <1>7, <2>2, FlowsAfter
  <2>4. e = x <=> f = k
    BY ZenonT(60), <1>2, <1>4, <2>1, EntryTypes
  <2>5. DOMAIN Flows = Table!Known
    BY EntryTypes
  <2>6. QED
    <3> DEFINE h == [Flows EXCEPT ![k].last_seen = now]
    <3>1. CASE f = k
      <4>1. h[f] = [Flows[f] EXCEPT !.last_seen = now]
        BY <2>5, <3>1, Zenon
      <4>2. h[f] = [backend |-> slab[e].backend_id, last_seen |-> now]
        BY SMTT(60), <2>2, <4>1
      <4>3. slab'[e].backend_id = slab[e].backend_id /\ slab'[e].last_seen = now
        BY SMTT(60), <1>5, <2>2, <2>4, <3>1
      <4>4. QED
        BY <2>3, <4>2, <4>3, ZenonT(60)
    <3>2. CASE f # k
      <4>1. h[f] = Flows[f]
        BY <2>5, <3>2, ZenonT(60)
      <4>2. slab'[e].backend_id = slab[e].backend_id /\ slab'[e].last_seen = slab[e].last_seen
        BY ZenonT(60), <1>5, <2>2, <2>4, <3>2
      <4>3. QED
        BY <2>2, <2>3, <4>1, <4>2, ZenonT(60)
    <3>3. QED
      BY <3>1, <3>2, Zenon
<1>11. Flows' = [Flows EXCEPT ![k].last_seen = now]
  <2>1. Flows' = [f \in Table!Known |-> Flows'[f]]
    BY <1>8, FlowsAfter, Zenon
  <2>2. DOMAIN Flows = Table!Known
    BY ZenonT(60), EntryTypes
  <2>3. QED
    BY <1>10, <2>1, <2>2
<1>12. QED
  BY ZenonT(60), <1>1, <1>9, <1>11 DEF Table!Refresh

LEMMA InsertRefines ==
  ASSUME Inv, Inv', NEW k \in Flow, NEW b \in BackendId, conntrack_insert(k, b)
  PROVE  Table!Pin(k, b)
<1> DEFINE x == free_list
<1>1. TypeOK /\ ListInv /\ EntryInv /\ now' = now
  BY DEF Inv, conntrack_insert
<1>2. x \in Slot \ Linked /\ Linked' = Linked \cup {x}
  BY <1>1, InsertStep, ZenonT(60)
<1>3. slab' = [slab EXCEPT ![x] = [key |-> k, backend_id |-> b, last_seen |-> now,
                                   next |-> buckets[BucketOf(k)]]]
  BY DEF conntrack_insert
<1>4. slab \in [Slot -> [key : Flow \cup {NULL}, backend_id : BackendId \cup {NULL},
                         last_seen : 0 .. MaxNow, next : Slot \cup {NULL}]]
  BY ZenonT(60), <1>1, SlabType
<1>5. /\ slab'[x].key = k /\ slab'[x].backend_id = b /\ slab'[x].last_seen = now
      /\ \A e \in Slot : e # x => slab'[e] = slab[e]
  BY SMTT(60), <1>2, <1>3, <1>4
<1>6. Linked \subseteq Slot
  BY SMTT(60), EntryTypes
<1> HIDE DEF x
<1>7. k \notin Table!Known
  <2>1. SUFFICES ASSUME NEW e \in Linked, slab[e].key = k PROVE FALSE
    BY EntryTypes
  <2>2. PICK i \in Bucket : e \in Chained(i)
    BY LinkedIs
  <2>3. i = BucketOf(k)
    BY <1>1, <2>1, <2>2 DEF EntryInv
  <2>4. e \in Matches(k)
    BY <2>1, <2>2, <2>3, ZenonT(60) DEF Matches
  <2>5. QED
    BY SMTT(60), <2>4 DEF conntrack_insert
<1>8. Cardinality(Table!Known) < MaxFlows
  <2>1. IsFiniteSet(Linked) /\ Cardinality(Linked) \in Nat
    BY <1>6, SlotCount
  <2>2. Cardinality(Linked) + 1 \in 0 .. MaxFlows
    <3>1. Linked \cup {x} \subseteq Slot
      BY <1>2, <1>6
    <3>2. Cardinality(Linked \cup {x}) \in 0 .. MaxFlows
      BY <3>1, SlotCount
    <3>3. Cardinality(Linked \cup {x}) = Cardinality(Linked) + 1
      BY SMTT(60), <1>2, <1>6, SlotCount
    <3>4. QED
      BY <3>2, <3>3
  <2>3. Cardinality(Table!Known) <= Cardinality(Linked) /\ Cardinality(Table!Known) \in Nat
    <3> DEFINE key == [e \in Linked |-> slab[e].key]
    <3>1. key \in Surjection(Linked, Table!Known)
      <4>1. Table!Known = {slab[e].key : e \in Linked}
        BY EntryTypes
      <4>2. QED
        BY ZenonT(60), <4>1 DEF Surjection
    <3> HIDE DEF key
    <3>2. IsFiniteSet(Table!Known) /\ Cardinality(Table!Known) <= Cardinality(Linked)
      BY <2>1, <3>1, FS_Surjection, ZenonT(60)
    <3>3. QED
      BY <3>2, FS_CardinalityType
  <2>4. QED
    BY SMTT(60), <2>1, <2>2, <2>3, ConntrackAssumption
<1>9. {slab'[e].key : e \in Linked'} = Table!Known \cup {k}
  <2>1. \A e \in Linked : e \in Slot /\ e # x /\ slab'[e] = slab[e]
    BY ZenonT(60), <1>2, <1>5, <1>6
  <2>2. Table!Known = {slab[e].key : e \in Linked}
    BY EntryTypes
  <2>3. QED
    BY ZenonT(60), <1>2, <1>5, <2>1, <2>2
<1>10. ASSUME NEW f \in Table!Known \cup {k}
       PROVE  Flows'[f] = IF f = k THEN [backend |-> b, last_seen |-> now] ELSE Flows[f]
  <2>1. CASE f = k
    <3>1. x \in Linked'
      BY ZenonT(60), <1>2
    <3>2. QED
      BY SMTT(60), <1>5, <2>1, <3>1, FlowsAfter
  <2>2. CASE f # k
    <3>1. PICK e \in Linked : slab[e].key = f
      BY <2>2, EntryTypes
    <3>2. slab'[e] = slab[e] /\ e \in Linked'
      BY ZenonT(60), <1>2, <1>5, <1>6
    <3>3. Flows[f] = [backend |-> slab[e].backend_id, last_seen |-> slab[e].last_seen]
      BY SMTT(60), <3>1, EntryTypes
    <3>4. Flows'[slab'[e].key] = [backend |-> slab'[e].backend_id, last_seen |-> slab'[e].last_seen]
      BY <3>2, FlowsAfter
    <3>5. QED
      BY ZenonT(60), <2>2, <3>1, <3>2, <3>3, <3>4
  <2>3. QED
    BY ZenonT(60), <2>1, <2>2
<1>11. Flows' = [f \in Table!Known \cup {k} |->
                  IF f = k THEN [backend |-> b, last_seen |-> now] ELSE Flows[f]]
  <2>1. Flows' = [f \in Table!Known \cup {k} |-> Flows'[f]]
    BY <1>9, FlowsAfter, ZenonT(60)
  <2>2. QED
    BY <1>10, <2>1
<1>12. Table!Cardinality(Table!Known) = Cardinality(Table!Known)
  BY DEF Cardinality, Table!Cardinality
<1>13. QED
  BY ZenonT(60), <1>1, <1>7, <1>8, <1>11, <1>12 DEF Table!Pin

LEMMA EvictRefines ==
  ASSUME Inv, Inv', ReapEvict
  PROVE  \E S \in SUBSET Table!Known : Table!Evict(S)
<1> DEFINE k == slab[Target].key
<1>1. TypeOK /\ ListInv /\ EntryInv /\ SweepInv /\ now' = now /\ sweep.pc = "link"
  BY DEF Inv, ReapEvict
<1>2. PICK p \in 0 .. Len(Chains[Swept]) : At(p)
  BY <1>1 DEF SweepInv
<1>3. Target \in Chained(Swept) /\ Linked' = Linked \ {Target}
  BY <1>1, <1>2, EvictStep, ZenonT(40)
<1>4. Target \in Linked /\ Linked \subseteq Slot
  BY ZenonT(60), <1>1, <1>3, LinkedIs, SweptBucket, EntryTypes
<1>5. /\ slab \in [Slot -> [key : Flow \cup {NULL}, backend_id : BackendId \cup {NULL},
                            last_seen : 0 .. MaxNow, next : Slot \cup {NULL}]]
      /\ now \in 0 .. MaxNow /\ sweep.now \in 0 .. MaxNow /\ sweep.now <= now
  BY <1>1 DEF TypeOK, SweepInv
<1>6. ASSUME NEW e \in Slot
      PROVE  /\ slab'[e].key = slab[e].key /\ slab'[e].backend_id = slab[e].backend_id
             /\ slab'[e].last_seen = slab[e].last_seen
  BY ZenonT(60), <1>5 DEF ReapEvict, Unlink
<1>7. Table!Expired(k, now)
  <2>1. Late(slab, Target, sweep.now)
    BY DEF ReapEvict, Expired, Late
  <2>2. Target \in Slot /\ now \in Int /\ sweep.now \in Int
    BY <1>4, <1>5
  <2>3. Late(slab, Target, now)
    BY ZenonT(60), <1>1, <1>4, <1>5, <2>1, <2>2, LateLater
  <2>4. Flows[k] = [backend |-> slab[Target].backend_id, last_seen |-> slab[Target].last_seen]
    BY <1>4, EntryTypes
  <2>5. QED
    BY SMTT(60), <2>3, <2>4 DEF Late, Table!Expired
<1>8. \A e \in Linked : slab[e].key = k => e = Target
  BY ZenonT(60), <1>4, EntryTypes
<1> HIDE DEF k
<1>9. {slab'[e].key : e \in Linked'} = Table!Known \ {k}
  <2>1. Table!Known = {slab[e].key : e \in Linked}
    BY ZenonT(60), EntryTypes
  <2>2. QED
    <3>1. ASSUME NEW e \in Linked' PROVE slab'[e].key \in Table!Known \ {k}
      BY ZenonT(60), <1>3, <1>4, <1>6, <1>8, <2>1
    <3>2. ASSUME NEW f \in Table!Known \ {k} PROVE \E e \in Linked' : slab'[e].key = f
      BY SMTT(60), <1>3, <1>4, <1>6, <2>1 DEF k
    <3>3. QED
      BY <3>1, <3>2, ZenonT(60)
<1>10. ASSUME NEW f \in Table!Known \ {k} PROVE Flows'[f] = Flows[f]
  <2>1. PICK e \in Linked : slab[e].key = f
    BY EntryTypes
  <2>2. e \in Linked' /\ e \in Slot
    BY <1>3, <1>4, <2>1 DEF k
  <2>3. Flows[f] = [backend |-> slab[e].backend_id, last_seen |-> slab[e].last_seen]
    BY ZenonT(60), <2>1, EntryTypes
  <2>4. Flows'[slab'[e].key] = [backend |-> slab'[e].backend_id, last_seen |-> slab'[e].last_seen]
    BY <2>2, FlowsAfter
  <2>5. QED
    BY ZenonT(60), <1>6, <2>1, <2>2, <2>3, <2>4
<1>11. Flows' = Restrict(Flows, Table!Known \ {k})
  <2>1. Flows' = [f \in Table!Known \ {k} |-> Flows'[f]]
    BY <1>9, FlowsAfter, ZenonT(60)
  <2>2. QED
    BY <1>10, <2>1 DEF Restrict
<1>12. {k} \in SUBSET Table!Known
  BY <1>4, EntryTypes DEF k
<1>13. Table!Evict({k})
  BY <1>1, <1>7, <1>11 DEF Table!Evict, Restrict, Table!Restrict
<1>14. QED
  BY SMTT(60), <1>12, <1>13

(* The slab with its buckets, free list and sweep in single links is the   *)
(* bounded map of FlowTable: lookups refresh, inserts pin a new flow while *)
(* there is room and disturb no other, and a sweep drops a flow only past  *)
(* its timeout.                                                            *)
THEOREM ConntrackRefinement == Spec => ImplementsFlowTable
<1>1. Init => Table!ftInit
  <2> SUFFICES ASSUME Init PROVE Table!ftInit
    OBVIOUS
  <2>1. Linked = {}
    <3>1. active = 0 /\ Inv
      BY ZenonT(60), InitInv DEF Init
    <3>2. IsFiniteSet(Linked) /\ Cardinality(Linked) = 0
      BY ZenonT(60), <3>1, EntryTypes, SlotCount DEF Inv, ActiveIsLinked
    <3>3. QED
      BY <3>2, FS_EmptySet
  <2>2. Flows = [k \in {} |-> 0]
    BY <2>1 DEF Flows
  <2>3. QED
    BY <2>2 DEF Init, Table!ftInit
<1>2. Inv /\ Inv' /\ [Next]_vars => [Table!ftNext]_(Table!ftVars)
  <2> SUFFICES ASSUME Inv, Inv', [Next]_vars PROVE [Table!ftNext]_(Table!ftVars)
    OBVIOUS
  <2>1. CASE UNCHANGED vars
    BY <2>1, QuietRefines DEF vars, Table!ftVars
  <2>2. CASE Advance
    <3>1. Flows' = Flows
      BY <2>2, QuietRefines DEF Advance
    <3>2. QED
      BY <2>2, <3>1 DEF Advance, Table!Advance, Table!ftNext
  <2>3. ASSUME NEW k \in Flow, conntrack_lookup(k) PROVE Table!ftNext
    BY <2>3, LookupRefines DEF Table!ftNext
  <2>4. ASSUME NEW k \in Flow, NEW b \in BackendId, conntrack_insert(k, b) PROVE Table!ftNext
    BY <2>4, InsertRefines DEF Table!ftNext
  <2>5. CASE ReapEvict
    BY <2>5, EvictRefines DEF Table!ftNext
  <2>6. CASE ReapStart \/ ReapBucket \/ ReapDone \/ ReapSkip \/ ReapChainEnd
    <3>1. UNCHANGED <<buckets, slab, free_list, active>> /\ now' = now
      BY <2>6 DEF ReapStart, ReapBucket, ReapDone, ReapSkip, ReapChainEnd
    <3>2. QED
      BY <3>1, QuietRefines DEF Table!ftVars
  <2>7. QED
    BY <2>1, <2>2, <2>3, <2>4, <2>5, <2>6, ZenonT(60) DEF Next, Reap
<1>3. QED
  BY <1>1, <1>2, ConntrackInvariant, PTL DEF Spec, ImplementsFlowTable, Table!ftSpec
=============================================================================
