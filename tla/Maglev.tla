------------------------------- MODULE Maglev -------------------------------
(***************************************************************************)
(* maglev_table_generate of src/maglev/maglev_table.c: each backend has a  *)
(* preference order of the m slots, offset, offset + skip, ... modulo m,   *)
(* and the backends take turns to claim the first free slot of theirs.     *)
(*                                                                         *)
(* The hash functions enter only through offset and skip, which take every *)
(* value they can have.  The size is one maglev_is_prime accepts, as       *)
(* main.c:142 demands before anything is built.                            *)
(***************************************************************************)
EXTENDS Prime, Sequences, FiniteSets, Functions

CONSTANTS
  Id,           \* backend ids
  MaxSize       \* bound: the largest size tried with each number of backends

ASSUME IdAssumption == Id \subseteq Nat /\ IsFiniteSet(Id)
ASSUME MaxSizeAssumption ==
  \A count \in 0 .. Cardinality(Id) : IsUint32(MaxSize[count + 1])

VARIABLES
  m,            \* the table's size
  sorted,       \* the backends, as sorted
  offset, skip, \* of each backend: what its name hashes to
  lookup,       \* t->lookup: slot -> id, or -1
  next,         \* the first preference of each backend not yet tried
  round_robin,  \* turns taken so far; filled is the same number
  j             \* preference the current turn is at

vars == <<m, sorted, offset, skip, lookup, next, round_robin, j>>

n == Len(sorted)

Slot == 0 .. m - 1

(* The orders a set of backends can be enumerated in, and the one by id. *)
Orders(S) == {s \in [1 .. Cardinality(S) -> S] : IsInjective(s)}

Ascending(S) ==
  CHOOSE s \in Orders(S) : \A a, b \in 1 .. Cardinality(S) : a < b => s[a] < s[b]

(* Mutant: in the caller's order. *)
Unsorted(input) == input

(* qsort by id, from whatever order the caller enumerated them in. *)
Canonical(input) == Ascending(Range(input))

(* (uint32_t)((offset[b] + (uint64_t)k * skip[b]) % m) *)
Preference(b, k) == (offset[b] + k * skip[b]) % m

(* Mutant: the turn does not come round again. *)
TurnClamped == sorted[IF round_robin < n THEN round_robin + 1 ELSE n]

(* The backend whose turn it is. *)
Turn == sorted[(round_robin % n) + 1]

Sizes(count) == {s \in 0 .. MaxSize[count + 1] : maglev_is_prime(s)}

Init ==
  /\ \E S \in SUBSET Id : \E input \in Orders(S) :
       /\ sorted = Canonical(input)
       /\ m \in Sizes(Cardinality(S))
  /\ offset \in [Range(sorted) -> Slot]
  /\ skip \in [Range(sorted) -> 1 .. m - 1]
  /\ lookup = [c \in Slot |-> -1]
  /\ next = [b \in Range(sorted) |-> 0]
  /\ round_robin = 0
  /\ j = 0

-----------------------------------------------------------------------------
(* With no backends every slot stays -1. *)
Done == n = 0 \/ round_robin = m

(* Mutant: the retry starts over. *)
SkipRestarts ==
  /\ ~Done
  /\ lookup[Preference(Turn, j)] # -1
  /\ j' = next[Turn]
  /\ UNCHANGED <<m, sorted, offset, skip, lookup, next, round_robin>>

(* The preference is taken: try the next one. *)
Skip ==
  /\ ~Done
  /\ lookup[Preference(Turn, j)] # -1
  /\ j' = j + 1
  /\ UNCHANGED <<m, sorted, offset, skip, lookup, next, round_robin>>

(* It is free: claim it, and let the next backend start where it left off. *)
Claim ==
  /\ ~Done
  /\ lookup[Preference(Turn, j)] = -1
  /\ lookup' = [lookup EXCEPT ![Preference(Turn, j)] = Turn]
  /\ next' = [next EXCEPT ![Turn] = j + 1]
  /\ round_robin' = round_robin + 1
  /\ j' = next'[sorted[((round_robin + 1) % n) + 1]]
  /\ UNCHANGED <<m, sorted, offset, skip>>

Terminated == Done /\ UNCHANGED vars

Next == Skip \/ Claim \/ Terminated

Spec == Init /\ [][Next]_vars

(* The loop runs on until it is finished. *)
FairSpec == Spec /\ WF_vars(Next)

-----------------------------------------------------------------------------
(* Every variable has its type; no preference past the last is tried, so   *)
(* that the inner loop ends and j * skip stays far below 2^64.             *)
TypeOK ==
  /\ m \in Nat
  /\ lookup \in [Slot -> Range(sorted) \cup {-1}]
  /\ next \in [Range(sorted) -> 0 .. m]
  /\ round_robin \in 0 .. m
  /\ j \in 0 .. m

Share(b) == Cardinality({c \in Slot : lookup[c] = b})

(* At any time no backend has been given two slots more than another, so   *)
(* the finished table is as even as it can be.                             *)
Balanced == \A a, b \in Range(sorted) : Share(a) <= Share(b) + 1

(* The table as the algorithm is described: turn by turn in this order of  *)
(* the ids, the first free slot of the whole preference list of each.      *)
FirstFree(pref, table) ==
  pref[CHOOSE k \in DOMAIN pref :
         table[pref[k]] = -1 /\ \A l \in 0 .. k - 1 : table[pref[l]] # -1]

TakeTurn(order, prefs, t, table) ==
  LET id == order[((t - 1) % Len(order)) + 1]
  IN [table EXCEPT ![FirstFree(prefs[id], table)] = id]

Populated(order, prefs, size, turns) ==
  LET after[t \in Nat] ==
        IF t = 0 THEN [c \in 0 .. size - 1 |-> -1]
        ELSE TakeTurn(order, prefs, t, after[t - 1])
  IN after[turns]

Reference ==
  LET prefs == [b \in Range(sorted) |-> [k \in Slot |-> Preference(b, k)]]
  IN Populated(Ascending(Range(sorted)), prefs, m, m)

(* Whatever order the caller enumerated the backends in, the finished      *)
(* table is the one their set determines (maglev_table.c:55-62).           *)
FinishedIsReference == Done /\ n > 0 => lookup = Reference

(* The fill ends: with a prime size every preference order visits every    *)
(* slot (maglev_table.h:37-40).                                            *)
FillEnds == <>Done
=============================================================================
