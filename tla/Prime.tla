------------------------------- MODULE Prime --------------------------------
(* The test of src/maglev/maglev_table.c that main applies to the table    *)
(* size before it starts.                                                  *)
EXTENDS Integers

(* What an unsigned number of 32 bits can be; 2^16 squared is 2^32. *)
HalfWord == 65536

IsUint32(n) == n \in Nat /\ n \div HalfWord < HalfWord

(* A bound that no divisor the loop tries exceeds: it stops at the first d *)
(* whose square is above n.                                                *)
Root(n) == CHOOSE r \in {16, 256, 4096, HalfWord} : n \div r < r

maglev_is_prime(n) ==
  /\ n >= 2
  /\ n % 2 = 0 => n = 2
  /\ \A d \in 3 .. Root(n) : d % 2 = 1 /\ d <= n \div d => n % d # 0
=============================================================================
