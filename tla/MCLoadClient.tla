---------------------------- MODULE MCLoadClient ----------------------------
(* One connection for each request, or a pool, which can shrink and grow.  *)
EXTENDS LoadClient

CONSTANTS r1, r2, c1

MCConfig ==
  {[retries |-> 0, pool_size |-> 0, max_in_flight |-> 1],
   [retries |-> 1, pool_size |-> 1, max_in_flight |-> 2]}
=============================================================================
