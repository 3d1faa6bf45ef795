----------------------------- MODULE FlowTable ------------------------------
(***************************************************************************)
(* What connection tracking promises, without slab, buckets or sweeps: a   *)
(* bounded map from flows to the backend each is pinned to.  A packet of a *)
(* known flow refreshes it, a flow keeps its backend for as long as it is  *)
(* in the map, and it leaves the map only after it has been silent longer  *)
(* than its protocol's timeout.                                            *)
(***************************************************************************)
EXTENDS Integers, FiniteSets, Functions

CONSTANTS
  Flow,         \* flow keys
  BackendId,    \* ids a flow can be pinned to
  MaxFlows,     \* entries of the slab
  Timeout,      \* idle timeout of each flow, by its protocol
  MaxNow        \* bound: the clock stops here

ASSUME MaxFlowsAssumption == MaxFlows \in Nat
ASSUME TimeoutAssumption == Timeout \in [Flow -> Nat]
ASSUME MaxNowAssumption == MaxNow \in Nat

VARIABLES
  flows,        \* flow -> its backend and when its last packet came
  now           \* the monotonic clock

ftVars == <<flows, now>>

Known == DOMAIN flows

Entry == [backend : BackendId, last_seen : 0 .. MaxNow]

ftTypeOK ==
  /\ Known \subseteq Flow
  /\ flows \in [Known -> Entry]
  /\ now \in 0 .. MaxNow

ftInit ==
  /\ flows = [k \in {} |-> 0]
  /\ now = 0

Advance ==
  /\ now < MaxNow
  /\ now' = now + 1
  /\ UNCHANGED flows

Refresh(k) ==
  /\ k \in Known
  /\ flows' = [flows EXCEPT ![k].last_seen = now]
  /\ UNCHANGED now

Pin(k, b) ==
  /\ k \in Flow \ Known
  /\ Cardinality(Known) < MaxFlows
  /\ flows' = [f \in Known \cup {k} |->
                 IF f = k THEN [backend |-> b, last_seen |-> now] ELSE flows[f]]
  /\ UNCHANGED now

Expired(k, time) == time - flows[k].last_seen > Timeout[k]

(* A sweep forgets any number of flows. *)
Evict(S) ==
  /\ \A k \in S : Expired(k, now)
  /\ flows' = Restrict(flows, Known \ S)
  /\ UNCHANGED now

ftNext ==
  \/ Advance
  \/ \E k \in Flow : Refresh(k)
  \/ \E S \in SUBSET Known : Evict(S)
  \/ \E k \in Flow, b \in BackendId : Pin(k, b)

ftSpec == ftInit /\ [][ftNext]_ftVars
=============================================================================
