----------------------------- MODULE Conntrack ------------------------------
(***************************************************************************)
(* The connection table of src/conntrack/conntrack.c: a slab of entries    *)
(* allocated once, linked either into the chain of their hash bucket or    *)
(* into the free list, and swept a few buckets per reaper tick by a cursor *)
(* that persists across ticks.  All of it runs on the datapath thread;     *)
(* `active' alone is read by others, in the middle of a sweep too, so a    *)
(* sweep is modelled one link at a time.                                   *)
(***************************************************************************)
EXTENDS Integers, Sequences, FiniteSets, Functions

CONSTANTS
  Flow,         \* flow keys
  BackendId,    \* ids a flow can be pinned to
  MaxFlows,     \* max_flows of conntrack_create
  Hash,         \* flow_hash: Flow -> Nat
  Timeout,      \* Flow -> the idle timeout of its protocol
  MaxNow,       \* bound: the clock stops here
  NULL

ASSUME ConntrackAssumption ==
  /\ MaxFlows \in Nat /\ MaxNow \in Nat
  /\ Hash \in [Flow -> Nat] /\ Timeout \in [Flow -> Nat]
  /\ NULL \notin 1 .. MaxFlows

VARIABLES
  buckets,      \* ct->buckets: the first entry of every chain
  slab,         \* ct->slab
  free_list,    \* ct->free_list
  sweep_cursor, \* ct->sweep_cursor
  active,       \* ct->active
  sweep,        \* locals of conntrack_reap_slice
  now,          \* now_ns()
  overdue       \* history: ticks each entry has been expired for,
                \* counted up to one more than a turn of the cursor

vars == <<buckets, slab, free_list, sweep_cursor, active, sweep, now, overdue>>

(* p after i turns of next_pow2's loop *)
Shifted[i \in Nat] == IF i = 0 THEN 1 ELSE 2 * Shifted[i - 1]

(* The loop ends at the first p that is not below x. *)
next_pow2(x) ==
  Shifted[CHOOSE i \in 0 .. x : x <= Shifted[i] /\ \A k \in 0 .. i - 1 : Shifted[k] < x]

(* (size_t)(max_flows / 0.75) + 1 buckets at least. *)
bucket_count == next_pow2((4 * MaxFlows) \div 3 + 1)

reaper_buckets_per_tick == bucket_count \div 60 + 1

Bucket == 0 .. bucket_count - 1
Slot == 1 .. MaxFlows

(* A power of two, so that masking the hash is taking it modulo the count. *)
BucketOf(k) == Hash[k] % bucket_count

Idle == [pc |-> "idle", n |-> 0, link |-> <<"bucket", 0>>, now |-> 0]

Init ==
  /\ buckets = [i \in Bucket |-> NULL]
  /\ slab = [e \in Slot |-> [key |-> NULL, backend_id |-> NULL, last_seen |-> 0,
                             next |-> IF e < MaxFlows THEN e + 1 ELSE NULL]]
  /\ free_list = IF MaxFlows > 0 THEN 1 ELSE NULL
  /\ sweep_cursor = 0
  /\ active = 0
  /\ sweep = Idle
  /\ now = 0
  /\ overdue = [e \in Slot |-> 0]

(* The entries from e along the links of s, cut after one more than there  *)
(* are, so that a cycle shows as a list that is too long.                  *)
Walk(s, e) ==
  LET walk[n \in 0 .. MaxFlows + 1] ==
        [x \in Slot \cup {NULL} |->
           IF x = NULL \/ n = 0 THEN <<>> ELSE <<x>> \o walk[n - 1][s[x].next]]
  IN walk[MaxFlows + 1][e]

Chain(e) == Walk(slab, e)

Chained(i) == Range(Chain(buckets[i]))
Linked == UNION {Chained(i) : i \in Bucket}

-----------------------------------------------------------------------------
Advance ==
  /\ now < MaxNow
  /\ now' = now + 1
  /\ UNCHANGED <<buckets, slab, free_list, sweep_cursor, active, sweep, overdue>>

Matches(k) == {e \in Chained(BucketOf(k)) : slab[e].key = k}

(* A hit: the first match along the chain is refreshed. *)
conntrack_lookup(k) ==
  /\ sweep.pc = "idle"
  /\ LET chain == Chain(buckets[BucketOf(k)])
     IN \E i \in DOMAIN chain :
          /\ slab[chain[i]].key = k /\ \A j \in 1 .. i - 1 : slab[chain[j]].key # k
          /\ slab' = [slab EXCEPT ![chain[i]].last_seen = now]
          /\ overdue' = [overdue EXCEPT ![chain[i]] = 0]
  /\ UNCHANGED <<buckets, free_list, sweep_cursor, active, sweep, now>>

(* While the slab has a free entry.  The function does not look for the    *)
(* key: its only caller has just missed it, on the thread that is the only *)
(* one to insert (datapath.c:101-118), and that miss is part of the guard. *)
conntrack_insert(k, b) ==
  /\ sweep.pc = "idle"
  /\ Matches(k) = {}
  /\ free_list # NULL
  /\ LET e == free_list IN
       /\ free_list' = slab[e].next
       /\ slab' = [slab EXCEPT ![e] = [key |-> k, backend_id |-> b, last_seen |-> now,
                                       next |-> buckets[BucketOf(k)]]]
       /\ buckets' = [buckets EXCEPT ![BucketOf(k)] = e]
       /\ overdue' = [overdue EXCEPT ![e] = 0]
  /\ active' = active + 1
  /\ UNCHANGED <<sweep_cursor, sweep, now>>

-----------------------------------------------------------------------------
(* conntrack_reap_slice, on a tick of the reaper's timer.                  *)

(* Mutant: evicts on the timeout itself. *)
ExpiredEarly(e, time) == time - slab[e].last_seen >= Timeout[slab[e].key]

Expired(e, time) == time - slab[e].last_seen > Timeout[slab[e].key]

buckets_to_scan == IF reaper_buckets_per_tick > bucket_count
                   THEN bucket_count ELSE reaper_buckets_per_tick

(* Ticks one full turn of the cursor takes. *)
TurnTicks == (bucket_count + buckets_to_scan - 1) \div buckets_to_scan

ReapStart ==
  /\ sweep.pc = "idle"
  /\ sweep' = [pc |-> "bucket", n |-> 0, link |-> <<"bucket", 0>>, now |-> now]
  /\ overdue' = [e \in Slot |-> IF e \in Linked /\ Expired(e, now) /\ overdue[e] <= TurnTicks
                                THEN overdue[e] + 1 ELSE overdue[e]]
  /\ UNCHANGED <<buckets, slab, free_list, sweep_cursor, active, now>>

ReapBucket ==
  /\ sweep.pc = "bucket"
  /\ sweep.n < buckets_to_scan
  /\ sweep' = [sweep EXCEPT !.pc = "link", !.n = @ + 1, !.link = <<"bucket", sweep_cursor>>]
  /\ sweep_cursor' = (sweep_cursor + 1) % bucket_count
  /\ UNCHANGED <<buckets, slab, free_list, active, now, overdue>>

ReapDone ==
  /\ sweep.pc = "bucket"
  /\ sweep.n = buckets_to_scan
  /\ sweep' = Idle
  /\ UNCHANGED <<buckets, slab, free_list, sweep_cursor, active, now, overdue>>

(* *link, where link points to a bucket's head or to an entry's next. *)
Target == IF sweep.link[1] = "bucket" THEN buckets[sweep.link[2]] ELSE slab[sweep.link[2]].next

(* Mutant: leaves the chain at its first live entry. *)
ReapSkipChain ==
  /\ sweep.pc = "link"
  /\ Target # NULL
  /\ ~Expired(Target, sweep.now)
  /\ sweep' = [sweep EXCEPT !.pc = "bucket"]
  /\ UNCHANGED <<buckets, slab, free_list, sweep_cursor, active, now, overdue>>

ReapSkip ==
  /\ sweep.pc = "link"
  /\ Target # NULL
  /\ ~Expired(Target, sweep.now)
  /\ sweep' = [sweep EXCEPT !.link = <<"entry", Target>>]
  /\ UNCHANGED <<buckets, slab, free_list, sweep_cursor, active, now, overdue>>

(* *link = e->next, and e goes to the head of the free list. *)
Unlink(e) ==
  /\ slab' = [x \in Slot |->
                IF x = e THEN [slab[e] EXCEPT !.next = free_list]
                ELSE IF sweep.link = <<"entry", x>> THEN [slab[x] EXCEPT !.next = slab[e].next]
                ELSE slab[x]]
  /\ buckets' = IF sweep.link[1] = "bucket"
                THEN [buckets EXCEPT ![sweep.link[2]] = slab[e].next] ELSE buckets
  /\ free_list' = e
  /\ overdue' = [overdue EXCEPT ![e] = 0]

(* Mutant: an entry in the middle of a chain stays linked. *)
ReapEvictHeadOnly ==
  /\ sweep.pc = "link"
  /\ Target # NULL
  /\ Expired(Target, sweep.now)
  /\ LET e == Target IN
       /\ slab' = [slab EXCEPT ![e].next = free_list]
       /\ buckets' = [buckets EXCEPT ![(sweep_cursor + bucket_count - 1) % bucket_count] =
                         slab[e].next]
       /\ free_list' = e
       /\ overdue' = [overdue EXCEPT ![e] = 0]
  /\ active' = active - 1
  /\ UNCHANGED <<sweep_cursor, sweep, now>>

(* The evicted entry is unlinked and the sweep stays at the link. *)
ReapEvict ==
  /\ sweep.pc = "link"
  /\ Target # NULL
  /\ Expired(Target, sweep.now)
  /\ Unlink(Target)
  /\ active' = active - 1
  /\ UNCHANGED <<sweep_cursor, sweep, now>>

ReapChainEnd ==
  /\ sweep.pc = "link"
  /\ Target = NULL
  /\ sweep' = [sweep EXCEPT !.pc = "bucket"]
  /\ UNCHANGED <<buckets, slab, free_list, sweep_cursor, active, now, overdue>>

Reap == ReapStart \/ ReapBucket \/ ReapDone \/ ReapSkip \/ ReapEvict \/ ReapChainEnd

Next ==
  \/ Advance
  \/ \E k \in Flow : conntrack_lookup(k)
  \/ \E k \in Flow, b \in BackendId : conntrack_insert(k, b)
  \/ Reap

Spec == Init /\ [][Next]_vars

-----------------------------------------------------------------------------
(* Every variable has its type. *)
TypeOK ==
  /\ buckets \in [Bucket -> Slot \cup {NULL}]
  /\ slab \in [Slot -> [key : Flow \cup {NULL}, backend_id : BackendId \cup {NULL},
                        last_seen : 0 .. MaxNow, next : Slot \cup {NULL}]]
  /\ free_list \in Slot \cup {NULL}
  /\ sweep_cursor \in Bucket
  /\ active \in 0 .. MaxFlows
  /\ sweep \in [pc : {"idle", "bucket", "link"}, n : 0 .. buckets_to_scan,
               link : ({"bucket"} \X Bucket) \cup ({"entry"} \X Slot), now : 0 .. MaxNow]
  /\ now \in 0 .. MaxNow
  /\ overdue \in [Slot -> Nat]

(* The free list and the chains share out the slab at every step of a      *)
(* sweep: no entry is on two lists, on none, or twice on one, and no list  *)
(* is a cycle (conntrack.c:86-95, 118-121).                                *)
SlabPartitioned ==
  LET lists == {Chain(free_list)} \cup {Chain(buckets[i]) : i \in Bucket}
  IN /\ \A l \in lists : IsInjective(l)
     /\ Range(Chain(free_list)) \cup Linked = Slot
     /\ Range(Chain(free_list)) \cap Linked = {}
     /\ \A i, j \in Bucket : Chained(i) \cap Chained(j) # {} => i = j

(* An expired entry is gone after one full turn of the cursor, although    *)
(* the cursor may just have passed its bucket when it expired.             *)
ReapedInOneTurn == \A e \in Slot : overdue[e] <= TurnTicks

-----------------------------------------------------------------------------
EntryOf(k) == CHOOSE e \in Linked : slab[e].key = k

Flows == [k \in {slab[e].key : e \in Linked} |->
            [backend |-> slab[EntryOf(k)].backend_id, last_seen |-> slab[EntryOf(k)].last_seen]]

Table == INSTANCE FlowTable WITH flows <- Flows

(* The linked slab with its bounded sweep implements the bounded map: in   *)
(* particular a flow is evicted only when it is past its timeout at that   *)
(* very moment, and an insert never disturbs another flow.                 *)
ImplementsFlowTable == Table!ftSpec
=============================================================================
