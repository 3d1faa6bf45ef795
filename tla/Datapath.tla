------------------------------ MODULE Datapath ------------------------------
(***************************************************************************)
(* The forwarding thread of src/forward/datapath.c between its two         *)
(* neighbours: the connection table (FlowTable, which Conntrack            *)
(* implements) and the health-checking thread, which changes the backend   *)
(* table and installs the view of it that packets are forwarded with       *)
(* (RoutingTable, which TableGenerator implements).                        *)
(*                                                                         *)
(* A packet is handled in three steps, because the other thread may change *)
(* the installed view between the connection lookup and the read of the    *)
(* active snapshot, and between that read and the insertion.  now is the   *)
(* clock as this thread reads it, once per packet and once per tick.       *)
(***************************************************************************)
EXTENDS FlowTable, Packet

CONSTANTS
  MaglevTable,  \* eligible backends -> flow -> id, or -1 with none eligible
  NoView,       \* no snapshot is active
  NoPacket,     \* the thread is in epoll_wait
  Frame,        \* frames that arrive: their headers, their flow, and whether it is to the VIP
  Outer,        \* the outer header of frames to each backend, but for the length
  MaxPackets    \* bound: packets received

(* struct routing_snapshot, as far as a packet looks at it. *)
View == [routable : SUBSET BackendId, eligible : SUBSET BackendId]

(* The locals of handle_packet from the lookup on. *)
InHand == [key : Flow, ip_total_len : Word, hit : BOOLEAN, snap : View \cup {NoView},
           ready : BOOLEAN]

ASSUME BackendIdAssumption == BackendId \subseteq Nat

ASSUME NoPacketAssumption == NoPacket \notin InHand

ASSUME NoViewAssumption == NoView \notin View

ASSUME FrameAssumption ==
  Frame \subseteq [header : Header, key : Flow, to_vip : BOOLEAN]

ASSUME OuterAssumption == Outer \in [BackendId -> OuterHeader]

ASSUME MaglevTableAssumption ==
  /\ MaglevTable \in [SUBSET BackendId -> [Flow -> BackendId \cup {-1}]]
  /\ \A E \in SUBSET BackendId, k \in Flow :
       IF E = {} THEN MaglevTable[E][k] = -1 ELSE MaglevTable[E][k] \in E

VARIABLES
  healthy,      \* backend -> health
  draining,     \* backends whose admin state is DRAINING
  installed,    \* the active view
  pending,      \* the backend table changed and is being installed
  packet,       \* the packet in hand
  stats,        \* counters of struct lb_stats
  active_flows, flows_assigned,     \* per-backend counters
  everDown,     \* history: some backend has failed its checks
  sent          \* history: flow -> where its last packet was sent, and when

control == <<healthy, draining, installed, pending, everDown>>
counters == <<stats, active_flows, flows_assigned>>
vars == <<flows, now, control, packet, counters, sent>>

Counter == {"rx", "tx", "hits", "misses", "evictions", "parse_error",
            "no_backend", "backend_unhealthy", "conntrack_full", "uncounted"}

-----------------------------------------------------------------------------
(* Mutant: one set for both, so that a draining backend is neither. *)
wantOneSet ==
  LET open == {b \in BackendId : healthy[b]} \ draining
  IN [routable |-> open, eligible |-> open]

(* Mutant: draining is ignored. *)
wantUp ==
  LET up == {b \in BackendId : healthy[b]}
  IN [routable |-> up, eligible |-> up]

(* The view the backend table asks for: what snapshot_routable and         *)
(* snapshot_eligible return; nobody sets BACKEND_DISABLED.                 *)
want ==
  LET up == {b \in BackendId : healthy[b]}
  IN [routable |-> up, eligible |-> up \ draining]

(* backend_manager_set_health and backend_manager_set_admin_state: a       *)
(* change calls the subscriber, which rebuilds, before the next change.    *)
SetHealth(b) ==
  /\ ~pending
  /\ healthy' = [healthy EXCEPT ![b] = ~@]
  /\ everDown' = (everDown \/ healthy[b])
  /\ pending' = TRUE
  /\ UNCHANGED <<draining, installed, flows, now, packet, counters, sent>>

SetDraining(b) ==
  /\ ~pending
  /\ draining' = IF b \in draining THEN draining \ {b} ELSE draining \cup {b}
  /\ pending' = TRUE
  /\ UNCHANGED <<healthy, everDown, installed, flows, now, packet, counters, sent>>

Publish ==
  /\ pending
  /\ installed' = want
  /\ pending' = FALSE
  /\ UNCHANGED <<healthy, draining, everDown, flows, now, packet, counters, sent>>

(* Out of memory: the old view stays. *)
GiveUp ==
  /\ pending
  /\ pending' = FALSE
  /\ UNCHANGED <<healthy, draining, everDown, installed, flows, now, packet, counters, sent>>

-----------------------------------------------------------------------------
(* One more of each of these. *)
Count(names) == [c \in Counter |-> stats[c] + IF c \in names THEN 1 ELSE 0]

Receiving == packet = NoPacket /\ stats.rx < MaxPackets

Extract(f) == packet_extract_flow(f.header, raw_socket_recv(f.header))

(* Cut off or malformed: counted.  Of another protocol, or for another     *)
(* address: only the reception is.                                         *)
PassOver(f) ==
  /\ Receiving
  /\ Extract(f) # "ok" \/ ~f.to_vip
  /\ stats' = Count({"rx", IF Extract(f) = "truncated" THEN "parse_error" ELSE "uncounted"})
  /\ UNCHANGED <<flows, now, control, packet, active_flows, flows_assigned, sent>>

(* conntrack_lookup: a hit refreshes the entry. *)
Lookup(f) ==
  /\ Receiving
  /\ Extract(f) = "ok" /\ f.to_vip
  /\ IF f.key \in Known
     THEN Refresh(f.key) /\ stats' = Count({"rx", "hits"})
     ELSE UNCHANGED <<flows, now>> /\ stats' = Count({"rx", "misses"})
  /\ packet' = [key |-> f.key, ip_total_len |-> f.header.total_length, hit |-> f.key \in Known,
                snap |-> NoView, ready |-> FALSE]
  /\ UNCHANGED <<control, active_flows, flows_assigned, sent>>

(* table_generator_get_active *)
GetActive ==
  /\ packet # NoPacket /\ ~packet.ready
  /\ packet' = [packet EXCEPT !.snap = installed, !.ready = TRUE]
  /\ UNCHANGED <<flows, now, control, counters, sent>>

backend_id ==
  IF packet.hit THEN flows[packet.key].backend
  ELSE IF packet.snap = NoView THEN -1
  ELSE MaglevTable[packet.snap.eligible][packet.key]

(* Where the packet ends up: every early return of handle_packet. *)
Verdict ==
  IF packet.snap = NoView \/ backend_id = -1 THEN {"no_backend"}
  ELSE IF ~packet.hit /\ Cardinality(Known) = MaxFlows THEN {"conntrack_full"}
  ELSE IF backend_id \notin packet.snap.routable THEN {"backend_unhealthy"}
  ELSE IF gre_encap_build(TX_BUF_LEN, packet.ip_total_len) = 0 THEN {"parse_error"}
  ELSE {"uncounted", "tx"}                  \* the send failed or not

(* A miss that has a backend and room for an entry opens a flow, whatever  *)
(* becomes of the packet.                                                  *)
Opens == ~packet.hit /\ Verdict \cap {"no_backend", "conntrack_full"} = {}

(* History: the packet in hand is sent, or not. *)
Record(outcome) ==
  sent' = IF outcome # "tx" THEN sent
          ELSE [k \in DOMAIN sent \cup {packet.key} |->
                  IF k = packet.key THEN [backend |-> backend_id, at |-> now] ELSE sent[k]]

(* Mutant: the flow is counted when its first packet is sent. *)
DeliverCountsSent ==
  /\ packet # NoPacket /\ packet.ready
  /\ \E outcome \in Verdict :
       /\ stats' = Count({outcome})
       /\ Record(outcome)
       /\ IF Opens
          THEN /\ Pin(packet.key, backend_id)
               /\ flows_assigned' = [flows_assigned EXCEPT ![backend_id] = @ + 1]
               /\ active_flows' = IF outcome = "tx"
                                  THEN [active_flows EXCEPT ![backend_id] = @ + 1]
                                  ELSE active_flows
          ELSE UNCHANGED <<flows, now, active_flows, flows_assigned>>
  /\ packet' = NoPacket
  /\ UNCHANGED control

Deliver ==
  /\ packet # NoPacket /\ packet.ready
  /\ IF Opens
     THEN /\ Pin(packet.key, backend_id)
          /\ active_flows' = [active_flows EXCEPT ![backend_id] = @ + 1]
          /\ flows_assigned' = [flows_assigned EXCEPT ![backend_id] = @ + 1]
     ELSE UNCHANGED <<flows, now, active_flows, flows_assigned>>
  /\ \E outcome \in Verdict : stats' = Count({outcome}) /\ Record(outcome)
  /\ packet' = NoPacket
  /\ UNCHANGED control

(* Entries of S that are pinned to b. *)
On(S, b) == {k \in S : flows[k].backend = b}

(* Mutant: evictions are not counted. *)
TickUncounted ==
  /\ packet = NoPacket
  /\ \E S \in SUBSET Known :
       /\ Evict(S)
       /\ active_flows' = [b \in BackendId |-> active_flows[b] - Cardinality(On(S, b))]
  /\ UNCHANGED <<control, packet, stats, flows_assigned, sent>>

(* Mutant: a flow is evicted at its timeout, not after it. *)
TickEager ==
  /\ packet = NoPacket
  /\ \E S \in SUBSET {k \in Known : now - flows[k].last_seen >= Timeout[k]} :
       /\ flows' = Restrict(flows, Known \ S)
       /\ active_flows' = [b \in BackendId |-> active_flows[b] - Cardinality(On(S, b))]
       /\ stats' = [stats EXCEPT !.evictions = @ + Cardinality(S)]
  /\ UNCHANGED <<now, control, packet, flows_assigned, sent>>

(* reaper_on_timer_fired: a part of the table is swept, and every expired  *)
(* flow in it evicted through on_flow_evicted.                             *)
Tick ==
  /\ packet = NoPacket
  /\ \E S \in SUBSET Known :
       /\ Evict(S)
       /\ active_flows' = [b \in BackendId |-> active_flows[b] - Cardinality(On(S, b))]
       /\ stats' = [stats EXCEPT !.evictions = @ + Cardinality(S)]
  /\ UNCHANGED <<control, packet, flows_assigned, sent>>

TimePasses ==
  /\ packet = NoPacket
  /\ Advance
  /\ UNCHANGED <<control, packet, counters, sent>>

-----------------------------------------------------------------------------
Init ==
  /\ ftInit
  /\ healthy = [b \in BackendId |-> TRUE]
  /\ draining = {}
  /\ installed = want
  /\ pending = FALSE
  /\ everDown = FALSE
  /\ packet = NoPacket
  /\ stats = [c \in Counter |-> 0]
  /\ active_flows = [b \in BackendId |-> 0]
  /\ flows_assigned = [b \in BackendId |-> 0]
  /\ sent = [k \in {} |-> 0]

HealthThread ==
  \/ \E b \in BackendId : SetHealth(b) \/ SetDraining(b)
  \/ Publish
  \/ GiveUp

Next ==
  \/ HealthThread
  \/ \E f \in Frame : PassOver(f) \/ Lookup(f)
  \/ GetActive
  \/ Deliver
  \/ Tick
  \/ TimePasses

Spec == Init /\ [][Next]_vars

-----------------------------------------------------------------------------
(* Every variable has its type, and an unsigned counter is never           *)
(* decremented below zero.                                                 *)
TypeOK ==
  /\ ftTypeOK
  /\ healthy \in [BackendId -> BOOLEAN]
  /\ draining \subseteq BackendId
  /\ installed \in View
  /\ pending \in BOOLEAN /\ everDown \in BOOLEAN
  /\ packet \in InHand \cup {NoPacket}
  /\ stats \in [Counter -> Nat]
  /\ active_flows \in [BackendId -> Nat]
  /\ flows_assigned \in [BackendId -> Nat]

(* Each backend's active_flows gauge is the number of connections pinned   *)
(* to it, through every order of packets, table changes and evictions: it  *)
(* is what shows how far a drained backend has emptied.                    *)
GaugeIsExact == \A b \in BackendId : active_flows[b] = Cardinality(On(Known, b))

Held == IF packet # NoPacket THEN 1 ELSE 0
HeldMiss == IF packet # NoPacket /\ ~packet.hit THEN 1 ELSE 0

(* Every received packet is accounted for once: it was sent, dropped under *)
(* one reason, passed over in silence, or is in hand.  Every miss opened a *)
(* flow that is still known or was evicted, or was dropped for want of a   *)
(* backend or of room.                                                     *)
Conservation ==
  /\ stats.rx = stats.tx + stats.parse_error + stats.no_backend + stats.backend_unhealthy
                + stats.conntrack_full + stats.uncounted + Held
  /\ stats.misses = Cardinality(Known) + stats.evictions + stats.no_backend
                    + stats.conntrack_full + HeldMiss

(* As long as no backend fails its checks, no sequence of DRAIN and        *)
(* UNDRAIN lines makes a packet of a pinned flow be dropped                *)
(* (docs/draining.md:107-112).                                             *)
DrainDropsNothing == ~everDown => stats.backend_unhealthy = 0

(* A drained backend is given no new flow once the drained table is        *)
(* installed and no packet holds an older one.                             *)
DrainedTakesNoFlows ==
  [][\A b \in draining :
       /\ installed = want
       /\ packet # NoPacket /\ packet.ready => packet.snap = installed
       => flows_assigned'[b] = flows_assigned[b]]_vars

(* However long a frame, its headers and its packet say they are, the      *)
(* thread reads and writes inside its two buffers (datapath.c:76-149).     *)
FramesStayInBuffer == Receiving => \A f \in Frame : StaysInBuffer(f.header)

(* Every packet that is sent on goes out under a header that verifies.     *)
OuterHeaderVerifies ==
  packet # NoPacket /\ packet.ready /\ "tx" \in Verdict =>
    ChecksumVerifies([Outer[backend_id] EXCEPT !.total_len = outer_total_len(packet.ip_total_len)])

(* A connection stays where it is: a packet goes to the backend that the   *)
(* flow's last packet was sent to, unless that was longer ago than the     *)
(* flow's timeout, whatever was installed, evicted, refused or dropped     *)
(* between the two (datapath.c:100-149).                                   *)
FlowsKeepBackend ==
  [][\A k \in DOMAIN sent :
       now - sent[k].at <= Timeout[k] => sent'[k].backend = sent[k].backend]_vars

(* The inductive invariant: the flow of a packet that was a hit is not     *)
(* evicted while the packet is in hand, a packet that is ready has a view, *)
(* and until a backend fails every view that was installed, and the one in *)
(* hand, has all of them.                                                  *)
Inv ==
  /\ TypeOK
  /\ IsFiniteSet(Known)
  /\ GaugeIsExact /\ Conservation /\ DrainDropsNothing
  /\ packet # NoPacket /\ packet.hit => packet.key \in Known
  /\ packet # NoPacket /\ packet.ready => packet.snap \in View
  /\ ~everDown => /\ \A b \in BackendId : healthy[b]
                  /\ installed.routable = BackendId
                  /\ packet # NoPacket /\ packet.snap # NoView
                       => packet.snap.routable = BackendId

(* Why a connection stays where it is: a flow of which a packet was sent   *)
(* within its timeout is known, with the backend that got the packet, and  *)
(* was last seen no earlier.                                               *)
SentInv ==
  /\ DOMAIN sent \subseteq Flow
  /\ sent \in [DOMAIN sent -> [backend : BackendId, at : 0 .. now]]
  /\ \A k \in DOMAIN sent : now - sent[k].at <= Timeout[k] =>
       /\ k \in Known
       /\ flows[k].backend = sent[k].backend
       /\ flows[k].last_seen >= sent[k].at

HitIsSeenNow == packet # NoPacket /\ packet.hit => flows[packet.key].last_seen = now

-----------------------------------------------------------------------------
(* What the comments and the docs say and the code does not do: TLC        *)
(* refutes each of these (README.md, "What the code does not do").         *)

(* The branch for a flow pinned to a backend that is not in the active     *)
(* snapshot is never taken (datapath.c:127-129).                           *)
PinnedBackendIsPresent == stats.backend_unhealthy = 0

(* The ports of an accepted packet are its own: flow.h:30-34 promises only *)
(* that they are received, and they may lie in the frame's padding.        *)
PortsAreInside ==
  Receiving => \A f \in Frame : Extract(f) = "ok" =>
                 header_len(f.header) + 4 <= f.header.total_length
=============================================================================
