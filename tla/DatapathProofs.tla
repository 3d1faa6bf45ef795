--------------------------- MODULE DatapathProofs ---------------------------
(***************************************************************************)
(* Proofs about Packet and Datapath, for every frame that can arrive,      *)
(* every outer header and every number of flows, backends and entries.     *)
(***************************************************************************)
EXTENDS Datapath, FiniteSetTheorems, TLAPS

-----------------------------------------------------------------------------
(* Frames and headers (src/net).                                           *)

(* Every length is checked against the bytes received before it is used.   *)
LEMMA ParsersStayInBuffer ==
  ASSUME NEW h \in Header
  PROVE  StaysInBuffer(h)
  <1> DEFINE len == raw_socket_recv(h)
  <1>1. /\ len \in Nat /\ len <= 2048
        /\ h.total_length \in Nat /\ header_len(h) \in Nat
    BY DEF raw_socket_recv, RX_BUF_LEN, header_len, Header, Word
  <1> HIDE DEF len
  <1>2. ReadEnd(h, len) <= len
    BY <1>1 DEF ReadEnd, packet_extract_flow, ipv4_parse, parse_ports, ETH_HDR_LEN,
       IPV4_MIN_HDR_LEN, TCP_MIN_HDR_LEN, UDP_HDR_LEN
  <1>3. packet_extract_flow(h, len) = "ok" => ETH_HDR_LEN + h.total_length <= len
    BY <1>1 DEF packet_extract_flow, ipv4_parse, ETH_HDR_LEN
  <1>4. ASSUME gre_encap_build(TX_BUF_LEN, h.total_length) # 0
        PROVE  /\ gre_encap_build(TX_BUF_LEN, h.total_length) <= TX_BUF_LEN
               /\ outer_total_len(h.total_length)
                    = gre_encap_build(TX_BUF_LEN, h.total_length) - ETH_HDR_LEN
    BY <1>1, <1>4, SMT DEF gre_encap_build, outer_total_len, TX_BUF_LEN, ETH_HDR_LEN,
       IPV4_MIN_HDR_LEN, GRE_HDR_LEN
  <1> QED
    BY <1>2, <1>3, <1>4 DEF StaysInBuffer, len

(* Two rounds of carrying reduce the sum of ten words to one word that is  *)
(* congruent to it modulo 65535, and to zero only if it is zero.           *)
LEMMA FoldedWord ==
  ASSUME NEW sum \in Nat, 0 < sum, sum <= 10 * 65535
  PROVE  /\ Folded(sum) \in Nat /\ 0 < Folded(sum) /\ Folded(sum) < 65536
         /\ \E q \in Nat : sum = Folded(sum) + q * 65535
  <1>1. /\ sum % 65536 \in Nat /\ sum % 65536 < 65536
        /\ sum \div 65536 \in Nat /\ sum \div 65536 < 10
        /\ sum = 65536 * (sum \div 65536) + (sum % 65536)
    BY SMT
  <1> DEFINE c == Carry(sum)
             q == sum \div 65536
  <1>2. c \in Nat /\ 0 < c /\ c < 65546 /\ q \in Nat /\ sum = c + q * 65535
    BY <1>1, SMT DEF Carry
  <1>3. CASE sum < 65536
    <2>1. Folded(sum) = sum /\ sum = sum + 0 * 65535
      BY <1>3, SMT DEF Folded
    <2> QED
      BY <1>3, <2>1, SMT
  <1>4. CASE ~(sum < 65536) /\ c < 65536
    <2>1. Folded(sum) = c
      BY <1>2, <1>4, SMT DEF Folded
    <2> HIDE DEF c, q
    <2> QED
      BY <1>2, <1>4, <2>1, SMT
  <1>5. CASE ~(sum < 65536) /\ ~(c < 65536)
    <2>1. Folded(sum) = Carry(c)
      BY <1>2, <1>5, SMT DEF Folded
    <2>2. Carry(c) = c - 65535
      BY <1>2, <1>5, SMT DEF Carry
    <2>3. q + 1 \in Nat /\ sum = Folded(sum) + (q + 1) * 65535
      BY <1>2, <2>1, <2>2, SMT
    <2>4. Folded(sum) \in Nat /\ 0 < Folded(sum) /\ Folded(sum) < 65536
      BY <1>2, <1>5, <2>1, <2>2, SMT
    <2>5. \E n \in Nat : sum = Folded(sum) + n * 65535
      <3> HIDE DEF c, q
      <3> q + 1 \in Nat
        BY <2>3, SMT
      <3> WITNESS q + 1 \in Nat
      <3> QED
        BY <2>3, SMT
    <2> QED
      BY <2>4, <2>5, SMT
  <1> QED
    BY <1>3, <1>4, <1>5

(* The only word that is a multiple of 65535, zero apart, is all ones. *)
LEMMA OnlyAllOnes ==
  ASSUME NEW w \in Nat, 0 < w, w < 65536, NEW q \in Nat, NEW r \in Nat,
         (q + 1) * 65535 = w + r * 65535
  PROVE  w = 65535
  BY SMT

(* The checksum ipv4_build stores makes the header verify. *)
LEMMA BuiltHeaderVerifies ==
  ASSUME NEW h \in OuterHeader
  PROVE  ChecksumVerifies(h)
  <1>1. PICK s \in Nat : s = HeaderSum(h, 0) /\ 0 < s /\ s < 7 * 65536
    BY SMT DEF HeaderSum, OuterHeader, Word, Byte
  <1>2. PICK w \in Nat : w = Folded(s) /\ 0 < w /\ w < 65536
    BY <1>1, FoldedWord, SMT
  <1>3. PICK q \in Nat : s = w + q * 65535
    BY <1>1, <1>2, FoldedWord, SMT
  <1>4. ipv4_checksum(h) = 65535 - w
    BY <1>1, <1>2, SMT DEF ipv4_checksum
  <1>5. HeaderSum(h, 65535 - w) = HeaderSum(h, 0) + (65535 - w)
    BY <1>2, SMT DEF HeaderSum, OuterHeader, Word, Byte
  <1>6. PICK t \in Nat : /\ t = HeaderSum(h, ipv4_checksum(h)) /\ 0 < t
                         /\ t <= 10 * 65535 /\ t = (q + 1) * 65535
    BY <1>1, <1>2, <1>3, <1>4, <1>5, SMT
  <1>7. PICK v \in Nat : v = Folded(t) /\ 0 < v /\ v < 65536
    BY <1>6, FoldedWord, SMT
  <1>8. PICK r \in Nat : t = v + r * 65535
    BY <1>6, <1>7, FoldedWord, SMT
  <1>9. v = 65535
    BY <1>6, <1>7, <1>8, OnlyAllOnes, SMT
  <1> QED
    BY <1>1, <1>2, <1>6, <1>7, <1>9, SMT DEF ChecksumVerifies, Word

-----------------------------------------------------------------------------
(* The forwarding thread.                                                  *)

(* Counting keeps the counters natural and adds one to each name given. *)
LEMMA CountAdds ==
  ASSUME stats \in [Counter -> Nat], NEW names
  PROVE  /\ Count(names) \in [Counter -> Nat]
         /\ \A c \in Counter : Count(names)[c] = stats[c] + IF c \in names THEN 1 ELSE 0
  BY DEF Count

(* What has come in, and what has become of it. *)
LEMMA CountersType ==
  ASSUME Inv
  PROVE  /\ Cardinality(Known) \in Nat
         /\ stats.rx \in Nat /\ stats.tx \in Nat /\ stats.parse_error \in Nat
         /\ stats.no_backend \in Nat /\ stats.backend_unhealthy \in Nat
         /\ stats.conntrack_full \in Nat /\ stats.uncounted \in Nat
         /\ stats.misses \in Nat /\ stats.evictions \in Nat
  BY FS_CardinalityType DEF Inv, TypeOK, Counter

LEMMA InitInv == Init => Inv
  <1> SUFFICES ASSUME Init PROVE Inv
    OBVIOUS
  <1>1. Known = {} /\ \A b : On(Known, b) = {}
    BY DEF Init, ftInit, Known, On
  <1>2. TypeOK
    <2>1. ftTypeOK
      BY <1>1, MaxNowAssumption DEF Init, ftInit, ftTypeOK, Known
    <2>2. installed \in View
      BY DEF Init, View, want
    <2> QED
      BY Zenon, <2>1, <2>2 DEF Init, TypeOK
  <1>3. IsFiniteSet(Known) /\ GaugeIsExact /\ Conservation
    <2>1. IsFiniteSet(Known) /\ Cardinality(Known) = 0 /\ \A b \in BackendId : On(Known, b) = {}
      BY <1>1, FS_EmptySet DEF On
    <2>2. GaugeIsExact
      BY <2>1, FS_EmptySet DEF Init, GaugeIsExact
    <2>3. \A c \in Counter : stats[c] = 0
      BY DEF Init
    <2>4. Held = 0 /\ HeldMiss = 0
      BY DEF Init, Held, HeldMiss
    <2>5. Conservation
      BY <2>1, <2>3, <2>4 DEF Conservation, Counter
    <2> QED
      BY <2>1, <2>2, <2>5
  <1>4. DrainDropsNothing
    BY DEF Init, DrainDropsNothing, Counter
  <1> QED
    BY <1>2, <1>3, <1>4 DEF Inv, Init, want

(* A step that leaves the connections and the counters alone. *)
LEMMA FlowsKept ==
  ASSUME Inv, UNCHANGED <<flows, active_flows>>
  PROVE  /\ Known' = Known /\ IsFiniteSet(Known')
         /\ GaugeIsExact'
  BY DEF Inv, GaugeIsExact, On, Known

LEMMA HealthThreadInv ==
  ASSUME Inv, HealthThread
  PROVE  Inv'
  <1>0. UNCHANGED <<flows, now, packet, stats, active_flows, flows_assigned>>
    BY DEF HealthThread, SetHealth, SetDraining, Publish, GiveUp, counters
  <1>1. IsFiniteSet(Known') /\ GaugeIsExact' /\ Known' = Known
    BY <1>0, FlowsKept
  <1>2. Conservation'
    BY <1>0, <1>1 DEF Inv, Conservation, Held, HeldMiss
  <1>3. TypeOK'
    <2>1. ftTypeOK'
      BY <1>0 DEF Inv, TypeOK, ftTypeOK, Known
    <2>2. healthy' \in [BackendId -> BOOLEAN] /\ everDown' \in BOOLEAN
      BY DEF HealthThread, SetHealth, SetDraining, Publish, GiveUp, Inv, TypeOK
    <2>3. draining' \subseteq BackendId /\ pending' \in BOOLEAN
      BY Zenon DEF HealthThread, SetHealth, SetDraining, Publish, GiveUp, Inv, TypeOK
    <2>4. installed' \in View
      <3>1. want \in View
        BY DEF want, View
      <3> QED
        BY <3>1 DEF HealthThread, SetHealth, SetDraining, Publish, GiveUp, Inv, TypeOK
    <2> QED
      BY <1>0, <2>1, <2>2, <2>3, <2>4 DEF Inv, TypeOK
  <1>4. ~everDown' => ~everDown
    BY Zenon DEF HealthThread, SetHealth, SetDraining, Publish, GiveUp
  <1>5. ASSUME ~everDown'
        PROVE  (\A b \in BackendId : healthy'[b]) /\ installed'.routable = BackendId
    <2>1. (\A b \in BackendId : healthy[b]) /\ installed.routable = BackendId
      BY <1>4, <1>5 DEF Inv
    <2>2. healthy' = healthy
      BY Zenon, <1>5, <2>1 DEF HealthThread, SetHealth, SetDraining, Publish, GiveUp
    <2>3. installed' = installed \/ installed' = want
      BY DEF HealthThread, SetHealth, SetDraining, Publish, GiveUp
    <2>4. want.routable = BackendId
      BY <2>1 DEF want
    <2> QED
      BY <2>1, <2>2, <2>3, <2>4
  <1> QED
    BY <1>0, <1>1, <1>2, <1>3, <1>4, <1>5 DEF Inv, DrainDropsNothing

LEMMA PassOverInv ==
  ASSUME Inv, NEW f \in Frame, PassOver(f)
  PROVE  Inv'
  <1>0. UNCHANGED <<flows, now, control, packet, active_flows, flows_assigned>>
    BY DEF PassOver
  <1>1. IsFiniteSet(Known') /\ GaugeIsExact' /\ Known' = Known
    BY <1>0, FlowsKept
  <1>2. PICK other \in {"parse_error", "uncounted"} : stats' = Count({"rx", other})
    BY DEF PassOver
  <1>3. /\ stats' \in [Counter -> Nat]
        /\ \A c \in Counter : stats'[c] = stats[c] + IF c \in {"rx", other} THEN 1 ELSE 0
    BY <1>2, CountAdds DEF Inv, TypeOK
  <1>4. Conservation'
    <2>1. /\ stats'.rx = stats.rx + 1 /\ stats'.misses = stats.misses
          /\ stats'.tx = stats.tx /\ stats'.evictions = stats.evictions
          /\ stats'.no_backend = stats.no_backend
          /\ stats'.backend_unhealthy = stats.backend_unhealthy
          /\ stats'.conntrack_full = stats.conntrack_full
          /\ stats'.parse_error + stats'.uncounted = stats.parse_error + stats.uncounted + 1
          /\ stats'.parse_error \in Nat /\ stats'.uncounted \in Nat
      BY <1>2, <1>3, CountersType DEF Counter
    <2>2. Held' = Held /\ HeldMiss' = HeldMiss
      BY <1>0 DEF Held, HeldMiss
    <2>3. Held \in Nat /\ HeldMiss \in Nat
      BY DEF Held, HeldMiss
    <2> QED
      BY <1>1, <2>1, <2>2, <2>3, CountersType DEF Inv, Conservation
  <1>5. DrainDropsNothing'
    BY <1>0, <1>3 DEF Inv, DrainDropsNothing, Counter, control
  <1>6. TypeOK'
    BY <1>0, <1>3 DEF Inv, TypeOK, ftTypeOK, control, Known
  <1> QED
    BY <1>0, <1>1, <1>4, <1>5, <1>6 DEF Inv, control

LEMMA LookupInv ==
  ASSUME Inv, NEW f \in Frame, Lookup(f)
  PROVE  Inv'
  <1>0. /\ UNCHANGED <<now, control, active_flows, flows_assigned>> /\ packet = NoPacket
        /\ f.key \in Flow /\ f.header.total_length \in Word
        /\ packet' = [key |-> f.key, ip_total_len |-> f.header.total_length,
                      hit |-> f.key \in Known, snap |-> NoView, ready |-> FALSE]
    BY FrameAssumption DEF Lookup, Refresh, Header, Receiving
  <1>1. /\ Known' = Known /\ \A k \in Known : flows'[k].backend = flows[k].backend
        /\ ftTypeOK'
    BY DEF Lookup, Refresh, Inv, TypeOK, ftTypeOK, Known, Entry
  <1>2. \A b \in BackendId : On(Known, b)' = On(Known, b)
    BY <1>1 DEF On
  <1>3. IsFiniteSet(Known') /\ GaugeIsExact'
    BY <1>0, <1>1, <1>2 DEF Inv, GaugeIsExact
  <1>4. PICK other \in {"hits", "misses"} :
          /\ other = IF f.key \in Known THEN "hits" ELSE "misses"
          /\ stats' = Count({"rx", other})
    BY DEF Lookup
  <1>5. /\ stats' \in [Counter -> Nat]
        /\ \A c \in Counter : stats'[c] = stats[c] + IF c \in {"rx", other} THEN 1 ELSE 0
    BY <1>4, CountAdds DEF Inv, TypeOK
  <1>6. packet' \in InHand /\ packet' # NoPacket
    <2>1. (f.key \in Known) \in BOOLEAN
      OBVIOUS
    <2>2. packet' \in InHand
      BY <1>0, <2>1 DEF InHand
    <2> QED
      BY <2>2, NoPacketAssumption
  <1>7. /\ packet'.hit = (f.key \in Known) /\ packet'.key = f.key
        /\ packet'.snap = NoView /\ packet'.ready = FALSE
    BY <1>0
  <1>8. Conservation'
    <2>1. Held' = 1 /\ Held = 0 /\ HeldMiss = 0
      BY <1>0, <1>6 DEF Held, HeldMiss
    <2>2. HeldMiss' = IF other = "misses" THEN 1 ELSE 0
      BY Zenon, <1>4, <1>6, <1>7 DEF Held, HeldMiss
    <2>3. /\ stats'.rx = stats.rx + 1
          /\ stats'.misses = stats.misses + IF other = "misses" THEN 1 ELSE 0
          /\ stats'.tx = stats.tx /\ stats'.evictions = stats.evictions
          /\ stats'.no_backend = stats.no_backend
          /\ stats'.backend_unhealthy = stats.backend_unhealthy
          /\ stats'.conntrack_full = stats.conntrack_full
          /\ stats'.parse_error = stats.parse_error /\ stats'.uncounted = stats.uncounted
      BY <1>4, <1>5, CountersType DEF Counter
    <2> QED
      BY <1>1, <2>1, <2>2, <2>3, CountersType DEF Inv, Conservation
  <1>9. DrainDropsNothing'
    BY <1>0, <1>5 DEF Inv, DrainDropsNothing, Counter, control
  <1>10. TypeOK'
    BY <1>0, <1>1, <1>5, <1>6 DEF Inv, TypeOK, control
  <1> QED
    BY Zenon, <1>0, <1>1, <1>3, <1>6, <1>7, <1>8, <1>9, <1>10 DEF Inv, control

LEMMA GetActiveInv ==
  ASSUME Inv, GetActive
  PROVE  Inv'
  <1>0. /\ UNCHANGED <<flows, now, control, counters>>
        /\ packet \in InHand /\ packet # NoPacket
        /\ packet' = [packet EXCEPT !.snap = installed, !.ready = TRUE]
    BY DEF GetActive, Inv, TypeOK
  <1>1. IsFiniteSet(Known') /\ GaugeIsExact' /\ Known' = Known
    BY <1>0, FlowsKept DEF counters
  <1>2. /\ packet' \in InHand /\ packet' # NoPacket
        /\ packet'.hit = packet.hit /\ packet'.key = packet.key /\ packet'.snap = installed
    BY Zenon, <1>0, NoPacketAssumption DEF Inv, TypeOK, InHand
  <1>3. Conservation' /\ DrainDropsNothing'
    BY <1>0, <1>1, <1>2 DEF Inv, Conservation, Held, HeldMiss, DrainDropsNothing, control, counters
  <1>4. TypeOK'
    BY <1>0, <1>2 DEF Inv, TypeOK, ftTypeOK, Known, control, counters
  <1> QED
    BY <1>0, <1>1, <1>2, <1>3, <1>4 DEF Inv, TypeOK, control

LEMMA TimePassesInv ==
  ASSUME Inv, TimePasses
  PROVE  Inv'
  <1>0. /\ UNCHANGED <<flows, control, packet, counters>>
        /\ now' \in 0 .. MaxNow
    BY MaxNowAssumption DEF TimePasses, Advance, Inv, TypeOK, ftTypeOK
  <1>1. IsFiniteSet(Known') /\ GaugeIsExact' /\ Known' = Known
    BY <1>0, FlowsKept DEF counters
  <1>2. Conservation' /\ DrainDropsNothing'
    BY <1>0, <1>1 DEF Inv, Conservation, Held, HeldMiss, DrainDropsNothing, control, counters
  <1>3. TypeOK'
    BY <1>0 DEF Inv, TypeOK, ftTypeOK, Known, control, counters
  <1> QED
    BY <1>0, <1>1, <1>2, <1>3 DEF Inv, control

(* The backend a packet is for, when the packet has one. *)
LEMMA BackendIdType ==
  ASSUME Inv, packet # NoPacket, backend_id # -1
  PROVE  /\ backend_id \in BackendId
         /\ ~packet.hit => packet.snap \in View /\ backend_id \in packet.snap.eligible
  <1>1. packet \in InHand
    BY DEF Inv, TypeOK
  <1>2. CASE packet.hit
    BY <1>1, <1>2 DEF backend_id, Inv, TypeOK, ftTypeOK, Entry
  <1>3. CASE ~packet.hit
    <2>1. packet.snap \in View
      BY <1>1, <1>3 DEF backend_id, InHand
    <2>2. backend_id = MaglevTable[packet.snap.eligible][packet.key]
      BY <1>3, <2>1, NoViewAssumption DEF backend_id
    <2>3. packet.snap.eligible \in SUBSET BackendId /\ packet.key \in Flow
      BY <1>1, <2>1 DEF View, InHand
    <2> QED
      BY <2>1, <2>2, <2>3, MaglevTableAssumption
  <1> QED
    BY <1>2, <1>3

(* A flow that is opened is one more on its backend. *)
LEMMA PinOn ==
  ASSUME Inv, NEW k, NEW d \in BackendId, Pin(k, d)
  PROVE  /\ ftTypeOK'
         /\ Known' = Known \cup {k} /\ IsFiniteSet(Known')
         /\ Cardinality(Known') = Cardinality(Known) + 1
         /\ \A b \in BackendId :
              Cardinality(On(Known, b)') = Cardinality(On(Known, b)) + IF b = d THEN 1 ELSE 0
  <1>1. /\ k \in Flow /\ k \notin Known /\ now' = now
        /\ flows' = [x \in Known \cup {k} |->
                       IF x = k THEN [backend |-> d, last_seen |-> now] ELSE flows[x]]
    BY DEF Pin
  <1>2. Known' = Known \cup {k}
    BY <1>1 DEF Known
  <1>3. ftTypeOK'
    BY <1>1, <1>2 DEF Inv, TypeOK, ftTypeOK, Entry, Known
  <1>4. IsFiniteSet(Known') /\ Cardinality(Known') = Cardinality(Known) + 1
    BY <1>1, <1>2, FS_AddElement DEF Inv
  <1>5. ASSUME NEW b \in BackendId
        PROVE  Cardinality(On(Known, b)') = Cardinality(On(Known, b)) + IF b = d THEN 1 ELSE 0
    <2>1. On(Known, b)' = On(Known, b) \cup IF b = d THEN {k} ELSE {}
      BY <1>1, <1>2 DEF On
    <2>2. IsFiniteSet(On(Known, b)) /\ k \notin On(Known, b)
      BY <1>1, FS_Subset DEF On, Inv
    <2>3. CASE b = d
      BY <2>1, <2>2, <2>3, FS_AddElement
    <2>4. CASE b # d
      BY <2>1, <2>2, <2>4, FS_CardinalityType
    <2> QED
      BY <2>3, <2>4
  <1> QED
    BY <1>2, <1>3, <1>4, <1>5

LEMMA DeliverInv ==
  ASSUME Inv, Deliver
  PROVE  Inv'
  <1>0. /\ packet \in InHand /\ packet # NoPacket /\ packet.snap \in View
        /\ packet' = NoPacket /\ UNCHANGED control
    BY DEF Deliver, Inv, TypeOK
  <1>1. PICK outcome \in Verdict : stats' = Count({outcome})
    BY Zenon DEF Deliver
  <1>2. outcome \in {"tx", "uncounted", "no_backend", "conntrack_full", "backend_unhealthy",
                     "parse_error"}
    BY <1>1 DEF Verdict
  <1>3. /\ stats' \in [Counter -> Nat]
        /\ \A c \in Counter : stats'[c] = stats[c] + IF c = outcome THEN 1 ELSE 0
    BY <1>1, CountAdds DEF Inv, TypeOK
  <1>4. packet.hit => backend_id \in BackendId /\ backend_id # -1
    BY <1>0, BackendIdAssumption DEF backend_id, Inv, TypeOK, ftTypeOK, Entry
  <1>5. /\ packet.hit => outcome \notin {"no_backend", "conntrack_full"}
        /\ Opens => ~packet.hit /\ outcome \notin {"no_backend", "conntrack_full"}
        /\ ~packet.hit /\ ~Opens => outcome \in {"no_backend", "conntrack_full"}
    BY SMTT(60), <1>0, <1>1, <1>4, NoViewAssumption DEF Verdict, Opens
  <1>6. /\ stats'.rx = stats.rx /\ stats'.misses = stats.misses
        /\ stats'.evictions = stats.evictions
        /\ stats'.tx + stats'.parse_error + stats'.no_backend + stats'.backend_unhealthy
             + stats'.conntrack_full + stats'.uncounted
           = stats.tx + stats.parse_error + stats.no_backend + stats.backend_unhealthy
             + stats.conntrack_full + stats.uncounted + 1
        /\ stats'.no_backend + stats'.conntrack_full
           = stats.no_backend + stats.conntrack_full
             + IF outcome \in {"no_backend", "conntrack_full"} THEN 1 ELSE 0
        /\ stats'.no_backend \in Nat /\ stats'.conntrack_full \in Nat
    <2>1. /\ stats'.rx = stats.rx /\ stats'.misses = stats.misses
          /\ stats'.evictions = stats.evictions
      BY <1>2, <1>3, CountersType DEF Counter
    <2>2. /\ stats'.tx = stats.tx + IF outcome = "tx" THEN 1 ELSE 0
          /\ stats'.parse_error = stats.parse_error + IF outcome = "parse_error" THEN 1 ELSE 0
          /\ stats'.no_backend = stats.no_backend + IF outcome = "no_backend" THEN 1 ELSE 0
          /\ stats'.backend_unhealthy
             = stats.backend_unhealthy + IF outcome = "backend_unhealthy" THEN 1 ELSE 0
          /\ stats'.conntrack_full
             = stats.conntrack_full + IF outcome = "conntrack_full" THEN 1 ELSE 0
          /\ stats'.uncounted = stats.uncounted + IF outcome = "uncounted" THEN 1 ELSE 0
      BY <1>3 DEF Counter
    <2>3. CASE outcome = "tx"
      BY <2>1, <2>2, <2>3, CountersType
    <2>4. CASE outcome = "uncounted"
      <3>1. /\ stats'.uncounted = stats.uncounted + 1
            /\ stats'.tx = stats.tx /\ stats'.parse_error = stats.parse_error
            /\ stats'.no_backend = stats.no_backend
            /\ stats'.backend_unhealthy = stats.backend_unhealthy
            /\ stats'.conntrack_full = stats.conntrack_full
        BY <2>2, <2>4, CountersType
      <3>2. outcome \notin {"no_backend", "conntrack_full"}
        BY <2>4
      <3> QED
        BY <2>1, <3>1, <3>2, CountersType
    <2>5. CASE outcome = "no_backend"
      BY <2>1, <2>2, <2>5, CountersType
    <2>6. CASE outcome = "conntrack_full"
      BY <2>1, <2>2, <2>6, CountersType
    <2>7. CASE outcome = "backend_unhealthy"
      BY <2>1, <2>2, <2>7, CountersType
    <2>8. CASE outcome = "parse_error"
      BY <2>1, <2>2, <2>8, CountersType
    <2> QED
      BY <1>2, <2>3, <2>4, <2>5, <2>6, <2>7, <2>8
  <1>7. DrainDropsNothing'
    <2> SUFFICES ASSUME ~everDown', outcome = "backend_unhealthy" PROVE FALSE
      BY <1>0, <1>3 DEF Inv, DrainDropsNothing, control, Counter
    <2>1. packet.snap.routable = BackendId
      BY <1>0, NoViewAssumption DEF Inv, control
    <2>2. backend_id # -1 /\ backend_id \notin packet.snap.routable
      BY <1>1 DEF Verdict
    <2> QED
      BY <1>0, <2>1, <2>2, BackendIdType
  <1>8. Held = 1 /\ Held' = 0 /\ HeldMiss' = 0 /\ HeldMiss = IF packet.hit THEN 0 ELSE 1
    BY <1>0 DEF Held, HeldMiss
  <1>9. CASE Opens
    <2>1. backend_id \in BackendId /\ Pin(packet.key, backend_id)
      <3>1. backend_id # -1
        BY <1>9 DEF Opens, Verdict
      <3> QED
        BY <1>0, <1>9, <3>1, BackendIdType DEF Deliver
    <2>2. /\ active_flows' = [active_flows EXCEPT ![backend_id] = @ + 1]
          /\ flows_assigned' = [flows_assigned EXCEPT ![backend_id] = @ + 1]
      BY <1>9 DEF Deliver
    <2>3. /\ ftTypeOK' /\ IsFiniteSet(Known')
          /\ Cardinality(Known') = Cardinality(Known) + 1
      BY SMTT(60), <2>1, PinOn
    <2>4. GaugeIsExact'
      BY SMTT(60), <2>1, <2>2, PinOn DEF Inv, TypeOK, GaugeIsExact
    <2>5. TypeOK'
      BY SMTT(60), <1>0, <1>3, <2>1, <2>2, <2>3 DEF Inv, TypeOK, control
    <2>6. Conservation'
      BY SMTT(60), <1>5, <1>6, <1>8, <1>9, <2>3, CountersType DEF Inv, Conservation
    <2> QED
      BY <1>0, <1>7, <2>3, <2>4, <2>5, <2>6 DEF Inv, control
  <1>10. CASE ~Opens
    <2>1. UNCHANGED <<flows, now, active_flows, flows_assigned>>
      BY <1>10 DEF Deliver
    <2>2. IsFiniteSet(Known') /\ GaugeIsExact' /\ Known' = Known
      BY <2>1, FlowsKept
    <2>3. TypeOK'
      BY SMTT(60), <1>0, <1>3, <2>1 DEF Inv, TypeOK, ftTypeOK, Known, control
    <2>4. Conservation'
      BY <1>5, <1>6, <1>8, <1>10, <2>2, CountersType DEF Inv, Conservation
    <2> QED
      BY <1>0, <1>7, <2>2, <2>3, <2>4 DEF Inv, control
  <1> QED
    BY <1>9, <1>10

(* Flows that are evicted leave the backends they were on. *)
LEMMA EvictOn ==
  ASSUME Inv, NEW S \in SUBSET Known, Evict(S)
  PROVE  /\ ftTypeOK'
         /\ Known' = Known \ S /\ IsFiniteSet(Known')
         /\ Cardinality(S) \in Nat /\ Cardinality(Known') = Cardinality(Known) - Cardinality(S)
         /\ \A b \in BackendId :
              /\ Cardinality(On(S, b)) \in Nat /\ Cardinality(On(Known, b)') \in Nat
              /\ Cardinality(On(Known, b)') = Cardinality(On(Known, b)) - Cardinality(On(S, b))
  <1>1. flows' = [x \in Known \ S |-> flows[x]] /\ now' = now
    BY DEF Evict, Restrict
  <1>2. Known' = Known \ S
    BY <1>1 DEF Known
  <1>3. ftTypeOK'
    BY <1>1, <1>2 DEF Inv, TypeOK, ftTypeOK, Known
  <1>4. ASSUME NEW T, NEW U \in SUBSET T, IsFiniteSet(T)
        PROVE  /\ IsFiniteSet(T \ U) /\ Cardinality(U) \in Nat /\ Cardinality(T \ U) \in Nat
               /\ Cardinality(T \ U) = Cardinality(T) - Cardinality(U)
    <2>1. T \cap U = U
      OBVIOUS
    <2>2. /\ IsFiniteSet(T \ U)
          /\ Cardinality(T \ U) = Cardinality(T) - Cardinality(T \cap U)
      BY <1>4, FS_Difference
    <2>3. IsFiniteSet(U)
      BY <1>4, FS_Subset
    <2> QED
      BY Zenon, <2>1, <2>2, <2>3, FS_CardinalityType
  <1>5. /\ IsFiniteSet(Known') /\ Cardinality(S) \in Nat
        /\ Cardinality(Known') = Cardinality(Known) - Cardinality(S)
    BY Zenon, <1>2, <1>4 DEF Inv
  <1>6. ASSUME NEW b \in BackendId
        PROVE  /\ Cardinality(On(S, b)) \in Nat /\ Cardinality(On(Known, b)') \in Nat
               /\ Cardinality(On(Known, b)') = Cardinality(On(Known, b)) - Cardinality(On(S, b))
    <2>1. On(Known, b)' = On(Known, b) \ On(S, b) /\ On(S, b) \in SUBSET On(Known, b)
      BY <1>1, <1>2 DEF On
    <2>2. IsFiniteSet(On(Known, b))
      BY FS_Subset DEF On, Inv
    <2> QED
      BY <1>4, <2>1, <2>2
  <1> QED
    BY <1>2, <1>3, <1>5, <1>6

LEMMA TickInv ==
  ASSUME Inv, Tick
  PROVE  Inv'
  <1>1. PICK S \in SUBSET Known :
          /\ Evict(S)
          /\ active_flows' = [b \in BackendId |-> active_flows[b] - Cardinality(On(S, b))]
          /\ stats' = [stats EXCEPT !.evictions = @ + Cardinality(S)]
    BY DEF Tick
  <1>2. packet = NoPacket /\ UNCHANGED <<control, packet, flows_assigned>>
    BY DEF Tick
  <1>3. ftTypeOK' /\ IsFiniteSet(Known')
    BY <1>1, EvictOn
  <1>4. GaugeIsExact' /\ active_flows' \in [BackendId -> Nat]
    BY <1>1, EvictOn DEF Inv, GaugeIsExact
  <1>5. TypeOK'
    BY SMTT(60), <1>1, <1>2, <1>3, <1>4, EvictOn DEF Inv, TypeOK, control, Counter
  <1>6. Conservation'
    <2>1. /\ stats'.evictions = stats.evictions + Cardinality(S)
          /\ stats'.rx = stats.rx /\ stats'.misses = stats.misses /\ stats'.tx = stats.tx
          /\ stats'.no_backend = stats.no_backend
          /\ stats'.backend_unhealthy = stats.backend_unhealthy
          /\ stats'.conntrack_full = stats.conntrack_full
          /\ stats'.parse_error = stats.parse_error /\ stats'.uncounted = stats.uncounted
      BY <1>1 DEF Inv, TypeOK, Counter
    <2>2. Held = 0 /\ Held' = 0 /\ HeldMiss = 0 /\ HeldMiss' = 0
      BY <1>2 DEF Held, HeldMiss
    <2>3. Cardinality(S) \in Nat /\ Cardinality(Known') = Cardinality(Known) - Cardinality(S)
      BY <1>1, EvictOn
    <2> QED
      BY <2>1, <2>2, <2>3, CountersType DEF Inv, Conservation
  <1>7. DrainDropsNothing'
    BY <1>1, <1>2 DEF Inv, TypeOK, DrainDropsNothing, control, Counter
  <1> QED
    BY <1>2, <1>3, <1>4, <1>5, <1>6, <1>7 DEF Inv, control

LEMMA NextInv == Inv /\ [Next]_vars => Inv'
  <1> SUFFICES ASSUME Inv, [Next]_vars PROVE Inv'
    OBVIOUS
  <1>1. CASE UNCHANGED vars
    <2>1. IsFiniteSet(Known') /\ GaugeIsExact' /\ Known' = Known
      BY <1>1, FlowsKept DEF vars, counters
    <2>2. TypeOK'
      BY <1>1 DEF Inv, TypeOK, ftTypeOK, Known, vars, control, counters
    <2>3. Conservation' /\ DrainDropsNothing'
      BY <1>1, <2>1 DEF Inv, Conservation, Held, HeldMiss, DrainDropsNothing, vars, control,
         counters
    <2> QED
      BY Zenon, <1>1, <2>1, <2>2, <2>3 DEF Inv, vars, control
  <1>2. CASE Next
    BY <1>2, HealthThreadInv, PassOverInv, LookupInv, GetActiveInv, DeliverInv, TickInv,
       TimePassesInv DEF Next
  <1> QED
    BY <1>1, <1>2

-----------------------------------------------------------------------------
(* The inductive invariant holds in every reachable state of the           *)
(* forwarding thread, its connection table and the health thread.          *)
THEOREM Invariance == Spec => []Inv
  BY InitInv, NextInv, PTL DEF Spec

(* The active_flows gauge of a backend is the number of connections pinned *)
(* to it, in every state (datapath.c:116-123, on_flow_evicted).            *)
THEOREM GaugeExact == Spec => []GaugeIsExact
  <1>1. Inv => GaugeIsExact
    BY DEF Inv
  <1> QED
    BY <1>1, Invariance, PTL

(* Every packet, and every connection-table miss, is accounted for by one  *)
(* counter of struct lb_stats (handle_packet).                             *)
THEOREM Accounting == Spec => []Conservation
  <1>1. Inv => Conservation
    BY DEF Inv
  <1> QED
    BY <1>1, Invariance, PTL

(* Draining and undraining never makes the datapath drop a packet of a     *)
(* pinned flow while every backend passes its checks.                      *)
THEOREM DrainSafe == Spec => []DrainDropsNothing
  <1>1. Inv => DrainDropsNothing
    BY DEF Inv
  <1> QED
    BY <1>1, Invariance, PTL

(* The parsers and gre_encap_build stay inside the receive and the send    *)
(* buffer for every frame the types of the header fields allow.            *)
THEOREM BuffersSafe == Spec => []FramesStayInBuffer
  <1>1. FramesStayInBuffer
    BY ParsersStayInBuffer, FrameAssumption DEF FramesStayInBuffer
  <1> QED
    BY <1>1, PTL

(* ipv4_checksum makes every outer header verify at the receiver, whatever *)
(* its addresses, length and TTL.                                          *)
THEOREM HeadersVerify == Spec => []OuterHeaderVerifies
  <1>1. Inv => OuterHeaderVerifies
    <2> SUFFICES ASSUME Inv, packet # NoPacket, packet.ready, "tx" \in Verdict
                 PROVE  ChecksumVerifies([Outer[backend_id] EXCEPT
                          !.total_len = outer_total_len(packet.ip_total_len)])
      BY DEF OuterHeaderVerifies
    <2>1. backend_id \in BackendId
      BY BackendIdType DEF Verdict
    <2>2. packet.ip_total_len \in Word
      BY DEF Inv, TypeOK, InHand
    <2>3. outer_total_len(packet.ip_total_len) \in Word
      BY <2>2, SMT DEF outer_total_len, Word, IPV4_MIN_HDR_LEN, GRE_HDR_LEN
    <2>4. [Outer[backend_id] EXCEPT !.total_len = outer_total_len(packet.ip_total_len)]
            \in OuterHeader
      BY <2>1, <2>3, OuterAssumption DEF OuterHeader
    <2> QED
      BY <2>4, BuiltHeaderVerifies
  <1> QED
    BY <1>1, Invariance, PTL

(* A drained backend gets no new flow once its drained table is the one    *)
(* packets are forwarded with.                                             *)
THEOREM NoNewFlows == Spec => DrainedTakesNoFlows
  <1>1. ASSUME Inv, Next, NEW b \in draining, installed = want,
               packet # NoPacket /\ packet.ready => packet.snap = installed
        PROVE  flows_assigned'[b] = flows_assigned[b]
    <2>1. CASE Deliver /\ Opens
      <3>1. backend_id # -1 /\ ~packet.hit /\ packet # NoPacket /\ packet.snap = want
        BY <1>1, <2>1 DEF Deliver, Opens, Verdict
      <3>2. backend_id \in want.eligible
        BY <1>1, <3>1, BackendIdType
      <3>3. backend_id # b
        BY <3>2 DEF want
      <3> QED
        BY SMTT(60), <1>1, <2>1, <3>3 DEF Deliver, Inv, TypeOK
    <2>2. CASE flows_assigned' = flows_assigned
      BY <2>2
    <2> QED
      BY ZenonT(60), <1>1, <2>1, <2>2 DEF Next, HealthThread, SetHealth, SetDraining, Publish, GiveUp,
         PassOver, Lookup, GetActive, Deliver, Tick, TimePasses, counters
  <1>2. Inv /\ [Next]_vars =>
          [\A b \in draining :
             /\ installed = want
             /\ packet # NoPacket /\ packet.ready => packet.snap = installed
             => flows_assigned'[b] = flows_assigned[b]]_vars
    BY <1>1
  <1> QED
    BY <1>2, Invariance, PTL DEF Spec, DrainedTakesNoFlows

(* No time passes, and nothing is evicted, while a packet is in hand.      *)
LEMMA SeenNow ==
  ASSUME Inv, HitIsSeenNow, [Next]_vars
  PROVE  HitIsSeenNow'
  <1>1. CASE packet' = NoPacket
    BY <1>1 DEF HitIsSeenNow
  <1>2. ASSUME NEW f \in Frame, Lookup(f)
        PROVE  HitIsSeenNow'
    <2>1. packet'.key = f.key /\ packet'.hit = (f.key \in Known)
      BY <1>2 DEF Lookup
    <2>2. CASE f.key \in Known
      BY <1>2, <2>1, <2>2 DEF Lookup, Refresh, HitIsSeenNow, Inv, TypeOK, ftTypeOK, Entry, Known
    <2>3. CASE f.key \notin Known
      BY <2>1, <2>3 DEF HitIsSeenNow
    <2> QED
      BY <2>2, <2>3
  <1>3. CASE GetActive
    <2>1. packet \in InHand /\ packet # NoPacket /\ flows' = flows /\ now' = now
      BY <1>3 DEF GetActive, Inv, TypeOK
    <2>2. packet'.key = packet.key /\ packet'.hit = packet.hit
      BY <1>3, <2>1 DEF GetActive, InHand
    <2> QED
      BY <2>1, <2>2 DEF HitIsSeenNow
  <1>4. CASE UNCHANGED <<flows, now, packet>>
    BY <1>4 DEF HitIsSeenNow
  <1> QED
    BY Zenon, <1>1, <1>2, <1>3, <1>4 DEF Next, HealthThread, SetHealth, SetDraining, Publish,
       GiveUp, PassOver, Deliver, Tick, TimePasses, vars

(* What is sent goes to the backend the flow is pinned to, and pins it.    *)
LEMMA DeliverSends ==
  ASSUME Inv, SentInv, HitIsSeenNow, Deliver
  PROVE  /\ SentInv'
         /\ \A k \in DOMAIN sent :
              now - sent[k].at <= Timeout[k] => sent'[k].backend = sent[k].backend
  <1>1. PICK outcome \in Verdict : Record(outcome)
    BY Zenon DEF Deliver
  <1>2. packet \in InHand /\ packet # NoPacket /\ packet.key \in Flow /\ now \in 0 .. MaxNow
    BY DEF Deliver, Inv, TypeOK, InHand, ftTypeOK
  <1>3. CASE Opens
    <2>1. Pin(packet.key, backend_id)
      BY <1>3 DEF Deliver
    <2>2. backend_id \in BackendId
      BY <1>2, <1>3, BackendIdType DEF Opens, Verdict
    <2>3. /\ packet.key \notin Known /\ now' = now /\ Known' = Known \cup {packet.key}
          /\ flows' = [x \in Known \cup {packet.key} |->
                         IF x = packet.key THEN [backend |-> backend_id, last_seen |-> now]
                         ELSE flows[x]]
      BY <2>1 DEF Pin, Known
    <2>4. CASE outcome = "tx"
      <3>1. sent' = [k \in DOMAIN sent \cup {packet.key} |->
                       IF k = packet.key THEN [backend |-> backend_id, at |-> now] ELSE sent[k]]
        BY <1>1, <2>4 DEF Record
      <3>2. /\ DOMAIN sent' \subseteq Flow
            /\ sent' \in [DOMAIN sent' -> [backend : BackendId, at : 0 .. now']]
        BY <1>2, <2>2, <2>3, <3>1 DEF SentInv
      <3>3. ASSUME NEW k \in DOMAIN sent', now' - sent'[k].at <= Timeout[k]
            PROVE  /\ k \in Known'
                   /\ flows'[k].backend = sent'[k].backend
                   /\ flows'[k].last_seen >= sent'[k].at
        BY <1>2, <2>3, <3>1, <3>3 DEF SentInv
      <3>4. ASSUME NEW k \in DOMAIN sent, now - sent[k].at <= Timeout[k]
            PROVE  sent'[k].backend = sent[k].backend
        BY <2>3, <3>1, <3>4 DEF SentInv
      <3> QED
        BY <3>2, <3>3, <3>4 DEF SentInv
    <2>5. CASE outcome # "tx"
      BY <1>1, <2>3, <2>5 DEF SentInv, Record
    <2> QED
      BY <2>4, <2>5
  <1>4. CASE ~Opens
    <2>1. flows' = flows /\ now' = now /\ Known' = Known
      BY <1>4 DEF Deliver, Known
    <2>2. CASE outcome = "tx"
      <3>1. packet.hit
        BY SMTT(60), <1>1, <1>4, <2>2 DEF Verdict, Opens
      <3>2. /\ packet.key \in Known /\ flows[packet.key].last_seen = now
            /\ backend_id = flows[packet.key].backend /\ backend_id \in BackendId
        BY <1>2, <3>1 DEF Inv, TypeOK, ftTypeOK, Entry, backend_id, HitIsSeenNow
      <3>3. sent' = [k \in DOMAIN sent \cup {packet.key} |->
                       IF k = packet.key THEN [backend |-> backend_id, at |-> now] ELSE sent[k]]
        BY <1>1, <2>2 DEF Record
      <3>4. /\ DOMAIN sent' \subseteq Flow
            /\ sent' \in [DOMAIN sent' -> [backend : BackendId, at : 0 .. now']]
        BY <1>2, <2>1, <3>2, <3>3 DEF SentInv
      <3>5. ASSUME NEW k \in DOMAIN sent', now' - sent'[k].at <= Timeout[k]
            PROVE  /\ k \in Known'
                   /\ flows'[k].backend = sent'[k].backend
                   /\ flows'[k].last_seen >= sent'[k].at
        BY <1>2, <2>1, <3>2, <3>3, <3>5 DEF SentInv
      <3>6. ASSUME NEW k \in DOMAIN sent, now - sent[k].at <= Timeout[k]
            PROVE  sent'[k].backend = sent[k].backend
        BY <3>2, <3>3, <3>6 DEF SentInv
      <3> QED
        BY <3>4, <3>5, <3>6 DEF SentInv
    <2>3. CASE outcome # "tx"
      BY <1>1, <2>1, <2>3 DEF SentInv, Record
    <2> QED
      BY <2>2, <2>3
  <1> QED
    BY <1>3, <1>4

(* A sweep spares the flows of which a packet was sent within the timeout, *)
(* a hit makes them younger, and time only brings the timeout nearer.      *)
LEMMA KeepsSent ==
  ASSUME Inv, SentInv, [Next]_vars, ~Deliver
  PROVE  SentInv' /\ sent' = sent
  <1>1. sent' = sent
    BY Zenon DEF Next, HealthThread, SetHealth, SetDraining, Publish, GiveUp, PassOver, Lookup,
       GetActive, Tick, TimePasses, vars
  <1>2. CASE UNCHANGED <<flows, now>>
    BY <1>1, <1>2 DEF SentInv, Known
  <1>3. CASE \E k \in Flow : Refresh(k)
    <2>1. PICK k \in Known : flows' = [flows EXCEPT ![k].last_seen = now] /\ now' = now
      BY <1>3 DEF Refresh
    <2>2. Known' = Known
      BY <2>1 DEF Known
    <2>3. ASSUME NEW x \in Known
          PROVE  /\ flows'[x].backend = flows[x].backend
                 /\ flows'[x].last_seen = IF x = k THEN now ELSE flows[x].last_seen
      BY <2>1 DEF Inv, TypeOK, ftTypeOK, Entry, Known
    <2>4. \A x \in DOMAIN sent : sent[x].at <= now
      BY DEF SentInv
    <2> QED
      BY <1>1, <2>1, <2>2, <2>3, <2>4 DEF SentInv
  <1>4. CASE \E S \in SUBSET Known : Evict(S)
    <2>1. PICK S \in SUBSET Known : Evict(S)
      BY <1>4
    <2>2. flows' = [x \in Known \ S |-> flows[x]] /\ now' = now /\ Known' = Known \ S
      BY <2>1 DEF Evict, Restrict, Known
    <2>3. ASSUME NEW k \in DOMAIN sent, now - sent[k].at <= Timeout[k]
          PROVE  k \in Known \ S
      <3>1. k \in Known /\ flows[k].last_seen >= sent[k].at
        BY <2>3 DEF SentInv
      <3>2. /\ now \in Nat /\ sent[k].at \in Nat /\ flows[k].last_seen \in Nat
            /\ Timeout[k] \in Nat
        BY <3>1, TimeoutAssumption DEF SentInv, Inv, TypeOK, ftTypeOK, Entry, Known
      <3>3. ~Expired(k, now)
        BY <2>3, <3>1, <3>2 DEF Expired
      <3> QED
        BY <2>1, <3>1, <3>3 DEF Evict
    <2> QED
      BY <1>1, <2>2, <2>3 DEF SentInv
  <1>5. CASE Advance
    <2>1. now' = now + 1 /\ now \in Nat /\ flows' = flows /\ Known' = Known
      BY <1>5 DEF Advance, Known, Inv, TypeOK, ftTypeOK
    <2>2. ASSUME NEW k \in DOMAIN sent
          PROVE  /\ sent[k] \in [backend : BackendId, at : 0 .. now']
                 /\ now' - sent[k].at <= Timeout[k] => now - sent[k].at <= Timeout[k]
      BY <2>1, TimeoutAssumption DEF SentInv
    <2> QED
      BY <1>1, <2>1, <2>2 DEF SentInv
  <1> QED
    <2>1. ASSUME NEW f \in Frame, Lookup(f) PROVE SentInv'
      BY <1>2, <1>3, <2>1 DEF Lookup, Inv, TypeOK, ftTypeOK
    <2>2. CASE Tick
      BY <1>4, <2>2 DEF Tick
    <2>3. CASE TimePasses
      BY <1>5, <2>3 DEF TimePasses
    <2>4. UNCHANGED <<flows, now>> \/ Tick \/ TimePasses \/ \E f \in Frame : Lookup(f)
      BY Zenon DEF Next, HealthThread, SetHealth, SetDraining, Publish, GiveUp, PassOver,
         GetActive, vars
    <2> QED
      BY <1>1, <1>2, <2>1, <2>2, <2>3, <2>4

(* A connection stays where it is: through every change of health and of   *)
(* draining, every table that is installed or not, every eviction and      *)
(* every refused or dropped packet, what is sent of a flow within its      *)
(* timeout goes where its last packet went (handle_packet).                *)
THEOREM KeepsBackend == Spec => FlowsKeepBackend
  <1>1. Init => SentInv /\ HitIsSeenNow
    BY DEF Init, SentInv, HitIsSeenNow
  <1>2. Inv /\ SentInv /\ HitIsSeenNow /\ [Next]_vars => SentInv' /\ HitIsSeenNow'
    BY DeliverSends, KeepsSent, SeenNow
  <1>3. Spec => [](SentInv /\ HitIsSeenNow)
    BY <1>1, <1>2, Invariance, PTL DEF Spec
  <1>4. Inv /\ SentInv /\ HitIsSeenNow /\ [Next]_vars =>
          [\A k \in DOMAIN sent :
             now - sent[k].at <= Timeout[k] => sent'[k].backend = sent[k].backend]_vars
    BY DeliverSends, KeepsSent
  <1> QED
    BY <1>3, <1>4, Invariance, PTL DEF Spec, FlowsKeepBackend

(* The other side of the datapath: the control plane as it is restated     *)
(* here is the one TableGenerator is shown to implement.                   *)
Routing == INSTANCE RoutingTable

LEMMA WantIsView == want' \in Routing!View
  <1> DEFINE up == {b \in BackendId : healthy'[b]}
  <1>1. want' = [routable |-> up, eligible |-> up \ draining']
    BY DEF want
  <1>2. up \in SUBSET Nat /\ up \ draining' \in SUBSET Nat /\ up \ draining' \subseteq up
    BY BackendIdAssumption, Zenon
  <1> HIDE DEF up
  <1> QED
    BY <1>1, <1>2 DEF Routing!View

LEMMA WantKept == ASSUME UNCHANGED <<healthy, draining>> PROVE UNCHANGED want
  BY DEF want

LEMMA ControlStep == [Next]_vars => [Routing!Next]_Routing!rtVars
  <1> SUFFICES ASSUME [Next]_vars PROVE [Routing!Next]_Routing!rtVars
    OBVIOUS
  <1>1. ASSUME NEW b \in BackendId, SetHealth(b) \/ SetDraining(b)
        PROVE  Routing!Change
    BY <1>1, WantIsView DEF SetHealth, SetDraining, Routing!Change
  <1>2. CASE Publish
    BY <1>2, WantKept DEF Publish, Routing!Publish, Routing!Next
  <1>3. CASE GiveUp
    BY <1>3, WantKept DEF GiveUp, Routing!GiveUp, Routing!Next
  <1>4. ASSUME UNCHANGED control
        PROVE  UNCHANGED Routing!rtVars
    BY <1>4, WantKept DEF control, Routing!rtVars
  <1>5. ASSUME \/ \E f \in Frame : PassOver(f) \/ Lookup(f)
               \/ GetActive \/ Deliver \/ Tick \/ TimePasses
               \/ UNCHANGED vars
        PROVE  UNCHANGED control
    BY <1>5, Zenon DEF PassOver, Lookup, GetActive, Deliver, Tick, TimePasses, vars
  <1>6. CASE HealthThread
    BY <1>1, <1>2, <1>3, <1>6 DEF HealthThread, Routing!Next
  <1>7. CASE ~HealthThread
    BY <1>4, <1>5, <1>7 DEF Next
  <1> QED
    BY <1>6, <1>7

(* Every step of the two threads is a step of RoutingTable, or leaves its  *)
(* variables alone: what is assumed here of backend_manager.c and          *)
(* table_generator.c is no more than what TableGenerator provides.         *)
THEOREM ControlIsRoutingTable == Spec => [][Routing!Next]_Routing!rtVars
  BY ControlStep, PTL DEF Spec
=============================================================================
