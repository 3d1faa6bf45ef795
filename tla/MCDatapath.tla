----------------------------- MODULE MCDatapath -----------------------------
EXTENDS Datapath, TLC

CONSTANTS f1, f2

(* With both backends up the flows go to different ones. *)
MCTable ==
  [E \in SUBSET {0, 1} |-> [k \in {f1, f2} |->
     IF E = {} THEN -1
     ELSE IF Cardinality(E) = 1 THEN CHOOSE b \in E : TRUE
     ELSE IF k = f1 THEN 0 ELSE 1]]

(* One TCP and one UDP flow. *)
MCTimeout == (f1 :> 1) @@ (f2 :> 0)

(* A TCP frame at the size every limit is at, or one off it: the smallest  *)
(* that is accepted, the largest that can be wrapped, the largest that is  *)
(* received whole, and their neighbours; and one that is nothing but       *)
(* padding after its IPv4 header.                                          *)
Tcp(size) ==
  [size |-> size, ethertype |-> "ip", version |-> 4, ihl |-> 5,
   total_length |-> size - ETH_HDR_LEN, protocol |-> "tcp"]

MCHeaders ==
  {Tcp(size) : size \in {54, 2024, 2025, 2048, 2049}}
    \cup {[Tcp(53) EXCEPT !.size = 13], Tcp(53), [Tcp(60) EXCEPT !.ethertype = "other"],
          [Tcp(60) EXCEPT !.ihl = 4], [Tcp(60) EXCEPT !.version = 6],
          [Tcp(60) EXCEPT !.total_length = 47], [Tcp(60) EXCEPT !.total_length = 20],
          [Tcp(60) EXCEPT !.protocol = "other"]}

MCFrame ==
  {[header |-> h, key |-> f1, to_vip |-> v] : h \in MCHeaders, v \in BOOLEAN}
    \cup {[header |-> [Tcp(42) EXCEPT !.protocol = "udp"], key |-> f2, to_vip |-> TRUE]}

(* From 10.98.0.1 to 192.168.111.133, whose carry of the shortest TCP      *)
(* packet carries again, and to 10.98.0.11, which does not carry.          *)
MCOuter ==
  [b \in {0, 1} |->
     [total_len |-> 0, ttl |-> 64, src_hi |-> 2658, src_lo |-> 1,
      dst_hi |-> IF b = 0 THEN 49320 ELSE 2658, dst_lo |-> IF b = 0 THEN 28549 ELSE 11]]
=============================================================================
