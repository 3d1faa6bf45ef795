------------------------------- MODULE Packet -------------------------------
(***************************************************************************)
(* What src/net makes of a received frame and of the frame sent on: the    *)
(* Ethernet, IPv4 and TCP or UDP checks of packet_extract_flow, in their   *)
(* order, and the wrapping of gre_encap_build.                             *)
(*                                                                         *)
(* A frame is its size on the wire and what its headers say.  The fields   *)
(* of a header that lies beyond the received bytes have values too, as the *)
(* rest of the buffer has: they must not matter.                           *)
(***************************************************************************)
EXTENDS Integers

ETH_HDR_LEN == 14
IPV4_MIN_HDR_LEN == 20
GRE_HDR_LEN == 4
TCP_MIN_HDR_LEN == 20
UDP_HDR_LEN == 8
RX_BUF_LEN == 2048
TX_BUF_LEN == 2048

Word == {n \in Nat : n < 65536}
Byte == {n \in Nat : n < 256}

Header ==
  [size : Nat, ethertype : {"ip", "other"}, version : 0 .. 15, ihl : 0 .. 15,
   total_length : Word, protocol : {"tcp", "udp", "other"}]

(* recv cuts a longer frame off at the end of the buffer. *)
raw_socket_recv(h) == IF h.size > RX_BUF_LEN THEN RX_BUF_LEN ELSE h.size

header_len(h) == h.ihl * 4

(* Mutant of ipv4_parse, for the bounds: total_length is believed. *)
ipv4_parse_trusting(h, len) ==
  /\ len >= IPV4_MIN_HDR_LEN
  /\ h.version = 4 /\ h.ihl >= 5
  /\ header_len(h) <= len
  /\ h.total_length >= header_len(h)

ipv4_parse(h, len) ==
  /\ len >= IPV4_MIN_HDR_LEN
  /\ h.version = 4 /\ h.ihl >= 5
  /\ header_len(h) <= len
  /\ h.total_length >= header_len(h) /\ h.total_length <= len

(* tcp_parse_ports and udp_parse_ports: the whole fixed header is there. *)
parse_ports(h, len) == len >= IF h.protocol = "tcp" THEN TCP_MIN_HDR_LEN ELSE UDP_HDR_LEN

packet_extract_flow(h, len) ==
  IF len < ETH_HDR_LEN THEN "truncated"
  ELSE IF h.ethertype # "ip" THEN "unsupported"
  ELSE IF ~ipv4_parse(h, len - ETH_HDR_LEN) THEN "truncated"
  ELSE IF h.protocol = "other" THEN "unsupported"
  ELSE IF ~parse_ports(h, len - (ETH_HDR_LEN + header_len(h))) THEN "truncated"
  ELSE "ok"

(* The end of the last field the chain of parsers looks at. *)
ReadEnd(h, len) ==
  IF len < ETH_HDR_LEN THEN 0
  ELSE IF h.ethertype # "ip" \/ len - ETH_HDR_LEN < IPV4_MIN_HDR_LEN THEN ETH_HDR_LEN
  ELSE IF packet_extract_flow(h, len) # "ok" THEN ETH_HDR_LEN + IPV4_MIN_HDR_LEN
  ELSE ETH_HDR_LEN + header_len(h) + 4

(* The length of the frame, or 0 when it does not fit. *)
gre_encap_build(out_cap, inner_len) ==
  LET total == ETH_HDR_LEN + IPV4_MIN_HDR_LEN + GRE_HDR_LEN + inner_len
  IN IF total > out_cap THEN 0 ELSE total

outer_total_len(inner_len) == (IPV4_MIN_HDR_LEN + GRE_HDR_LEN + inner_len) % 65536

(* What ipv4_build is given: the rest of the outer header is constant. *)
OuterHeader ==
  [total_len : Word, ttl : Byte,
   src_hi : Word, src_lo : Word, dst_hi : Word, dst_lo : Word]

(* The 16-bit words ipv4_build writes, added up: version and length, flags *)
(* and protocol are 69, 64 and 47, and csum is in the checksum's place.    *)
HeaderSum(h, csum) ==
  69 * 256 + h.total_len + 64 * 256 + h.ttl * 256 + 47 + csum
    + h.src_hi + h.src_lo + h.dst_hi + h.dst_lo

Carry(sum) == (sum % 65536) + (sum \div 65536)

(* Mutant: the carry of adding the carry is lost. *)
FoldedOnce(sum) == Carry(sum) % 65536

(* The loop over sum >> 16; the sum of ten words needs at most two rounds. *)
Folded(sum) ==
  IF sum < 65536 THEN sum ELSE IF Carry(sum) < 65536 THEN Carry(sum) ELSE Carry(Carry(sum))

ipv4_checksum(h) == 65535 - Folded(HeaderSum(h, 0))

-----------------------------------------------------------------------------
(* Whatever arrives, no parser reads past the received bytes; an accepted  *)
(* packet lies inside them whole, with its ports; and when it is wrapped   *)
(* the frame fits the send buffer and its 16-bit length field holds the    *)
(* length there really is (flow.h:30-34, gre.h:26-31).                     *)
StaysInBuffer(h) ==
  LET len == raw_socket_recv(h)
  IN /\ ReadEnd(h, len) <= len
     /\ packet_extract_flow(h, len) = "ok" =>
          /\ ETH_HDR_LEN + h.total_length <= len
          /\ LET sent == gre_encap_build(TX_BUF_LEN, h.total_length)
             IN sent # 0 => /\ sent <= TX_BUF_LEN
                            /\ outer_total_len(h.total_length) = sent - ETH_HDR_LEN

(* The outer header verifies: adding up its words, the checksum included,  *)
(* gives the receiver all ones, whatever carries that takes (ipv4.h:24-26, *)
(* RFC 1071).                                                              *)
ChecksumVerifies(h) ==
  /\ Folded(HeaderSum(h, 0)) \in Word
  /\ Folded(HeaderSum(h, ipv4_checksum(h))) = 65535
=============================================================================
