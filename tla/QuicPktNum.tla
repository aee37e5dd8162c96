----------------------------- MODULE QuicPktNum -----------------------------
(***************************************************************************)
(* Packet numbers between the two ends of a packet number space.  The      *)
(* sender writes the lowest bytes of the number of a packet, as few as the *)
(* largest number the peer acknowledged allows; the receiver finds the     *)
(* other ones from the largest number it has treated.                      *)
(*                                                                         *)
(* The network loses, delays, reorders and repeats packets and ACK frames: *)
(* whatever was sent may arrive at any time, or never.                     *)
(***************************************************************************)
EXTENDS Integers, FiniteSets

CONSTANTS Byte,                  \* the number of values of a byte, 256 in the code
          QUIC_MAX_PACKET_NUM,   \* 2^62 - 1 in the code
          MaxPn,                 \* bound: the largest packet number sent
          MaxBatch,              \* bound: the packets waiting to be decrypted
          MaxAcks                \* bound: the different ACK frames sent

ASSUME ByteAssumption == Byte \in Nat /\ Byte > 0 /\ Byte % 2 = 0

ASSUME MaxAssumption ==
  QUIC_MAX_PACKET_NUM \in Nat /\ MaxPn \in Nat /\ MaxPn < QUIC_MAX_PACKET_NUM

VARIABLES next_pn,           \* sender: tx.next_pn
          largest_acked_pn,  \* sender: tx.largest_acked_pn
          pn_sent,              \* the packets sent, [pn, pnl]
          pkts,              \* receiver: rx.pkts, each [pn, pkt] with the decoded pn
          largest_pn,        \* receiver: rx.largest_pn
          head,              \* receiver: the largest number of rx.ack_ranges, or -1
          acks               \* the largest numbers of the ACK frames sent

pnVars == <<next_pn, largest_acked_pn, pn_sent, pkts, largest_pn, head, acks>>

-----------------------------------------------------------------------------
\* 1 << (8 * pnl)
pn_win(pnl) ==
  CASE pnl = 1 -> Byte
    [] pnl = 2 -> Byte * Byte
    [] pnl = 3 -> Byte * Byte * Byte
    [] pnl = 4 -> Byte * Byte * Byte * Byte

\* A mutation of quic_packet_number_length(): the range is not doubled.
quic_packet_number_length_single(pn, largest_acked) ==
  CASE pn - largest_acked >= pn_win(3) -> 4
    [] pn - largest_acked \in pn_win(2) .. pn_win(3) - 1 -> 3
    [] pn - largest_acked \in pn_win(1) .. pn_win(2) - 1 -> 2
    [] OTHER -> 1

quic_packet_number_length(pn, largest_acked) ==
  LET max_nack_pkts == 2 * (pn - largest_acked) + 1
  IN  IF max_nack_pkts >= pn_win(3) THEN 4
      ELSE IF max_nack_pkts >= pn_win(2) THEN 3
      ELSE IF max_nack_pkts >= pn_win(1) THEN 2
      ELSE 1

\* The bytes quic_packet_number_encode() writes and qc_do_rm_hp() reads again.
truncated_pn(p) == p.pn % pn_win(p.pnl)

\* largest is -1 before the first packet: the sum wraps to 0.
decode_packet_number(largest, truncated, win) ==
  LET expected  == largest + 1
      hwin      == win \div 2
      candidate == (expected - (expected % win)) + truncated
  IN  CASE candidate < QUIC_MAX_PACKET_NUM - win /\ candidate + hwin <= expected
             -> candidate + win
        [] candidate > expected + hwin /\ candidate >= win
             -> candidate - win
        [] OTHER -> candidate

decoded(p) == decode_packet_number(largest_pn, truncated_pn(p), pn_win(p.pnl))

-----------------------------------------------------------------------------
PnInit ==
  /\ next_pn = -1
  /\ largest_acked_pn = -1
  /\ pn_sent = {}
  /\ pkts = {}
  /\ largest_pn = -1
  /\ head = -1
  /\ acks = {}

(***************************************************************************)
(* qc_build_hdshk_pkt() or qc_build_phdshk_apkt(), for a packet that is    *)
(* sent; a packet that cannot be built consumes no number.  The code uses  *)
(* 4 bytes whatever the number of packets not acknowledged; the congestion *)
(* window keeps it far below half of their range.                          *)
(***************************************************************************)
BuildPnPkt ==
  LET pn == next_pn + 1
  IN  /\ pn <= MaxPn
      /\ 2 * (pn - largest_acked_pn) + 1 < pn_win(4)
      /\ next_pn' = pn
      /\ pn_sent' = pn_sent \cup
           {[pn |-> pn, pnl |-> quic_packet_number_length(pn, largest_acked_pn)]}
      /\ UNCHANGED <<largest_acked_pn, pkts, largest_pn, head, acks>>

\* qc_try_rm_hp() or qc_rm_hp_pkts(): the number is decoded when the packet
\* arrives, from the largest number treated so far.
RmHp(p) ==
  /\ Cardinality(pkts) < MaxBatch
  /\ pkts' = pkts \cup {[pn |-> decoded(p), pkt |-> p]}
  /\ UNCHANGED <<next_pn, largest_acked_pn, pn_sent, largest_pn, head, acks>>

\* qc_pkt_decrypt() (AEAD): the nonce of a packet is its number.
decrypts(r) == r.pn = r.pkt.pn

\* The singleton of the largest number of <pns>.
largest_of(pns) == {m \in pns : \A n \in pns : n <= m}

(***************************************************************************)
(* qc_treat_rx_pkts(): the waiting packets in ascending order.  <good> are *)
(* those whose frames are parsed without error.  With <nomem> the pool of  *)
(* the ranges is exhausted at the last of them, whose number is not added  *)
(* to the ranges (QuicAckRanges); the ones after it wait further.          *)
(***************************************************************************)
TreatPnPkts(good, nomem) ==
  /\ pkts # {}
  /\ good \subseteq {r \in pkts : decrypts(r)}
  /\ nomem => good # {}
  /\ LET pns   == {r.pn : r \in good}
         added == IF nomem THEN pns \ largest_of(pns) ELSE pns
     IN  /\ largest_pn' \in largest_of(pns \cup {largest_pn})
         /\ head' \in largest_of(added \cup {head})
         /\ pkts' = IF nomem THEN {r \in pkts : \A n \in pns : r.pn > n} ELSE {}
  /\ UNCHANGED <<next_pn, largest_acked_pn, pn_sent, acks>>

\* The receiver builds an ACK frame, whose first range ends with the head.
BuildAckFrm ==
  /\ head >= 0
  /\ Cardinality(acks) < MaxAcks
  /\ acks' = acks \cup {head}
  /\ UNCHANGED <<next_pn, largest_acked_pn, pn_sent, pkts, largest_pn, head>>

\* qc_parse_ack_frm() at the sender, for a frame with a new largest number that
\* gives an RTT sample; the other frames leave the largest number alone.
ParseAck(n) ==
  /\ n > largest_acked_pn
  /\ largest_acked_pn' = n
  /\ UNCHANGED <<next_pn, pn_sent, pkts, largest_pn, head, acks>>

PnNext ==
  \/ BuildPnPkt
  \/ \E p \in pn_sent : RmHp(p)
  \/ \E good \in SUBSET pkts, nomem \in BOOLEAN : TreatPnPkts(good, nomem)
  \/ BuildAckFrm
  \/ \E n \in acks : ParseAck(n)

PnSpec == PnInit /\ [][PnNext]_pnVars

-----------------------------------------------------------------------------
PnPacket == [pn : 0 .. MaxPn, pnl : 1 .. 4]

\* The variables keep their types; a decoded number is never negative.
PnTypeOK ==
  /\ next_pn \in -1 .. MaxPn
  /\ largest_acked_pn \in -1 .. MaxPn
  /\ pn_sent \subseteq PnPacket
  /\ pkts \subseteq [pn : Nat, pkt : PnPacket]
  /\ largest_pn \in -1 .. MaxPn
  /\ head \in -1 .. MaxPn
  /\ acks \subseteq 0 .. MaxPn

(***************************************************************************)
(* Whatever is lost, late or repeated in both directions, the length that  *)
(* quic_packet_number_length() chose when the packet left is enough for    *)
(* decode_packet_number() whenever it arrives, unless it has been overtaken *)
(* by half of the range of this length.  In particular every packet newer  *)
(* than those already treated gets its own number, and can be decrypted.   *)
(***************************************************************************)
WindowDecoded ==
  \A p \in pn_sent :
    p.pn + pn_win(p.pnl) \div 2 > largest_pn + 1 => decoded(p) = p.pn
=============================================================================
