--------------------------- MODULE QuicAckRanges ---------------------------
(***************************************************************************)
(* The receiving side of a packet number space: the list of the ranges of  *)
(* packet numbers to acknowledge, the size of their encoding, which is     *)
(* maintained by differences, and the ACK frames built from them.          *)
(*                                                                         *)
(* struct quic_ack_ranges is the record [list, sz, enc_sz]; the list is a  *)
(* sequence of ranges [first, last] in descending order.                   *)
(***************************************************************************)
EXTENDS Integers, Sequences, SequencesExt

CONSTANTS QUIC_VARINT_1_BYTE_MAX,   \* 63 in the code
          QUIC_VARINT_2_BYTE_MAX,   \* 16383 in the code
          Pns,                      \* bound: the packet numbers received
          Limits,                   \* the rooms an ACK frame may find, in bytes
          MaxEncSz                  \* bound: no reception once enc_sz is above or has wrapped

VARIABLES ranges,        \* rx.ack_ranges
          ack_largest_pn, \* rx.largest_pn
          odd,           \* rx.nb_ack_eliciting & 1
          ack_required,  \* QUIC_FL_PKTNS_ACK_REQUIRED
          wide           \* history: has sz exceeded QUIC_VARINT_1_BYTE_MAX?

ackVars == <<ranges, ack_largest_pn, odd, ack_required, wide>>

-----------------------------------------------------------------------------
QUIC_VARINT_4_BYTE_MAX == 2 ^ 30 - 1

\* A negative difference is a uint64_t beyond QUIC_VARINT_8_BYTE_MAX.
quic_int_getsize(val) ==
  CASE val < 0                       -> 0
    [] val \in 0 .. QUIC_VARINT_1_BYTE_MAX -> 1
    [] val \in QUIC_VARINT_1_BYTE_MAX + 1 .. QUIC_VARINT_2_BYTE_MAX -> 2
    [] val \in QUIC_VARINT_2_BYTE_MAX + 1 .. QUIC_VARINT_4_BYTE_MAX -> 4
    [] OTHER                         -> 8

quic_incint_size_diff(val) ==
  CASE val = QUIC_VARINT_1_BYTE_MAX -> 1
    [] val = QUIC_VARINT_2_BYTE_MAX -> 2
    [] val = QUIC_VARINT_4_BYTE_MAX -> 4
    [] OTHER                        -> 0

quic_decint_size_diff(val) == quic_incint_size_diff(val - 1)

sack_gap(p, q) == p.first - q.last - 2

diff(r) == r.last - r.first

-----------------------------------------------------------------------------
\* The cases of quic_update_ack_ranges_list(), for the range at index <i>.
insert_before(q, i, pn) ==
  LET curr == q.list[i]
      new  == [first |-> pn, last |-> pn]
      gaps == IF i = 1 THEN quic_int_getsize(sack_gap(new, curr))
              ELSE quic_int_getsize(sack_gap(q.list[i - 1], new))
                   + quic_int_getsize(sack_gap(new, curr))
                   - quic_int_getsize(sack_gap(q.list[i - 1], curr))
  IN  [list   |-> InsertAt(q.list, i, new),
       sz     |-> q.sz + 1,
       enc_sz |-> q.enc_sz + quic_int_getsize(pn) + 1 + quic_incint_size_diff(q.sz)
                  - quic_int_getsize(curr.last) + gaps]

extend_up(q, i, pn) ==
  LET curr == q.list[i]
  IN  [q EXCEPT !.list[i].last = pn,
                !.enc_sz = @ + quic_incint_size_diff(diff(curr))
                             + IF i = 1 THEN quic_incint_size_diff(curr.last)
                               ELSE -quic_decint_size_diff(sack_gap(q.list[i - 1], curr))]

merge_with_next_curr(q, i) ==
  [q EXCEPT !.list = RemoveAt(@, i + 1), !.sz = @ - 1]

merge_with_next(q, i) ==
  LET curr == q.list[i]
      next == q.list[i + 1]
      both == [first |-> next.first, last |-> curr.last]
  IN  [list   |-> RemoveAt(ReplaceAt(q.list, i + 1, both), i),
       sz     |-> q.sz - 1,
       enc_sz |-> q.enc_sz - quic_int_getsize(diff(curr))
                  - quic_int_getsize(sack_gap(curr, next)) - quic_int_getsize(diff(next))
                  + quic_int_getsize(diff(both)) - quic_decint_size_diff(q.sz)]

extend_down(q, i, pn) ==
  [q EXCEPT !.list[i].first = pn,
            !.enc_sz = @ + quic_incint_size_diff(diff(q.list[i]))
                         - IF i = Len(q.list) THEN 0
                           ELSE quic_decint_size_diff(sack_gap(q.list[i], q.list[i + 1]))]

\* A mutation of the insertion at the end: the byte of <diff> is not counted.
append_last_nodiff(q, pn) ==
  LET new == [first |-> pn, last |-> pn]
  IN  [list   |-> Append(q.list, new),
       sz     |-> q.sz + 1,
       enc_sz |-> q.enc_sz + quic_int_getsize(sack_gap(Last(q.list), new))]

append_last(q, pn) ==
  LET new == [first |-> pn, last |-> pn]
  IN  [list   |-> Append(q.list, new),
       sz     |-> q.sz + 1,
       enc_sz |-> q.enc_sz + quic_int_getsize(sack_gap(Last(q.list), new)) + 1]

first_range(q, pn) ==
  [list   |-> <<[first |-> pn, last |-> pn]>>,
   sz     |-> q.sz + 1,
   enc_sz |-> q.enc_sz + quic_int_getsize(pn) + 2]

\* The walk stops at the first range that <pn> is not well below of, or at the last.
stop_index(list, pn) ==
  Min({i \in DOMAIN list : pn >= list[i].first - 1 \/ i = Len(list)})

needs_alloc(list, pn) ==
  list # <<>> => LET curr == list[stop_index(list, pn)]
                 IN  pn > curr.last + 1 \/ pn < curr.first - 1

quic_update_ack_ranges_list(q, pn) ==
  IF q.list = <<>> THEN first_range(q, pn)
  ELSE LET i    == stop_index(q.list, pn)
           curr == q.list[i]
       IN  CASE pn \in curr.first .. curr.last -> q
             [] pn > curr.last + 1             -> insert_before(q, i, pn)
             [] pn = curr.last + 1             -> extend_up(q, i, pn)
             [] pn = curr.first - 1            ->
                  IF i < Len(q.list) /\ pn = q.list[i + 1].last + 1
                  THEN merge_with_next(q, i) ELSE extend_down(q, i, pn)
             [] OTHER                          -> append_last(q, pn)

-----------------------------------------------------------------------------
(***************************************************************************)
(* One turn of the loop of quic_rm_last_ack_ranges().  The range before    *)
(* the only range of the list is the head of the list read as a range:     *)
(* its <first> is the field of struct quic_ack_ranges at the same place,   *)
(* sz.                                                                     *)
(***************************************************************************)
rm_last(q) ==
  LET last       == Last(q.list)
      prev_first == IF Len(q.list) = 1 THEN q.sz ELSE q.list[Len(q.list) - 1].first
  IN  [list   |-> Front(q.list),
       sz     |-> q.sz - 1,
       enc_sz |-> q.enc_sz - quic_int_getsize(diff(last))
                  - quic_int_getsize(prev_first - last.last - 2)
                  - quic_decint_size_diff(q.sz)]

\* <enc_sz> and <limit> are size_t: a negative one is larger than any size.
above(enc_sz, limit) == limit >= 0 /\ (enc_sz < 0 \/ enc_sz > limit)

quic_rm_last_ack_ranges(q, limit) ==
  LET after[k \in 0 .. Len(q.list)] == IF k = 0 THEN q ELSE rm_last(after[k - 1])
      enough == {k \in DOMAIN after : ~above(after[k].enc_sz, limit)}
  IN  after[IF enough = {} THEN Len(q.list) ELSE Min(enough)]

\* The frame type and an ack_delay of 0 take a byte each.
ack_frm_room(limit) == limit - 2

reduce_ok(q, limit) ==
  ~above(quic_rm_last_ack_ranges(q, ack_frm_room(limit)).enc_sz, ack_frm_room(limit))

\* The integers of the frame quic_build_ack_frame() writes after the type.
quic_build_ack_frame(q) ==
  <<q.list[1].last, 0, q.sz - 1, diff(q.list[1])>>
  \o FlattenSeq([i \in 1 .. Len(q.list) - 1 |->
                   <<sack_gap(q.list[i], q.list[i + 1]), diff(q.list[i + 1])>>])

(***************************************************************************)
(* The ranges the peer reads: quic_parse_ack_frame_header(), then the loop *)
(* of qc_parse_ack_frm(), which refuses a range that goes below zero.      *)
(***************************************************************************)
parse_ack_frm(frm) ==
  LET more(acc, i) ==
        LET largest == Last(acc).first - frm[3 + 2 * i] - 2
        IN  Append(acc, [first |-> largest - frm[4 + 2 * i], last |-> largest])
      read == FoldLeft(more, <<[first |-> frm[1] - frm[4], last |-> frm[1]]>>,
                       [i \in 1 .. frm[3] |-> i])
  IN  IF \E i \in DOMAIN read : read[i].first < 0 THEN <<>> ELSE read

-----------------------------------------------------------------------------
AckInit ==
  /\ ranges = [list |-> <<>>, sz |-> 0, enc_sz |-> 0]
  /\ ack_largest_pn = -1
  /\ odd = FALSE
  /\ ack_required = FALSE
  /\ wide = FALSE

\* Before the list is updated, qc_treat_rx_pkts() counts an ack-eliciting packet
\* and asks for an ACK every second one.
count_packet(pn, ack_eliciting) ==
  /\ odd' = (odd # ack_eliciting)
  /\ ack_required' = (ack_required \/ (ack_eliciting /\ odd))
  /\ ack_largest_pn' = IF pn > ack_largest_pn THEN pn ELSE ack_largest_pn

\* qc_treat_rx_pkts() for a packet whose frames are parsed without error.
TreatRxPkt(pn, ack_eliciting) ==
  /\ ranges.enc_sz \in 0 .. MaxEncSz
  /\ count_packet(pn, ack_eliciting)
  /\ ranges' = quic_update_ack_ranges_list(ranges, pn)
  /\ wide' = (wide \/ ranges'.sz > QUIC_VARINT_1_BYTE_MAX)

\* The same when the pool of the ranges is exhausted.
TreatRxPktNoRange(pn, ack_eliciting) ==
  /\ ranges.enc_sz \in 0 .. MaxEncSz
  /\ needs_alloc(ranges.list, pn)
  /\ count_packet(pn, ack_eliciting)
  /\ UNCHANGED <<ranges, wide>>

(***************************************************************************)
(* The ACK part of qc_do_build_hdshk_pkt() and qc_do_build_phdshk_apkt():  *)
(* the ranges removed are lost for good even when too few of them could be *)
(* removed, and then the ACK is still required.                            *)
(***************************************************************************)
BuildAck(limit) ==
  /\ ack_required
  /\ ranges.list # <<>>
  /\ ranges' = quic_rm_last_ack_ranges(ranges, ack_frm_room(limit))
  /\ ack_required' = ~reduce_ok(ranges, limit)
  /\ UNCHANGED <<ack_largest_pn, odd, wide>>

AckNext ==
  \/ \E pn \in Pns, ack_eliciting \in BOOLEAN :
       TreatRxPkt(pn, ack_eliciting) \/ TreatRxPktNoRange(pn, ack_eliciting)
  \/ \E limit \in Limits : BuildAck(limit)

AckSpec == AckInit /\ [][AckNext]_ackVars

-----------------------------------------------------------------------------
Range_ == [first : Pns, last : Pns]

\* The variables keep their types; an enc_sz that has wrapped is negative.
AckTypeOK ==
  /\ ranges \in [list : Seq(Range_), sz : Nat, enc_sz : Int]
  /\ ack_largest_pn \in Pns \cup {-1}
  /\ odd \in BOOLEAN
  /\ ack_required \in BOOLEAN
  /\ wide \in BOOLEAN

covered(list) == UNION {list[i].first .. list[i].last : i \in DOMAIN list}

(***************************************************************************)
(* The list quic_update_ack_ranges_list() walks is what its comment draws: *)
(* no empty range, descending order, at least one missing number between   *)
(* two ranges (or the gap that is encoded would be negative), and sz is    *)
(* their number.                                                           *)
(***************************************************************************)
Canonical ==
  /\ ranges.sz = Len(ranges.list)
  /\ \A i \in DOMAIN ranges.list :
       /\ ranges.list[i].first <= ranges.list[i].last
       /\ i > 1 => sack_gap(ranges.list[i - 1], ranges.list[i]) >= 0

Acks == INSTANCE AckSet WITH acks <- covered(ranges.list)

\* The ranges implement a set of packet numbers: a packet that is treated adds
\* its number only, an ACK frame that lacks room forgets the lowest ones only.
ImplementsAckSet == Acks!Spec

\* The peer that parses an ACK frame with this code reads the ranges of the list.
RoundTrip ==
  ranges.list # <<>> => parse_ack_frm(quic_build_ack_frame(ranges)) = ranges.list

encoded_len(frm) == FoldLeft(LAMBDA n, val : n + quic_int_getsize(val), 1, frm)

(***************************************************************************)
(* quic_ack_frm_reduce_sz() keeps its promise: the frame built from the    *)
(* ranges it keeps takes no more than <limit> bytes, though enc_sz is not  *)
(* exact.  There must be room for the type and the delay (the subtraction  *)
(* wraps otherwise), a range must be left, and the number of ranges must   *)
(* never have needed more than one byte.                                   *)
(***************************************************************************)
FrameFits ==
  \A limit \in Limits :
    LET q == quic_rm_last_ack_ranges(ranges, ack_frm_room(limit))
    IN  ~wide /\ limit >= 2 /\ reduce_ok(ranges, limit) /\ q.list # <<>>
          => encoded_len(quic_build_ack_frame(q)) <= limit

\* quic_update_ack_ranges_list() keeps exactly the numbers received, less the lowest ones
\* quic_rm_last_ack_ranges() had no room for, in ranges that are sorted and apart.
AcksExact == ImplementsAckSet /\ [](AckTypeOK /\ Canonical)

\* The ACK frame built from the ranges fits where quic_ack_frm_reduce_sz() was asked to make
\* it fit, and is read by the peer as the same ranges.
FrameExact == FrameFits /\ RoundTrip
=============================================================================
