------------------------------ MODULE QuicRtt ------------------------------
(***************************************************************************)
(* The round-trip-time estimator of a QUIC path as a state machine: its    *)
(* only operation is quic_loss_srtt_update(), called by                    *)
(* qc_parse_pkt_frms() for every ACK frame that gives a sample.            *)
(***************************************************************************)
EXTENDS QuicPath

CONSTANTS RTTs,       \* the RTT samples an ACK may produce (ticks)
          AckDelays   \* the ACK delays a peer may report (ticks)

ASSUME RttAssumption == /\ RTTs \subseteq Nat \ {0}
                        /\ \A r \in RTTs : 8 * r + 7 < UINT
ASSUME AckDelayAssumption == AckDelays \subseteq Nat

VARIABLES ql,       \* struct quic_loss
          rtt_max   \* history: the largest sample seen, 0 before the first

rttVars == <<ql, rtt_max>>

RttInit == ql = quic_loss_init /\ rtt_max = 0

\* An ACK frame gave the RTT sample <rtt> (never 0: see qc_parse_pkt_frms()).
Sample(rtt, ack_delay) ==
  /\ ql' = quic_loss_srtt_update(ql, rtt, ack_delay)
  /\ rtt_max' = IF rtt > rtt_max THEN rtt ELSE rtt_max

RttNext == \E rtt \in RTTs, d \in AckDelays : Sample(rtt, d)

RttSpec == RttInit /\ [][RttNext]_rttVars

-----------------------------------------------------------------------------
\* Every member of struct quic_loss is an unsigned int.
RttTypeOK ==
  /\ ql \in [latest_rtt : 0 .. UINT - 1, srtt : 0 .. UINT - 1,
             rtt_var : 0 .. UINT - 1, rtt_min : 0 .. UINT - 1]
  /\ rtt_max \in 0 .. UINT - 1

(***************************************************************************)
(* The smoothed RTT stays between the smallest and the largest sample      *)
(* whatever the ACK delays the peer reports; in particular it is never 0   *)
(* again after the first sample, so that "No previous measurement" cannot  *)
(* be taken twice.  The roundings of the shifts add at most 7/8 of a tick. *)
(***************************************************************************)
SrttBounded ==
  rtt_max # 0 => /\ 0 < ql.rtt_min
                 /\ ql.rtt_min <= rtt_max
                 /\ 8 * ql.rtt_min <= ql.srtt
                 /\ ql.srtt <= 8 * rtt_max + 7

(***************************************************************************)
(* As long as no sample exceeds eight times the smallest one, the RTT      *)
(* variation is an average of the differences it was fed with: it stays    *)
(* below the largest possible difference (times 4) and does not wrap.      *)
(***************************************************************************)
RttVarBounded ==
  rtt_max <= 8 * ql.rtt_min =>
     ql.rtt_var <= 4 * (8 * rtt_max + 7 - ql.rtt_min) + 3

\* quic_loss_srtt_update() computes averages: the smoothed RTT and its variation stay in the
\* bounds of what they are averages of.
RttBounded == SrttBounded /\ RttVarBounded
=============================================================================
