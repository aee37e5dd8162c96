----------------------------- MODULE QuicPath -----------------------------
(***************************************************************************)
(* A QUIC path (struct quic_path, include/types/xprt_quic.h) as operators: *)
(* its loss information and its congestion controller.                     *)
(***************************************************************************)
EXTENDS Integers

(***************************************************************************)
(* The loss information (struct quic_loss, include/types/quic_loss.h and   *)
(* include/proto/quic_loss.h).                                             *)
(*                                                                         *)
(* All the members of the structure are 32-bit unsigned integers.  UINT is *)
(* the modulus: 2^32 in the program, smaller for TLC.  `srtt' holds eight  *)
(* times the smoothed RTT and `rtt_var' four times its variation.          *)
(***************************************************************************)
CONSTANT UINT       \* the modulus of unsigned int

ASSUME UintAssumption == UINT \in Nat \ {0}

QUIC_TIMER_GRANULARITY == 1

QUIC_LOSS_PACKET_THRESHOLD == 3

\* quic_loss_init(); latest_rtt is zeroed with the whole connection.
quic_loss_init ==
  [latest_rtt |-> 0, srtt |-> 0, rtt_var |-> 0, rtt_min |-> 0]

\* 8*srtt = 7*srtt + rtt
quic_loss_srtt_avg(srtt, rtt) == (srtt + rtt - srtt \div 8) % UINT

\* A mutation used to show RttVarBounded: the old variation is not decayed.
quic_loss_var_avg_bug(var, srtt, rtt) == (var + ((srtt - rtt) % UINT)) % UINT

(***************************************************************************)
(* `diff' is the difference of two unsigned int stored in a long: on a     *)
(* 64-bit platform it is never negative and the code's "if (diff < 0)" is  *)
(* never taken.                                                            *)
(***************************************************************************)
quic_loss_var_avg(var, srtt, rtt) ==
  LET diff == (srtt - rtt) % UINT
  IN  (var + diff - var \div 4) % UINT

\* The sample without the peer's ACK delay, when this leaves it above the minimum.
adjusted_rtt(rtt, min, ack_delay) ==
  IF ack_delay # 0 /\ rtt > min + ack_delay THEN rtt - ack_delay ELSE rtt

quic_loss_srtt_update(ql, rtt, ack_delay) ==
  IF ql.srtt = 0
  THEN [latest_rtt |-> rtt, srtt |-> rtt * 8, rtt_var |-> rtt * 2, rtt_min |-> rtt]
  ELSE LET min == IF rtt < ql.rtt_min THEN rtt ELSE ql.rtt_min
           adj == adjusted_rtt(rtt, min, ack_delay)
       IN  [latest_rtt |-> rtt,
            srtt       |-> quic_loss_srtt_avg(ql.srtt, adj),
            rtt_var    |-> quic_loss_var_avg(ql.rtt_var, ql.srtt, adj),
            rtt_min    |-> min]

\* Is <period>, the time between the oldest and the newest lost packet, long
\* enough to declare a persistent congestion?
quic_loss_persistent_congestion(ql, period, max_ack_delay) ==
  LET var == IF ql.rtt_var > QUIC_TIMER_GRANULARITY THEN ql.rtt_var
                                                   ELSE QUIC_TIMER_GRANULARITY
  IN  /\ period # 0
      /\ period >= (QUIC_LOSS_PACKET_THRESHOLD *
                       (ql.srtt \div 8 + var + max_ack_delay)) % UINT

(***************************************************************************)
(* The NewReno congestion controller (src/quic_cc.c,                       *)
(* src/quic_cc_newreno.c), on the record `path', which stands for the      *)
(* members of struct quic_path and of its algo_state.nr:                   *)
(*                                                                         *)
(*   state, nr_cwnd, ssthresh, recovery_start_time   algo_state.nr         *)
(*   cwnd, in_flight                                 struct quic_path      *)
(*                                                                         *)
(* The slow start threshold is infinite ((uint64_t)-1) until the first     *)
(* loss; the model writes -1 for it.                                       *)
(***************************************************************************)
CONSTANTS Mtu,            \* path->mtu, QUIC_INITIAL_IPV4_MTU for instance
          InitialWindow   \* the 14720 bytes of quic_path_init()

ASSUME MtuAssumption == Mtu \in Nat \ {0} /\ InitialWindow \in Nat

\* enum quic_cc_algo_state_type: slow start and congestion avoidance.
QUIC_CC_ST_SS == "ss"
QUIC_CC_ST_CA == "ca"

QUIC_CC_INFINITE_SSTHESH == -1

MaxOf(a, b) == IF a > b THEN a ELSE b
MinOf(a, b) == IF a < b THEN a ELSE b

MinCwnd == 2 * Mtu

above_ssthresh(cwnd, ssthresh) ==
  ssthresh # QUIC_CC_INFINITE_SSTHESH /\ cwnd > ssthresh

(***************************************************************************)
(* quic_path_init() calls quic_cc_init(), hence quic_cc_nr_init(), before  *)
(* it sets path->cwnd: the algorithm copies the zero new_quic_conn() left  *)
(* there.                                                                  *)
(***************************************************************************)
quic_path_init ==
  [state               |-> QUIC_CC_ST_SS,
   nr_cwnd             |-> 0,
   ssthresh            |-> QUIC_CC_INFINITE_SSTHESH,
   recovery_start_time |-> 0,
   cwnd                |-> MinOf(10 * Mtu, MaxOf(2 * Mtu, InitialWindow)),
   in_flight           |-> 0]

-----------------------------------------------------------------------------
\* A mutation of ss_ack(): slow start is never left upon an ACK.
ss_ack_stays(path, acked, time_sent) ==
  LET p == [path EXCEPT !.in_flight = @ - acked]
  IN  IF time_sent <= path.recovery_start_time
      THEN p
      ELSE [p EXCEPT !.nr_cwnd = @ + acked, !.cwnd = path.nr_cwnd + acked]

\* QUIC_CC_EVT_ACK in quic_cc_nr_ss_cb(): <acked> bytes sent at <time_sent>.
ss_ack(path, acked, time_sent) ==
  LET p    == [path EXCEPT !.in_flight = @ - acked]
      cwnd == path.nr_cwnd + acked
  IN  IF time_sent <= path.recovery_start_time
      THEN p
      ELSE [p EXCEPT !.nr_cwnd = cwnd, !.cwnd = cwnd,
                     !.state = IF above_ssthresh(cwnd, path.ssthresh)
                               THEN QUIC_CC_ST_CA ELSE QUIC_CC_ST_SS]

\* QUIC_CC_EVT_LOSS in quic_cc_nr_ss_cb().
ss_loss(path, lost_bytes) ==
  LET cwnd == MaxOf(path.nr_cwnd \div 2, MinCwnd)
  IN  [path EXCEPT !.in_flight = @ - lost_bytes, !.nr_cwnd = cwnd, !.cwnd = cwnd,
                   !.ssthresh = cwnd, !.state = QUIC_CC_ST_CA]

\* QUIC_CC_EVT_ACK in quic_cc_nr_ca_cb().
ca_ack(path, acked, time_sent) ==
  LET p    == [path EXCEPT !.in_flight = @ - acked]
      cwnd == path.nr_cwnd + Mtu * MaxOf(1, acked \div path.nr_cwnd)
  IN  IF time_sent <= path.recovery_start_time
      THEN p
      ELSE [p EXCEPT !.nr_cwnd = cwnd, !.cwnd = cwnd]

\* QUIC_CC_EVT_LOSS in quic_cc_nr_ca_cb(): <persistent> is the outcome of
\* quic_loss_persistent_congestion().
ca_loss(path, lost_bytes, newest_time_sent, persistent, now) ==
  LET entering == newest_time_sent > path.recovery_start_time
      halved   == MaxOf(path.nr_cwnd \div 2, MinCwnd)
      cwnd     == CASE persistent -> MinCwnd
                    [] ~persistent /\ entering -> halved
                    [] OTHER -> path.nr_cwnd
  IN  [path EXCEPT
         !.in_flight = @ - lost_bytes,
         !.recovery_start_time = IF entering THEN now ELSE @,
         !.ssthresh = IF entering THEN halved ELSE @,
         !.state = IF persistent THEN QUIC_CC_ST_SS ELSE @,
         !.nr_cwnd = cwnd, !.cwnd = cwnd]

\* quic_cc_event() for an ACK: quic_cc_nr_event() calls the state's callback.
quic_cc_ack_event(path, acked, time_sent) ==
  IF path.state = QUIC_CC_ST_SS THEN ss_ack(path, acked, time_sent)
                                ELSE ca_ack(path, acked, time_sent)

\* quic_cc_event() for a loss; <period> separates the oldest and the newest
\* lost packet and <ql> is the loss information of the path.
quic_cc_loss_event(path, lost_bytes, newest_time_sent, period, ql, max_ack_delay, now) ==
  IF path.state = QUIC_CC_ST_SS
  THEN ss_loss(path, lost_bytes)
  ELSE ca_loss(path, lost_bytes, newest_time_sent,
               quic_loss_persistent_congestion(ql, period, max_ack_delay), now)
=============================================================================
