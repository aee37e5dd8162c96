------------------------------- MODULE QuicCC -------------------------------
(***************************************************************************)
(* The congestion controller as a state machine: packets are sent, then    *)
(* each of them is acknowledged or declared lost, in any order.  The       *)
(* callers in src/xprt_quic.c send one ACK event per acknowledged packet   *)
(* (qc_treat_newly_acked_pkts()) and one LOSS event per group of lost      *)
(* packets (qc_release_lost_pkts()).  The ECN-CE event has no caller.      *)
(***************************************************************************)
EXTENDS QuicPath, FiniteSetsExt

CONSTANTS Lens,          \* in flight lengths of packets
          LossInfos,     \* states of the RTT estimator a loss may find
          MaxAckDelay,   \* max_ack_delay transport parameter
          MaxPkts,       \* bound: packets sent
          MaxTime        \* bound: clock

\* The states of the estimator the small instances use for LossInfos: its initial
\* state, and the one a first sample of one tick leaves.
FirstLossInfos == {quic_loss_init, quic_loss_srtt_update(quic_loss_init, 1, 0)}

ASSUME LensAssumption == Lens \subseteq Nat \ {0}

VARIABLES path,         \* the controller's state, see QuicPath
          cc_sent,      \* outstanding packets
          cc_next_pn,   \* number of packets sent so far
          now,          \* now_ms
          reduced       \* history: date of the last reduction of the window upon
                        \* a loss, 0 if none

ccVars == <<path, cc_sent, cc_next_pn, now, reduced>>

CCPacket == [pn : Nat, len : Lens, time_sent : Nat]

CCInit ==
  /\ path = quic_path_init
  /\ cc_sent = {}
  /\ cc_next_pn = 0
  /\ now = 1
  /\ reduced = 0

Tick ==
  /\ now < MaxTime
  /\ now' = now + 1
  /\ UNCHANGED <<path, cc_sent, cc_next_pn, reduced>>

\* One in flight packet leaves qc_send_ppkts().
CCSend(len) ==
  /\ cc_next_pn < MaxPkts
  /\ cc_next_pn' = cc_next_pn + 1
  /\ cc_sent' = cc_sent \cup {[pn |-> cc_next_pn, len |-> len, time_sent |-> now]}
  /\ path' = [path EXCEPT !.in_flight = @ + len]
  /\ UNCHANGED <<now, reduced>>

AckEvent(pkt) ==
  /\ path' = quic_cc_ack_event(path, pkt.len, pkt.time_sent)
  /\ cc_sent' = cc_sent \ {pkt}
  /\ UNCHANGED <<cc_next_pn, now, reduced>>

\* The packets of <lost> are declared lost together: the list is in the order
\* of packet numbers, which is also the order of emission.
LossEvent(lost, ql) ==
  LET oldest == CHOOSE p \in lost : \A q \in lost : p.pn <= q.pn
      newest == CHOOSE p \in lost : \A q \in lost : q.pn <= p.pn
  IN  /\ path' = quic_cc_loss_event(path, MapThenSumSet(LAMBDA p : p.len, lost),
                                    newest.time_sent,
                                    newest.time_sent - oldest.time_sent,
                                    ql, MaxAckDelay, now)
      /\ cc_sent' = cc_sent \ lost
      /\ reduced' = IF path'.ssthresh # path.ssthresh \/ path'.nr_cwnd < path.nr_cwnd
                    THEN now ELSE reduced
      /\ UNCHANGED <<cc_next_pn, now>>

CCNext ==
  \/ Tick
  \/ \E len \in Lens : CCSend(len)
  \/ \E pkt \in cc_sent : AckEvent(pkt)
  \/ \E lost \in SUBSET cc_sent \ {{}}, ql \in LossInfos : LossEvent(lost, ql)

CCSpec == CCInit /\ [][CCNext]_ccVars

-----------------------------------------------------------------------------
(***************************************************************************)
(* The callback in use matches the window: slow start never runs above the *)
(* threshold and congestion avoidance never below it, across losses,       *)
(* recovery periods and persistent congestions.                            *)
(***************************************************************************)
PhaseMatchesThreshold ==
  /\ path.state = QUIC_CC_ST_SS => ~above_ssthresh(path.nr_cwnd, path.ssthresh)
  /\ path.state = QUIC_CC_ST_CA => /\ path.ssthresh # QUIC_CC_INFINITE_SSTHESH
                                   /\ path.nr_cwnd >= path.ssthresh

(***************************************************************************)
(* Once a loss was seen, neither the window nor the threshold is ever      *)
(* below the minimum window, and the path uses the algorithm's window.     *)
(***************************************************************************)
FloorAfterLoss ==
  path.ssthresh # QUIC_CC_INFINITE_SSTHESH =>
     /\ path.ssthresh >= MinCwnd
     /\ path.nr_cwnd >= MinCwnd
     /\ path.cwnd = path.nr_cwnd

(***************************************************************************)
(* "Do not increase the congestion window in recovery period." in both     *)
(* callbacks of quic_cc_newreno.c: the ACK of a packet sent no later than  *)
(* the last reduction of the window does not increase it.                  *)
(***************************************************************************)
NoGrowthInRecovery ==
  [][\A p \in cc_sent : (cc_sent' = cc_sent \ {p} /\ p.time_sent <= reduced)
                        => path'.cwnd <= path.cwnd]_ccVars

\* NewReno is in the phase its window and threshold tell, with a window above the minimum once
\* it was reduced (quic_cc_nr_ss_cb(), quic_cc_nr_ca_cb()).
WindowSound == PhaseMatchesThreshold /\ FloorAfterLoss
=============================================================================
