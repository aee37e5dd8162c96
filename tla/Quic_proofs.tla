----------------------------- MODULE Quic_proofs -----------------------------
(***************************************************************************)
(* Proofs about the QUIC transport, for every value of the constants.      *)
(*                                                                         *)
(* What a path measures and decides: the RTT estimator, whose averages     *)
(* stay between the extreme samples, and the congestion controller, for    *)
(* every MTU, initial window, packet length and state of the estimator.    *)
(*                                                                         *)
(* The ring of datagrams: qc_send_ppkts() leaves no packet behind, for any *)
(* number of buffers and any number of packets, as long as the only        *)
(* failures are those of the system call that sends the datagrams.         *)
(*                                                                         *)
(* Packet numbers: they are recovered for every number of packets, for     *)
(* bytes of 256 values as in the code and for the small ones TLC uses.     *)
(***************************************************************************)
EXTENDS QuicRtt, QuicCC, QuicTxRing, QuicPktNum, TLAPS

(***************************************************************************)
(* One step of the moving average stays within [8*lo, 8*hi + 7] when its   *)
(* old value and the new sample do: what quic_loss_srtt_update() computes  *)
(* with "ql->srtt += rtt - (ql->srtt >> 3)".                               *)
(***************************************************************************)
LEMMA SrttAvgBounded ==
  ASSUME NEW lo \in Nat, NEW hi \in Nat, NEW srtt \in Nat, NEW rtt \in Nat,
         lo <= rtt, rtt <= hi, 8 * lo <= srtt, srtt <= 8 * hi + 7,
         8 * hi + 7 < UINT
  PROVE  /\ quic_loss_srtt_avg(srtt, rtt) \in 0 .. UINT - 1
         /\ 8 * lo <= quic_loss_srtt_avg(srtt, rtt)
         /\ quic_loss_srtt_avg(srtt, rtt) <= 8 * hi + 7
<1> DEFINE q == srtt \div 8
           r == srtt % 8
           v == srtt + rtt - q
<1>1. /\ q \in Nat /\ r \in 0 .. 7
      /\ srtt = 8 * q + r
  OBVIOUS
<1>2. lo <= q /\ q <= hi
  BY <1>1
<1>3. v \in Nat /\ 8 * lo <= v /\ v <= 8 * hi + 7
  BY <1>1, <1>2
<1>4. UINT \in Nat /\ 0 <= v /\ v < UINT
  BY <1>3, UintAssumption
<1> HIDE DEF v
<1>5. v % UINT = v
  BY <1>3, <1>4
<1>6. quic_loss_srtt_avg(srtt, rtt) = v
  BY <1>5 DEF quic_loss_srtt_avg, v
<1>7. v \in 0 .. UINT - 1
  BY <1>3, <1>4
<1> QED
  BY <1>3, <1>6, <1>7

(***************************************************************************)
(* Removing the ACK delay never takes a sample below the minimum.          *)
(***************************************************************************)
LEMMA AdjustedBounded ==
  ASSUME NEW rtt \in Nat, NEW min \in Nat, NEW d \in Nat, min <= rtt
  PROVE  /\ adjusted_rtt(rtt, min, d) \in Nat
         /\ min <= adjusted_rtt(rtt, min, d)
         /\ adjusted_rtt(rtt, min, d) <= rtt
BY DEF adjusted_rtt

\* A value taken modulo UINT is an unsigned int.
LEMMA UintRange ==
  ASSUME NEW i \in Int
  PROVE  i % UINT \in 0 .. UINT - 1
BY UintAssumption

\* A sample no larger than <m>, and what is computed from it, fits an unsigned int.
LEMMA SampleFits ==
  ASSUME NEW r \in Nat, NEW m \in Nat, r <= m, 8 * m + 7 < UINT
  PROVE  /\ r \in 0 .. UINT - 1 /\ r * 8 \in 0 .. UINT - 1
         /\ r * 2 \in 0 .. UINT - 1
         /\ 8 * r <= r * 8 /\ r * 8 <= 8 * m + 7
BY UintAssumption

(***************************************************************************)
(* TypeOK and SrttBounded together are inductive once `rtt_max' is known   *)
(* to be a sample (so that 8 * rtt_max + 7 does not reach the modulus) and *)
(* a null `srtt' to mean that no sample was taken.                         *)
(***************************************************************************)
RttInv ==
  /\ RttTypeOK
  /\ SrttBounded
  /\ rtt_max = 0 \/ rtt_max \in RTTs
  /\ rtt_max = 0 => ql.srtt = 0

LEMMA RttInvInit == RttInit => RttInv
BY UintAssumption DEF RttInit, RttInv, RttTypeOK, SrttBounded, quic_loss_init

LEMMA RttInvNext == RttInv /\ [RttNext]_rttVars => RttInv'
<1> SUFFICES ASSUME RttInv, [RttNext]_rttVars PROVE RttInv'
  OBVIOUS
<1>1. CASE UNCHANGED rttVars
  BY <1>1 DEF rttVars, RttInv, RttTypeOK, SrttBounded
<1>2. CASE RttNext
  <2>1. PICK rtt \in RTTs, d \in AckDelays : Sample(rtt, d)
    BY <1>2 DEF RttNext
  <2>2. /\ rtt \in Nat /\ 0 < rtt /\ 8 * rtt + 7 < UINT /\ d \in Nat
        /\ rtt_max \in Nat /\ UINT \in Nat
    BY UintAssumption, RttAssumption, AckDelayAssumption DEF RttInv, RttTypeOK
  <2>3. /\ rtt_max' \in RTTs /\ rtt <= rtt_max' /\ rtt_max <= rtt_max'
        /\ rtt_max' # 0 /\ rtt_max' \in 0 .. UINT - 1
        /\ 8 * rtt_max' + 7 < UINT
    BY <2>1, <2>2, RttAssumption DEF Sample, RttInv, RttTypeOK
  <2>4. CASE ql.srtt = 0
    <3>1. ql' = [latest_rtt |-> rtt, srtt |-> rtt * 8, rtt_var |-> rtt * 2, rtt_min |-> rtt]
      BY <2>1, <2>4 DEF Sample, quic_loss_srtt_update
    <3>2. /\ rtt \in 0 .. UINT - 1 /\ rtt * 8 \in 0 .. UINT - 1
          /\ rtt * 2 \in 0 .. UINT - 1
          /\ 8 * rtt <= rtt * 8 /\ rtt * 8 <= 8 * rtt_max' + 7
      <4>1. rtt_max' \in Nat
        BY <2>3
      <4> QED
        BY ONLY <4>1, <2>2, <2>3, SampleFits
    <3>3. /\ ql'.latest_rtt = rtt /\ ql'.srtt = rtt * 8
          /\ ql'.rtt_var = rtt * 2 /\ ql'.rtt_min = rtt
      BY <3>1
    <3>4. RttTypeOK'
      BY <3>1, <3>2, <2>3 DEF RttTypeOK
    <3>5. SrttBounded'
      BY <3>2, <3>3, <2>2, <2>3 DEF SrttBounded
    <3> QED
      BY <3>4, <3>5, <2>3 DEF RttInv
  <2>5. CASE ql.srtt # 0
    <3> DEFINE min == IF rtt < ql.rtt_min THEN rtt ELSE ql.rtt_min
               adj == adjusted_rtt(rtt, min, d)
               avg == quic_loss_srtt_avg(ql.srtt, adj)
               var == quic_loss_var_avg(ql.rtt_var, ql.srtt, adj)
    <3>1. ql' = [latest_rtt |-> rtt, srtt |-> avg, rtt_var |-> var, rtt_min |-> min]
      BY <2>1, <2>5 DEF Sample, quic_loss_srtt_update
    <3>2. /\ ql.srtt \in Nat /\ ql.rtt_var \in Nat /\ ql.rtt_min \in Nat
          /\ rtt_max # 0 /\ 0 < ql.rtt_min /\ ql.rtt_min <= rtt_max
          /\ 8 * ql.rtt_min <= ql.srtt /\ ql.srtt <= 8 * rtt_max + 7
      BY <2>5 DEF RttInv, RttTypeOK, SrttBounded
    <3>3. min \in Nat /\ 0 < min /\ min <= rtt /\ min <= ql.rtt_min
      BY <2>2, <3>2
    <3> HIDE DEF min
    <3>4. adj \in Nat /\ min <= adj /\ adj <= rtt
      BY <2>2, <3>3, AdjustedBounded
    <3> HIDE DEF adj
    <3>5. /\ rtt_max' \in Nat /\ adj <= rtt_max'
          /\ 8 * min <= ql.srtt /\ ql.srtt <= 8 * rtt_max' + 7
      BY <2>2, <2>3, <3>2, <3>3, <3>4
    <3>6. avg \in 0 .. UINT - 1 /\ 8 * min <= avg /\ avg <= 8 * rtt_max' + 7
      BY <2>3, <3>2, <3>3, <3>4, <3>5, SrttAvgBounded
    <3> HIDE DEF avg
    <3>7. var \in 0 .. UINT - 1
      <4> DEFINE diff == (ql.srtt - adj) % UINT
      <4>1. diff \in Int
        BY <3>2, <3>4, UintRange
      <4>2. ql.rtt_var \div 4 \in Int
        BY <3>2
      <4> HIDE DEF diff
      <4>3. ql.rtt_var + diff - ql.rtt_var \div 4 \in Int
        BY <3>2, <4>1, <4>2
      <4>4. (ql.rtt_var + diff - ql.rtt_var \div 4) % UINT \in 0 .. UINT - 1
        BY <4>3, UintRange
      <4> QED
        BY <4>4 DEF quic_loss_var_avg, diff
    <3> HIDE DEF var
    <3>8. /\ rtt \in 0 .. UINT - 1 /\ avg \in 0 .. UINT - 1
          /\ min \in 0 .. UINT - 1 /\ min <= rtt_max'
      <4>1. rtt \in 0 .. UINT - 1
        BY ONLY <2>2, <2>3, <3>5, SampleFits
      <4>2. min <= rtt_max'
        BY ONLY <2>2, <2>3, <3>3, <3>5
      <4>3. min \in 0 .. UINT - 1
        BY ONLY <4>2, <2>3, <3>3, <3>5, SampleFits
      <4> QED
        BY <4>1, <4>2, <4>3, <3>6
    <3> QED
      BY <3>1, <2>3, <3>3, <3>6, <3>7, <3>8 DEF RttInv, RttTypeOK, SrttBounded
  <2> QED
    BY <2>4, <2>5
<1> QED
  BY <1>1, <1>2

(***************************************************************************)
(* struct quic_loss keeps its types: nothing overflows but by the modulus. *)
(***************************************************************************)
THEOREM RttTypeCorrect == RttSpec => []RttTypeOK
<1>1. RttInv => RttTypeOK
  BY DEF RttInv
<1> QED
  BY <1>1, RttInvInit, RttInvNext, PTL DEF RttSpec

(***************************************************************************)
(* One step of the average of the variation stays below 4*hi + 3 when its  *)
(* old value and the difference it is fed with do: no unsigned difference  *)
(* of quic_loss_srtt_update() wraps as long as the sample is below `srtt'. *)
(***************************************************************************)
LEMMA VarAvgBounded ==
  ASSUME NEW hi \in Nat, NEW var \in Nat, NEW srtt \in Nat, NEW rtt \in Nat,
         rtt <= srtt, srtt < UINT, srtt - rtt <= hi, var <= 4 * hi + 3
  PROVE  quic_loss_var_avg(var, srtt, rtt) <= 4 * hi + 3
<1> DEFINE d == srtt - rtt
           q == var \div 4
           v == var + d - q
<1>1. UINT \in Nat \ {0} /\ d \in Nat /\ d < UINT /\ d <= hi
  BY UintAssumption
<1> HIDE DEF d
<1>2. d % UINT = d
  BY <1>1
<1>3. q \in Nat /\ 4 * q <= var /\ var <= 4 * q + 3
  OBVIOUS
<1> HIDE DEF q
<1>4. v \in Nat /\ v <= 4 * hi + 3
  BY <1>1, <1>3
<1> HIDE DEF v
<1>5. v % UINT <= v
  BY <1>1, <1>4
<1>6. v % UINT \in Int
  BY <1>1, <1>4
<1>7. quic_loss_var_avg(var, srtt, rtt) = v % UINT
  BY <1>2 DEF quic_loss_var_avg, v, d, q
<1> QED
  BY <1>4, <1>5, <1>6, <1>7

\* The bound of the variation is above twice the first sample, and grows as the extremes of
\* the samples move apart.
LEMMA VarBoundGrows ==
  ASSUME NEW m \in Nat, NEW r \in Nat, r <= m
  PROVE  /\ r * 2 <= 4 * (8 * m + 7 - r) + 3
         /\ \A max \in Nat, min \in Nat, v \in Nat :
              max <= m /\ r <= min /\ v <= 4 * (8 * max + 7 - min) + 3
                => v <= 4 * (8 * m + 7 - r) + 3
OBVIOUS

\* What the variation is fed with is no larger than what its bound allows.
LEMMA VarDifference ==
  ASSUME NEW m \in Nat, NEW r \in Nat, r <= m, NEW max \in Nat, max <= m,
         NEW srtt \in Nat, srtt <= 8 * max + 7, NEW adj \in Nat, r <= adj
  PROVE  8 * m + 7 - r \in Nat /\ srtt - adj <= 8 * m + 7 - r
OBVIOUS

\* The variation after a sample, from that of before: the bound on the samples held before
\* as well, since the extremes only move apart.
LEMMA RttVarNext == RttInv /\ RttVarBounded /\ [RttNext]_rttVars => RttVarBounded'
<1> SUFFICES ASSUME RttInv, RttVarBounded, [RttNext]_rttVars, (rtt_max <= 8 * ql.rtt_min)'
             PROVE  ql'.rtt_var <= 4 * (8 * rtt_max' + 7 - ql'.rtt_min) + 3
  BY DEF RttVarBounded
<1>1. CASE UNCHANGED rttVars
  BY <1>1 DEF rttVars, RttVarBounded
<1>2. CASE RttNext
  <2>1. PICK rtt \in RTTs, d \in AckDelays : Sample(rtt, d)
    BY <1>2 DEF RttNext
  <2>2. /\ rtt \in Nat /\ 0 < rtt /\ d \in Nat
        /\ rtt_max \in Nat /\ rtt_max' \in Nat /\ rtt <= rtt_max' /\ rtt_max <= rtt_max'
    BY <2>1, RttAssumption, AckDelayAssumption DEF RttInv, RttTypeOK, Sample
  <2>3. CASE ql.srtt = 0
    <3>1. ql'.rtt_var = rtt * 2 /\ ql'.rtt_min = rtt
      BY <2>1, <2>3 DEF Sample, quic_loss_srtt_update
    <3>2. rtt * 2 <= 4 * (8 * rtt_max' + 7 - rtt) + 3
      BY ONLY <2>2, VarBoundGrows
    <3> QED
      BY <3>1, <3>2
  <2>4. CASE ql.srtt # 0
    <3> DEFINE min == IF rtt < ql.rtt_min THEN rtt ELSE ql.rtt_min
               adj == adjusted_rtt(rtt, min, d)
               hi  == 8 * rtt_max' + 7 - min
    <3>1. ql'.rtt_var = quic_loss_var_avg(ql.rtt_var, ql.srtt, adj) /\ ql'.rtt_min = min
      BY <2>1, <2>4 DEF Sample, quic_loss_srtt_update
    <3>2. /\ ql.srtt \in Nat /\ ql.srtt < UINT /\ ql.rtt_var \in Nat /\ ql.rtt_min \in Nat
          /\ ql.rtt_min <= rtt_max
          /\ 8 * ql.rtt_min <= ql.srtt /\ ql.srtt <= 8 * rtt_max + 7
      BY <2>4, UintAssumption DEF RttInv, RttTypeOK, SrttBounded
    <3>3. min \in Nat /\ min <= rtt /\ min <= ql.rtt_min
      BY <2>2, <3>2
    <3>4. rtt_max' <= 8 * min
      BY <3>1
    <3> HIDE DEF min
    <3>5. adj \in Nat /\ min <= adj /\ adj <= rtt
      BY <2>2, <3>3, AdjustedBounded
    <3> HIDE DEF adj
    <3>6. rtt_max <= 8 * ql.rtt_min /\ adj <= ql.srtt
      BY <2>2, <3>2, <3>3, <3>4, <3>5
    <3>7. hi \in Nat /\ ql.srtt - adj <= hi
      <4>1. min <= rtt_max'
        BY ONLY <2>2, <3>3
      <4> QED
        BY ONLY <4>1, <2>2, <3>2, <3>3, <3>5, VarDifference
    <3>8. ql.rtt_var <= 4 * hi + 3
      <4>1. ql.rtt_var <= 4 * (8 * rtt_max + 7 - ql.rtt_min) + 3
        BY <3>6 DEF RttVarBounded
      <4> QED
        BY ONLY <4>1, <2>2, <3>2, <3>3, VarBoundGrows
    <3>9. quic_loss_var_avg(ql.rtt_var, ql.srtt, adj) <= 4 * hi + 3
      <4> HIDE DEF hi
      <4> QED
        BY <3>2, <3>5, <3>6, <3>7, <3>8, VarAvgBounded
    <3> QED
      BY <3>1, <3>9
  <2> QED
    BY <2>3, <2>4
<1> QED
  BY <1>1, <1>2

(***************************************************************************)
(* Both averages of quic_loss_srtt_update() stay within the bounds of what *)
(* they are averages of: the smoothed RTT always, its variation as long as *)
(* no sample exceeds eight times the smallest one (beyond, it wraps).      *)
(***************************************************************************)
THEOREM RttStaysBounded == RttSpec => []RttBounded
<1>1. RttInit => RttInv /\ RttVarBounded
  BY RttInvInit DEF RttInit, RttVarBounded, quic_loss_init
<1>2. RttInv /\ RttVarBounded /\ [RttNext]_rttVars => (RttInv /\ RttVarBounded)'
  BY RttInvNext, RttVarNext
<1>3. RttInv /\ RttVarBounded => RttBounded
  BY DEF RttInv, RttBounded
<1> QED
  BY <1>1, <1>2, <1>3, PTL DEF RttSpec

------------------------------------------------------------------------------
\* The members of the path and those whose type matters here.
Shape(p) ==
  /\ p = [state |-> p.state, nr_cwnd |-> p.nr_cwnd, ssthresh |-> p.ssthresh,
          recovery_start_time |-> p.recovery_start_time, cwnd |-> p.cwnd,
          in_flight |-> p.in_flight]
  /\ p.state \in {QUIC_CC_ST_SS, QUIC_CC_ST_CA}
  /\ p.nr_cwnd \in Nat
  /\ p.ssthresh \in Nat \cup {QUIC_CC_INFINITE_SSTHESH}

\* PhaseMatchesThreshold and FloorAfterLoss of a path.
Sound(p) ==
  /\ p.state = QUIC_CC_ST_SS => ~above_ssthresh(p.nr_cwnd, p.ssthresh)
  /\ p.state = QUIC_CC_ST_CA => /\ p.ssthresh # QUIC_CC_INFINITE_SSTHESH
                                /\ p.nr_cwnd >= p.ssthresh
  /\ p.ssthresh # QUIC_CC_INFINITE_SSTHESH =>
        p.ssthresh >= MinCwnd /\ p.nr_cwnd >= MinCwnd /\ p.cwnd = p.nr_cwnd

\* The inductive invariant.  The two properties need each other: slow start is
\* entered again with the minimum window, which the threshold is never below.
CCInv ==
  /\ Shape(path) /\ Sound(path)
  /\ cc_sent \subseteq CCPacket /\ cc_next_pn \in Nat /\ now \in Nat

\* The maximum and the half used by the algorithm.
LEMMA Halved ==
  ASSUME NEW w \in Nat
  PROVE  /\ MaxOf(w \div 2, MinCwnd) \in Nat
         /\ MaxOf(w \div 2, MinCwnd) >= MinCwnd
         /\ MinCwnd \in Nat /\ MinCwnd > 0
<1>1. w \div 2 \in Nat
  OBVIOUS
<1> QED
  BY <1>1, MtuAssumption DEF MaxOf, MinCwnd

LEMMA Growth ==
  ASSUME NEW w \in Nat, NEW a \in Nat, w > 0
  PROVE  /\ w + Mtu * MaxOf(1, a \div w) \in Nat
         /\ w + Mtu * MaxOf(1, a \div w) >= w
<1>1. a \div w \in Nat
  OBVIOUS
<1>2. MaxOf(1, a \div w) \in Nat
  BY <1>1 DEF MaxOf
<1>3. Mtu * MaxOf(1, a \div w) \in Nat
  BY <1>2, MtuAssumption
<1> QED
  BY <1>3

\* Each callback keeps the invariant.
LEMMA SlowStartAck ==
  ASSUME NEW p, Shape(p), Sound(p), NEW acked \in Nat, NEW time_sent,
         p.state = QUIC_CC_ST_SS
  PROVE  Shape(ss_ack(p, acked, time_sent)) /\ Sound(ss_ack(p, acked, time_sent))
<1> DEFINE q == ss_ack(p, acked, time_sent)
<1>1. CASE time_sent <= p.recovery_start_time
  <2>1. q = [p EXCEPT !.in_flight = @ - acked]
    BY <1>1 DEF ss_ack
  <2> QED
    BY <2>1 DEF Shape, Sound
<1>2. CASE ~(time_sent <= p.recovery_start_time)
  <2> DEFINE w == p.nr_cwnd + acked
             st == IF above_ssthresh(w, p.ssthresh) THEN QUIC_CC_ST_CA ELSE QUIC_CC_ST_SS
  <2>1. q = [[p EXCEPT !.in_flight = @ - acked]
                EXCEPT !.nr_cwnd = w, !.cwnd = w, !.state = st]
    BY <1>2 DEF ss_ack
  <2>2. w \in Nat /\ w >= p.nr_cwnd
    BY DEF Shape
  <2> HIDE DEF w
  <2>3. Shape(q)
    BY <2>1, <2>2 DEF Shape
  <2>4. q.nr_cwnd = w /\ q.cwnd = w /\ q.ssthresh = p.ssthresh /\ q.state = st
    BY <2>1 DEF Shape
  <2>5. MinCwnd \in Nat
    BY Halved DEF Shape
  <2> HIDE DEF q
  <2>6. Sound(q)
    BY <2>2, <2>4, <2>5 DEF Shape, Sound, above_ssthresh, QUIC_CC_ST_SS, QUIC_CC_ST_CA,
       QUIC_CC_INFINITE_SSTHESH
  <2> QED
    BY <2>3, <2>6 DEF q
<1> QED
  BY <1>1, <1>2

LEMMA SlowStartLoss ==
  ASSUME NEW p, Shape(p), NEW lost_bytes
  PROVE  Shape(ss_loss(p, lost_bytes)) /\ Sound(ss_loss(p, lost_bytes))
<1> DEFINE w == MaxOf(p.nr_cwnd \div 2, MinCwnd)
           q == ss_loss(p, lost_bytes)
<1>1. w \in Nat /\ w >= MinCwnd /\ MinCwnd \in Nat
  BY Halved DEF Shape
<1>2. q = [p EXCEPT !.in_flight = @ - lost_bytes, !.nr_cwnd = w, !.cwnd = w,
                    !.ssthresh = w, !.state = QUIC_CC_ST_CA]
  BY DEF ss_loss
<1> HIDE DEF w, q
<1>3. Shape(q)
  BY <1>1, <1>2 DEF Shape
<1>4. q.nr_cwnd = w /\ q.cwnd = w /\ q.ssthresh = w /\ q.state = QUIC_CC_ST_CA
  BY <1>2 DEF Shape
<1>5. Sound(q)
  BY <1>1, <1>4 DEF Sound, above_ssthresh, QUIC_CC_ST_SS, QUIC_CC_ST_CA,
     QUIC_CC_INFINITE_SSTHESH
<1> QED
  BY <1>3, <1>5 DEF q

LEMMA AvoidanceAck ==
  ASSUME NEW p, Shape(p), Sound(p), NEW acked \in Nat, NEW time_sent,
         p.state = QUIC_CC_ST_CA
  PROVE  Shape(ca_ack(p, acked, time_sent)) /\ Sound(ca_ack(p, acked, time_sent))
<1> DEFINE q == ca_ack(p, acked, time_sent)
<1>1. CASE time_sent <= p.recovery_start_time
  <2>1. q = [p EXCEPT !.in_flight = @ - acked]
    BY <1>1 DEF ca_ack
  <2> QED
    BY <2>1 DEF Shape, Sound
<1>2. CASE ~(time_sent <= p.recovery_start_time)
  <2> DEFINE w == p.nr_cwnd + Mtu * MaxOf(1, acked \div p.nr_cwnd)
  <2>1. q = [[p EXCEPT !.in_flight = @ - acked] EXCEPT !.nr_cwnd = w, !.cwnd = w]
    BY <1>2 DEF ca_ack
  <2>2. MinCwnd \in Nat /\ MinCwnd > 0
    BY Halved DEF Shape
  <2>3. p.nr_cwnd \in Nat /\ p.nr_cwnd > 0
    BY <2>2 DEF Shape, Sound
  <2>4. w \in Nat /\ w >= p.nr_cwnd
    BY <2>3, Growth
  <2> HIDE DEF w
  <2>5. Shape(q)
    BY <2>1, <2>4 DEF Shape
  <2>6. q.nr_cwnd = w /\ q.cwnd = w /\ q.ssthresh = p.ssthresh /\ q.state = p.state
    BY <2>1 DEF Shape
  <2> HIDE DEF q
  <2>7. Sound(q)
    BY <2>2, <2>4, <2>6 DEF Shape, Sound, above_ssthresh, QUIC_CC_ST_SS, QUIC_CC_ST_CA,
       QUIC_CC_INFINITE_SSTHESH
  <2> QED
    BY <2>5, <2>7 DEF q
<1> QED
  BY <1>1, <1>2

LEMMA AvoidanceLoss ==
  ASSUME NEW p, Shape(p), Sound(p), NEW lost_bytes, NEW newest, NEW persistent \in BOOLEAN,
         NEW date, p.state = QUIC_CC_ST_CA
  PROVE  /\ Shape(ca_loss(p, lost_bytes, newest, persistent, date))
         /\ Sound(ca_loss(p, lost_bytes, newest, persistent, date))
<1> DEFINE halved == MaxOf(p.nr_cwnd \div 2, MinCwnd)
           entering == newest > p.recovery_start_time
           w == CASE persistent -> MinCwnd
                  [] ~persistent /\ entering -> halved
                  [] OTHER -> p.nr_cwnd
           th == IF entering THEN halved ELSE p.ssthresh
           st == IF persistent THEN QUIC_CC_ST_SS ELSE p.state
           rst == IF entering THEN date ELSE p.recovery_start_time
           q == ca_loss(p, lost_bytes, newest, persistent, date)
<1>1. halved \in Nat /\ halved >= MinCwnd /\ MinCwnd \in Nat
  BY Halved DEF Shape
<1>2. q = [p EXCEPT !.in_flight = @ - lost_bytes, !.recovery_start_time = rst,
                    !.ssthresh = th, !.state = st, !.nr_cwnd = w, !.cwnd = w]
  BY DEF ca_loss
<1> HIDE DEF halved, entering
<1>3. /\ w \in Nat /\ w >= MinCwnd
      /\ th \in Nat /\ th >= MinCwnd
      /\ persistent => w = MinCwnd /\ st = QUIC_CC_ST_SS
      /\ ~persistent => w >= th /\ st = QUIC_CC_ST_CA
  <2>1. CASE persistent
    BY <1>1, <2>1 DEF Shape, Sound
  <2>2. CASE ~persistent /\ entering
    BY <1>1, <2>2 DEF Shape, Sound
  <2>3. CASE ~persistent /\ ~entering
    BY <1>1, <2>3 DEF Shape, Sound
  <2> QED
    BY <2>1, <2>2, <2>3
<1> HIDE DEF w, th, st, rst, q
<1>4. st \in {QUIC_CC_ST_SS, QUIC_CC_ST_CA}
  BY <1>3
<1>5. Shape(q)
  BY <1>2, <1>3, <1>4 DEF Shape
<1>6. q.nr_cwnd = w /\ q.cwnd = w /\ q.ssthresh = th /\ q.state = st
  BY <1>2 DEF Shape
<1>7. Sound(q)
  BY <1>1, <1>3, <1>6 DEF Sound, above_ssthresh, QUIC_CC_ST_SS, QUIC_CC_ST_CA,
     QUIC_CC_INFINITE_SSTHESH
<1> QED
  BY <1>5, <1>7 DEF q

LEMMA CCInitInv == CCInit => CCInv
<1> SUFFICES ASSUME CCInit PROVE CCInv
  OBVIOUS
<1>1. Shape(path)
  BY DEF CCInit, quic_path_init, Shape
<1>2. Sound(path)
  BY DEF CCInit, quic_path_init, Sound, above_ssthresh, QUIC_CC_ST_SS, QUIC_CC_ST_CA
<1> QED
  BY <1>1, <1>2 DEF CCInv, CCInit

LEMMA CCStep == CCInv /\ [CCNext]_ccVars => CCInv'
<1> SUFFICES ASSUME CCInv, [CCNext]_ccVars PROVE CCInv'
  OBVIOUS
<1> USE DEF CCInv
<1>1. CASE Tick
  BY <1>1 DEF Tick, Shape, Sound
<1>2. ASSUME NEW len \in Lens, CCSend(len) PROVE CCInv'
  <2>1. path' = [path EXCEPT !.in_flight = @ + len]
    BY <1>2 DEF CCSend
  <2>2. Shape(path') /\ Sound(path')
    BY <2>1 DEF Shape, Sound
  <2>3. [pn |-> cc_next_pn, len |-> len, time_sent |-> now] \in CCPacket
    BY DEF CCPacket
  <2>4. cc_sent' \subseteq CCPacket /\ cc_next_pn' \in Nat /\ now' \in Nat
    BY <1>2, <2>3 DEF CCSend
  <2> QED
    BY <2>2, <2>4
<1>3. ASSUME NEW pkt \in cc_sent, AckEvent(pkt) PROVE CCInv'
  <2>1. pkt.len \in Nat
    BY LensAssumption DEF CCPacket
  <2>2. path' = IF path.state = QUIC_CC_ST_SS THEN ss_ack(path, pkt.len, pkt.time_sent)
                                              ELSE ca_ack(path, pkt.len, pkt.time_sent)
    BY <1>3 DEF AckEvent, quic_cc_ack_event
  <2>3. path.state = QUIC_CC_ST_SS \/ path.state = QUIC_CC_ST_CA
    BY DEF Shape
  <2>4. Shape(path') /\ Sound(path')
    BY <2>1, <2>2, <2>3, SlowStartAck, AvoidanceAck
  <2>5. cc_sent' \subseteq CCPacket /\ cc_next_pn' \in Nat /\ now' \in Nat
    BY <1>3 DEF AckEvent
  <2> QED
    BY <2>4, <2>5
<1>4. ASSUME NEW lost \in SUBSET cc_sent \ {{}}, NEW info \in LossInfos, LossEvent(lost, info)
      PROVE  CCInv'
  <2> DEFINE oldest == CHOOSE p \in lost : \A q \in lost : p.pn <= q.pn
             newest == CHOOSE p \in lost : \A q \in lost : q.pn <= p.pn
             bytes == MapThenSumSet(LAMBDA p : p.len, lost)
             persistent == quic_loss_persistent_congestion(
                             info, newest.time_sent - oldest.time_sent, MaxAckDelay)
  <2>1. path' = IF path.state = QUIC_CC_ST_SS
                THEN ss_loss(path, bytes)
                ELSE ca_loss(path, bytes, newest.time_sent, persistent, now)
    BY <1>4 DEF LossEvent, quic_cc_loss_event
  <2>2. persistent \in BOOLEAN
    BY DEF quic_loss_persistent_congestion
  <2>3. path.state = QUIC_CC_ST_SS \/ path.state = QUIC_CC_ST_CA
    BY DEF Shape
  <2>4. cc_sent' \subseteq CCPacket /\ cc_next_pn' \in Nat /\ now' \in Nat
    BY <1>4 DEF LossEvent
  <2> HIDE DEF oldest, newest, bytes, persistent
  <2>5. Shape(path') /\ Sound(path')
    BY <2>1, <2>2, <2>3, SlowStartLoss, AvoidanceLoss
  <2> QED
    BY <2>4, <2>5
<1>5. CASE UNCHANGED ccVars
  BY <1>5 DEF ccVars
<1> QED
  BY <1>1, <1>2, <1>3, <1>4, <1>5 DEF CCNext

\* NewReno is sound for every sequence of acknowledgements and losses: in the phase of its
\* window and threshold, and above min_cwnd once it was reduced.
THEOREM WindowStaysSound == CCSpec => []WindowSound
<1>1. CCInv => WindowSound
  BY DEF CCInv, Sound, WindowSound, PhaseMatchesThreshold, FloorAfterLoss
<1> QED
  BY CCInitInv, CCStep, <1>1, PTL DEF CCSpec

------------------------------------------------------------------------------

\* The shape of the ring as long as no build fails; with TypeOK, the inductive
\* invariant is TypeOK /\ RingContiguous.
RingInv == RingTypeOK /\ Contiguous

N == QUIC_CONN_TX_BUFS_NB

\* Appending a packet to a buffer leaves it non empty.
LEMMA AppendNotEmpty ==
  ASSUME NEW s \in Seq(Nat), NEW e \in Nat
  PROVE  Append(s, e) \in Seq(Nat) /\ Append(s, e) # <<>>
<1>1. Append(s, e) \in Seq(Nat) /\ Len(Append(s, e)) = Len(s) + 1 /\ Len(s) \in Nat
  OBVIOUS
<1>2. Len(<<>>) = 0
  OBVIOUS
<1> QED
  BY <1>1, <1>2

\* next_buf() is a permutation of the indexes, which moves one step forward.
LEMMA NextBuf ==
  ASSUME NEW i \in Bufs
  PROVE  /\ next_buf(i) \in Bufs
         /\ next_buf(i) = IF i = N - 1 THEN 0 ELSE i + 1
BY TxBufsAssumption DEF next_buf, Bufs, N

\* The distance from <r> to <i> in a ring of <n> buffers; dist() is the one from
\* the reader.
D(r, i, n) == IF i >= r THEN i - r ELSE i - r + n

\* Filling the buffer of the writer and moving the writer adds this buffer to
\* those that are ready.
LEMMA AdvanceWriter ==
  ASSUME NEW n \in Nat, NEW r \in 0 .. n - 1, NEW w \in 0 .. n - 1,
         NEW k \in 0 .. n - 1, D(r, w, n) = k,
         NEW v, v = IF w = n - 1 THEN 0 ELSE w + 1
  PROVE  /\ D(r, v, n) = k + 1 \/ (k + 1 = n /\ v = r)
         /\ \A i \in 0 .. n - 1 : D(r, i, n) < k + 1 <=> D(r, i, n) < k \/ i = w
BY DEF D

\* Emptying the buffer of the reader and moving the reader removes this buffer
\* from those that are ready.
LEMMA AdvanceReader ==
  ASSUME NEW n \in Nat, NEW r \in 0 .. n - 1, NEW w \in 0 .. n - 1,
         NEW k \in 1 .. n, D(r, w, n) = k \/ (k = n /\ w = r),
         NEW s, s = IF r = n - 1 THEN 0 ELSE r + 1
  PROVE  /\ D(s, w, n) = k - 1
         /\ \A i \in 0 .. n - 1 : D(s, i, n) < k - 1 <=> D(r, i, n) < k /\ i # r
BY DEF D

\* The initial ring is empty.
LEMMA RingInitInv == RingInit => RingTypeOK /\ RingContiguous
<1> SUFFICES ASSUME RingInit PROVE RingTypeOK /\ RingContiguous
  OBVIOUS
<1> USE TxBufsAssumption DEF RingInit, tx_bufs_init, Bufs
<1>1. RingTypeOK
  <2>1. 0 \in Bufs /\ <<>> \in Seq(Nat)
    OBVIOUS
  <2>2. tx \in [bufs : [Bufs -> Seq(Nat)], rbuf : Bufs, wbuf : Bufs, nb_pto_dgrams : Nat]
    BY <2>1
  <2>3. /\ pc \in {"idle", "prep", "send"} /\ built \in Nat /\ ring_sent \in Nat /\ ready \in Int
    OBVIOUS
  <2>4. reuse_wbuf \in BOOLEAN
    OBVIOUS
  <2>5. failed \subseteq {"nopkt", "nofrm", "send"}
    OBVIOUS
  <2> QED
    BY ONLY <2>2, <2>3, <2>4, <2>5 DEF RingTypeOK
<1>2. Contiguous
  BY DEF Contiguous, dist
<1> QED
  BY <1>1, <1>2 DEF RingContiguous

\* The loops that build packets only use a buffer that is not ready.
LEMMA WriterHasRoom ==
  ASSUME RingInv, building
  PROVE  ready \in 0 .. N - 1 /\ D(tx.rbuf, tx.wbuf, N) = ready
<1>1. /\ tx.rbuf \in 0 .. N - 1 /\ tx.wbuf \in 0 .. N - 1
      /\ N \in Nat /\ ready \in 0 .. N
  BY TxBufsAssumption DEF RingInv, RingTypeOK, Contiguous, Bufs, N
<1>2. ready # N
  <2>1. CASE reuse_wbuf
    BY <1>1, <2>1 DEF RingInv, Contiguous, N
  <2>2. CASE ~reuse_wbuf
    <3>1. tx.bufs[tx.wbuf] = <<>>
      BY <2>2 DEF building, q_buf_empty, q_wbuf
    <3>2. ~(dist(tx.wbuf) < ready)
      BY <3>1, <1>1 DEF RingInv, Contiguous, Bufs, N
    <3> QED
      BY <3>2, <1>1 DEF dist, N
  <2> QED
    BY <2>1, <2>2
<1> QED
  BY <1>1, <1>2 DEF RingInv, Contiguous, dist, D, N

\* Consuming the buffer of the writer, which is not empty then.
LEMMA ConsumeBuffer ==
  ASSUME RingInv, building,
         tx'.rbuf = tx.rbuf, tx'.wbuf = next_buf(tx.wbuf),
         \A i \in Bufs : tx'.bufs[i] # <<>> <=> tx.bufs[i] # <<>> \/ i = tx.wbuf,
         ready' = ready + 1, reuse_wbuf' = FALSE
  PROVE  Contiguous'
<1>1. /\ tx.rbuf \in 0 .. N - 1 /\ tx.wbuf \in 0 .. N - 1
      /\ N \in Nat /\ Bufs = 0 .. N - 1
  BY TxBufsAssumption DEF RingInv, RingTypeOK, Bufs, N
<1>2. ready \in 0 .. N - 1 /\ D(tx.rbuf, tx.wbuf, N) = ready
  BY WriterHasRoom
<1>3. tx'.wbuf = IF tx.wbuf = N - 1 THEN 0 ELSE tx.wbuf + 1
  BY NextBuf, <1>1
<1>4. /\ D(tx.rbuf, tx'.wbuf, N) = ready + 1 \/ (ready + 1 = N /\ tx'.wbuf = tx.rbuf)
      /\ \A i \in Bufs : D(tx.rbuf, i, N) < ready + 1 <=>
                         D(tx.rbuf, i, N) < ready \/ i = tx.wbuf
  <2> DEFINE r == tx.rbuf
             w == tx.wbuf
             v == tx'.wbuf
  <2>1. /\ N \in Nat /\ r \in 0 .. N - 1 /\ w \in 0 .. N - 1 /\ ready \in 0 .. N - 1
        /\ D(r, w, N) = ready /\ v = IF w = N - 1 THEN 0 ELSE w + 1
    BY <1>1, <1>2, <1>3
  <2> HIDE DEF r, w, v
  <2>2. /\ D(r, v, N) = ready + 1 \/ (ready + 1 = N /\ v = r)
        /\ \A i \in 0 .. N - 1 : D(r, i, N) < ready + 1 <=> D(r, i, N) < ready \/ i = w
    BY ONLY <2>1, AdvanceWriter
  <2> QED
    BY <1>1, <2>2 DEF r, w, v
<1>5. \A i \in Bufs : tx.bufs[i] # <<>> \/ i = tx.wbuf <=>
                      D(tx.rbuf, i, N) < ready \/ i = tx.wbuf
  BY DEF RingInv, Contiguous, dist, D, N
<1>6. \A i \in Bufs : tx'.bufs[i] # <<>> <=> D(tx.rbuf, i, N) < ready'
  BY <1>4, <1>5
<1> QED
  BY <1>1, <1>2, <1>4, <1>6 DEF Contiguous, dist, D, N

TxType == [bufs : [Bufs -> Seq(Nat)], rbuf : Bufs, wbuf : Bufs, nb_pto_dgrams : Nat]

\* What the operations on the ring change, and that they keep its type.
LEMMA NextWbuf ==
  ASSUME NEW t \in TxType
  PROVE  /\ q_next_wbuf(t) \in TxType
         /\ q_next_wbuf(t).bufs = t.bufs
         /\ q_next_wbuf(t).rbuf = t.rbuf
         /\ q_next_wbuf(t).wbuf = next_buf(t.wbuf)
<1>1. next_buf(t.wbuf) \in Bufs
  BY NextBuf DEF TxType
<1> DEFINE nb == IF t.nb_pto_dgrams > 0 THEN t.nb_pto_dgrams - 1 ELSE 0
<1>2. nb \in Nat
  BY DEF TxType
<1>3. q_next_wbuf(t) = [t EXCEPT !.wbuf = next_buf(t.wbuf), !.nb_pto_dgrams = nb]
  BY DEF q_next_wbuf
<1> HIDE DEF nb
<1> QED
  BY <1>1, <1>2, <1>3 DEF TxType

LEMMA BufAdd ==
  ASSUME NEW t \in TxType, NEW e \in Nat
  PROVE  /\ q_buf_add(t, e) \in TxType
         /\ \A i \in Bufs : q_buf_add(t, e).bufs[i] # <<>> <=>
                            t.bufs[i] # <<>> \/ i = t.wbuf
         /\ q_buf_add(t, e).rbuf = t.rbuf
         /\ q_buf_add(t, e).wbuf = t.wbuf
<1> DEFINE a == Append(t.bufs[t.wbuf], e)
<1>1. t.bufs[t.wbuf] \in Seq(Nat)
  BY DEF TxType
<1>2. a \in Seq(Nat) /\ a # <<>>
  BY ONLY <1>1, e \in Nat, AppendNotEmpty
<1>3. q_buf_add(t, e) = [t EXCEPT !.bufs = [t.bufs EXCEPT ![t.wbuf] = a]]
  BY DEF q_buf_add
<1> HIDE DEF a
<1> QED
  BY <1>2, <1>3 DEF TxType

LEMMA BufSent ==
  ASSUME NEW t \in TxType
  PROVE  /\ q_buf_sent(t) \in TxType
         /\ q_buf_sent(t).bufs = [t.bufs EXCEPT ![t.rbuf] = <<>>]
         /\ q_buf_sent(t).rbuf = next_buf(t.rbuf)
         /\ q_buf_sent(t).wbuf = t.wbuf
         /\ Len(q_rbuf(t)) \in Nat
<1>1. next_buf(t.rbuf) \in Bufs
  BY NextBuf DEF TxType
<1>2. t.bufs[t.rbuf] \in Seq(Nat) /\ <<>> \in Seq(Nat)
  BY DEF TxType
<1>3. Len(q_rbuf(t)) \in Nat
  BY <1>2 DEF q_rbuf
<1> QED
  BY <1>1, <1>2, <1>3 DEF TxType, q_buf_sent, q_next_rbuf

\* Every step keeps the type of the state, whatever fails.
LEMMA TypeStep ==
  ASSUME RingTypeOK, [RingNext]_ringVars
  PROVE  RingTypeOK'
<1>t. /\ tx \in TxType /\ built + 1 \in Nat
      /\ ready + 1 \in Int /\ ready - 1 \in Int
  BY DEF RingTypeOK, TxType
<1>n. \A f \in {"nopkt", "nofrm", "send"} :
         failed \cup {f} \subseteq {"nopkt", "nofrm", "send"}
  BY DEF RingTypeOK
<1>1. CASE StartPrep
  BY <1>1 DEF StartPrep, RingTypeOK
<1>2. CASE Build
  <2>1. tx' \in TxType
    BY <1>2, <1>t, BufAdd, NextWbuf DEF Build
  <2> QED
    BY <1>2, <1>t, <2>1 DEF Build, RingTypeOK, TxType
<1>3. CASE BuildAndKeep
  <2>1. tx' \in TxType
    BY <1>3, <1>t, BufAdd DEF BuildAndKeep
  <2> QED
    BY <1>3, <1>t, <2>1 DEF BuildAndKeep, RingTypeOK, TxType
<1>4. CASE BuildNoRoom
  <2>1. tx' \in TxType
    BY <1>4, <1>t, NextWbuf DEF BuildNoRoom
  <2> QED
    BY <1>4, <1>t, <2>1 DEF BuildNoRoom, RingTypeOK, TxType
<1>5. CASE BuildNoFrame
  <2>1. tx' \in TxType
    BY <1>5, <1>t, NextWbuf DEF BuildNoFrame
  <2> QED
    BY <1>5, <1>n, <2>1 DEF BuildNoFrame, RingTypeOK, TxType
<1>6. CASE BuildNoPacket
  BY <1>6, <1>n DEF BuildNoPacket, RingTypeOK
<1>7. CASE EndPrep
  <2>1. tx' \in TxType
    BY <1>7, <1>t, NextWbuf DEF EndPrep
  <2> QED
    BY <1>7, <1>t, <2>1 DEF EndPrep, RingTypeOK, TxType
<1>8. CASE Send
  <2>1. tx' \in TxType /\ Len(q_rbuf(tx)) \in Nat
    BY <1>8, <1>t, BufSent DEF Send
  <2>2. ring_sent + Len(q_rbuf(tx)) \in Nat
    BY <2>1 DEF RingTypeOK
  <2> QED
    BY <1>8, <1>t, <2>1, <2>2 DEF Send, RingTypeOK, TxType
<1>9. CASE EndSend
  BY <1>9, <1>n DEF EndSend, RingTypeOK
<1>10. CASE UNCHANGED ringVars
  BY <1>10 DEF ringVars, RingTypeOK
<1> QED
  BY <1>1, <1>2, <1>3, <1>4, <1>5, <1>6, <1>7, <1>8, <1>9, <1>10 DEF RingNext

\* Every step but the failures of a build keeps the ring contiguous.
LEMMA RingStep ==
  ASSUME RingTypeOK, RingContiguous, [RingNext]_ringVars
  PROVE  RingTypeOK' /\ RingContiguous'
<1>0. RingTypeOK'
  BY TypeStep
<1> SUFFICES ASSUME builds_ok' PROVE Contiguous'
  BY <1>0 DEF RingContiguous
<1>b. failed \subseteq failed'
  BY DEF RingNext, StartPrep, Build, BuildAndKeep, BuildNoRoom, BuildNoFrame, BuildNoPacket,
         EndPrep, Send, EndSend, ringVars
<1>c. RingInv
  BY <1>b DEF builds_ok, RingContiguous, RingInv
<1> USE DEF RingInv
<1>t. /\ tx.rbuf \in Bufs /\ tx.wbuf \in Bufs
      /\ N \in Nat /\ N > 0
      /\ tx \in TxType /\ built + 1 \in Nat
  BY TxBufsAssumption DEF RingTypeOK, N, TxType
<1>1. CASE StartPrep
  BY <1>1, <1>c DEF StartPrep, RingTypeOK, Contiguous, dist
<1>2. CASE Build
  <2> DEFINE t == q_buf_add(tx, built + 1)
  <2>1. /\ t \in TxType
        /\ \A i \in Bufs : t.bufs[i] # <<>> <=> tx.bufs[i] # <<>> \/ i = tx.wbuf
        /\ t.rbuf = tx.rbuf /\ t.wbuf = tx.wbuf
    BY <1>t, BufAdd
  <2>2. tx' = q_next_wbuf(t)
    BY <1>2 DEF Build
  <2> HIDE DEF t
  <2>3. /\ tx' \in TxType /\ tx'.bufs = t.bufs
        /\ tx'.rbuf = tx.rbuf /\ tx'.wbuf = next_buf(tx.wbuf)
    BY <2>1, <2>2, NextWbuf
  <2> QED
    BY <1>c, <1>2, <2>1, <2>3, ConsumeBuffer DEF Build
<1>3. CASE BuildAndKeep
  <2>1. /\ tx' \in TxType
        /\ \A i \in Bufs : tx'.bufs[i] # <<>> <=> tx.bufs[i] # <<>> \/ i = tx.wbuf
        /\ tx'.rbuf = tx.rbuf /\ tx'.wbuf = tx.wbuf
    BY <1>3, <1>t, BufAdd DEF BuildAndKeep
  <2>2. ready \in 0 .. N - 1
    BY <1>c, <1>3, WriterHasRoom DEF BuildAndKeep
  <2> QED
    BY <1>c, <1>3, <1>t, <2>1, <2>2 DEF BuildAndKeep, building, Contiguous, dist, N
<1>4. CASE BuildNoRoom
  <2>1. /\ tx' \in TxType /\ tx'.bufs = tx.bufs
        /\ tx'.rbuf = tx.rbuf /\ tx'.wbuf = next_buf(tx.wbuf)
    BY <1>4, <1>t, NextWbuf DEF BuildNoRoom
  <2>2. \A i \in Bufs : tx'.bufs[i] # <<>> <=> tx.bufs[i] # <<>> \/ i = tx.wbuf
    BY <1>c, <1>4, <1>t, <2>1 DEF BuildNoRoom, Contiguous
  <2> QED
    BY <1>c, <1>4, <2>1, <2>2, ConsumeBuffer DEF BuildNoRoom
<1>5. CASE BuildNoFrame
  BY <1>5 DEF BuildNoFrame, builds_ok
<1>6. CASE BuildNoPacket
  BY <1>6 DEF BuildNoPacket, builds_ok
<1>7. CASE EndPrep
  <2>1. CASE ~reuse_wbuf
    BY <1>c, <1>7, <2>1 DEF EndPrep, RingTypeOK, Contiguous, dist
  <2>2. CASE reuse_wbuf
    <3>1. /\ tx' \in TxType /\ tx'.bufs = tx.bufs
          /\ tx'.rbuf = tx.rbuf /\ tx'.wbuf = next_buf(tx.wbuf)
      BY <1>7, <2>2, <1>t, NextWbuf DEF EndPrep
    <3>2. \A i \in Bufs : tx'.bufs[i] # <<>> <=> tx.bufs[i] # <<>> \/ i = tx.wbuf
      BY <1>c, <2>2, <1>t, <3>1 DEF Contiguous
    <3> QED
      BY <1>c, <1>7, <2>2, <3>1, <3>2, ConsumeBuffer DEF EndPrep, building, Contiguous
  <2> QED
    BY <2>1, <2>2
<1>8. CASE Send
  <2>1. /\ tx' \in TxType
        /\ tx'.rbuf = next_buf(tx.rbuf) /\ tx'.wbuf = tx.wbuf
        /\ tx'.bufs = [tx.bufs EXCEPT ![tx.rbuf] = <<>>]
        /\ Len(q_rbuf(tx)) \in Nat
    BY <1>8, <1>t, BufSent DEF Send
  <2>2. ~reuse_wbuf /\ tx.bufs[tx.rbuf] # <<>>
    BY <1>c, <1>8 DEF Send, Contiguous, q_buf_empty, q_rbuf
  <2>3. ready \in 1 .. N
    <3>1. dist(tx.rbuf) < ready
      BY <1>c, <2>2, <1>t DEF Contiguous
    <3> QED
      BY <1>c, <3>1, <1>t DEF dist, RingTypeOK, Contiguous, N, Bufs
  <2>4. tx'.rbuf = IF tx.rbuf = N - 1 THEN 0 ELSE tx.rbuf + 1
    BY <1>t, <2>1, NextBuf
  <2>5. /\ tx.rbuf \in 0 .. N - 1 /\ tx.wbuf \in 0 .. N - 1 /\ Bufs = 0 .. N - 1
        /\ D(tx.rbuf, tx.wbuf, N) = ready \/ (ready = N /\ tx.wbuf = tx.rbuf)
    BY <1>c, <1>t DEF Bufs, N, Contiguous, dist, D
  <2>6. /\ D(tx'.rbuf, tx.wbuf, N) = ready - 1
        /\ \A i \in 0 .. N - 1 : D(tx'.rbuf, i, N) < ready - 1 <=>
                                 D(tx.rbuf, i, N) < ready /\ i # tx.rbuf
    <3> DEFINE r == tx.rbuf
               w == tx.wbuf
               s == tx'.rbuf
    <3>1. /\ N \in Nat /\ r \in 0 .. N - 1 /\ w \in 0 .. N - 1 /\ ready \in 1 .. N
          /\ D(r, w, N) = ready \/ (ready = N /\ w = r)
          /\ s = IF r = N - 1 THEN 0 ELSE r + 1
      BY <1>t, <2>3, <2>4, <2>5
    <3> HIDE DEF r, w, s
    <3>2. /\ D(s, w, N) = ready - 1
          /\ \A i \in 0 .. N - 1 : D(s, i, N) < ready - 1 <=> D(r, i, N) < ready /\ i # r
      BY ONLY <3>1, AdvanceReader
    <3> QED
      BY <3>2 DEF r, w, s
  <2>7. \A i \in Bufs : tx'.bufs[i] # <<>> <=> D(tx.rbuf, i, N) < ready /\ i # tx.rbuf
    BY <1>c, <1>t, <2>1, <2>2 DEF Contiguous, RingTypeOK, dist, D, N
  <2>8. Contiguous'
    <3>1. \A i \in Bufs : tx'.bufs[i] # <<>> <=> D(tx'.rbuf, i, N) < ready - 1
      BY <2>5, <2>6, <2>7
    <3>2. D(tx'.rbuf, tx'.wbuf, N) = ready - 1
      BY <2>1, <2>6
    <3>3. ready' = ready - 1 /\ ~reuse_wbuf'
      BY <1>8, <2>2 DEF Send
    <3> QED
      BY <1>t, <2>3, <3>1, <3>2, <3>3 DEF Contiguous, dist, D, N
  <2> QED
    BY <2>8
<1>9. CASE EndSend
  BY <1>c, <1>9 DEF EndSend, RingTypeOK, Contiguous, dist
<1>10. CASE UNCHANGED ringVars
  BY <1>c, <1>10 DEF ringVars, RingTypeOK, Contiguous, dist
<1> QED
  BY <1>1, <1>2, <1>3, <1>4, <1>5, <1>6, <1>7, <1>8, <1>9, <1>10 DEF RingNext

\* TypeOK: the indexes of the reader and of the writer stay in the ring, for every
\* number of buffers and whatever fails.
THEOREM RingTypeCorrect == RingSpec => []RingTypeOK
<1>1. RingTypeOK /\ [RingNext]_ringVars => RingTypeOK'
  BY TypeStep
<1> QED
  BY RingInitInv, <1>1, PTL DEF RingSpec

\* RingContiguous: the buffers filled by qc_prep_hdshk_pkts() and not sent yet follow
\* one another from the reader to the writer, for every number of buffers.
THEOREM RingStaysContiguous == RingSpec => []RingContiguous
<1>1. RingTypeOK /\ RingContiguous /\ [RingNext]_ringVars => RingTypeOK' /\ RingContiguous'
  BY RingStep
<1> QED
  BY RingInitInv, <1>1, PTL DEF RingSpec

\* NothingLeftBehind: when the reader of the TX ring meets an empty buffer, all the
\* packets built by qc_prep_hdshk_pkts() and qc_prep_phdshk_pkts() have been sent.
THEOREM RingEmptied == RingSpec => []NothingLeftBehind
<1>1. RingTypeOK /\ RingContiguous => NothingLeftBehind
  <2> SUFFICES ASSUME RingTypeOK, RingContiguous, builds_ok, pc # "prep",
                      tx.bufs[tx.rbuf] = <<>>, NEW i \in Bufs
               PROVE  tx.bufs[i] = <<>>
    BY DEF NothingLeftBehind, q_buf_empty, q_rbuf
  <2>0. Contiguous
    BY DEF RingContiguous
  <2>1. tx.rbuf \in Bufs /\ ready \in 0 .. N /\ N \in Nat
    BY <2>0, TxBufsAssumption DEF RingTypeOK, Contiguous, N
  <2>2. ~(dist(tx.rbuf) < ready) /\ ~reuse_wbuf
    BY <2>0, <2>1 DEF Contiguous
  <2>3. ready = 0
    BY <2>1, <2>2 DEF dist, Bufs
  <2>4. ~(dist(i) < ready)
    BY <2>1, <2>3 DEF dist, Bufs, N
  <2> QED
    BY <2>0, <2>2, <2>4 DEF Contiguous
<1> QED
  BY RingTypeCorrect, RingStaysContiguous, <1>1, PTL

------------------------------------------------------------------------------
(***************************************************************************)
(* WindowDecoded is not inductive.  What makes it hold is that the length  *)
(* of a packet was chosen from a number acknowledged before it left, and   *)
(* that what is acknowledged has been treated: every packet sent is at     *)
(* most half of its window above the largest number treated (InWindow).    *)
(***************************************************************************)
\* Every window is even: decode_packet_number() halves it without a remainder.
Win == {w \in Nat : w > 0 /\ w = 2 * (w \div 2)}

LEMMA EvenTimes ==
  ASSUME NEW v \in Win, NEW b \in Nat, b > 0
  PROVE  v * b \in Win
<1> DEFINE h == v \div 2
<1>1. v \in Nat /\ v > 0 /\ h \in Nat /\ v = 2 * h
  BY DEF Win
<1>2. v * b \in Nat /\ v * b > 0 /\ h * b \in Nat /\ v * b = 2 * (h * b)
  <2> HIDE DEF h
  <2> QED BY <1>1
<1> DEFINE n == v * b
           m == h * b
<1>3. n \div 2 = m
  <2>1. n \in Nat /\ m \in Nat /\ n = 2 * m
    BY <1>2
  <2> HIDE DEF n, m
  <2> QED BY ONLY <2>1
<1> QED
  BY <1>2, <1>3 DEF Win

LEMMA WindowsEven ==
  ASSUME NEW pnl \in 1 .. 4
  PROVE  pn_win(pnl) \in Win
<1>1. Byte \in Win /\ Byte \in Nat /\ Byte > 0
  BY ByteAssumption DEF Win
<1>2. Byte * Byte \in Win
  BY <1>1, EvenTimes
<1>3. Byte * Byte * Byte \in Win
  BY <1>1, <1>2, EvenTimes
<1>4. Byte * Byte * Byte * Byte \in Win
  BY <1>1, <1>3, EvenTimes
<1>5. pnl = 1 \/ pnl = 2 \/ pnl = 3 \/ pnl = 4
  OBVIOUS
<1> HIDE DEF Win
<1> QED
  BY <1>1, <1>2, <1>3, <1>4, <1>5 DEF pn_win

LEMMA WinEven ==
  ASSUME NEW win \in Win
  PROVE  /\ win \in Nat /\ win > 0
         /\ win \div 2 \in Nat
         /\ win = 2 * (win \div 2)
  BY DEF Win

LEMMA DivMod ==
  ASSUME NEW n \in Nat, NEW win \in Nat, win > 0
  PROVE  /\ n \div win \in Nat
         /\ n % win \in 0 .. win - 1
         /\ n = win * (n \div win) + (n % win)
  OBVIOUS

\* Two multiples of a window that are less than two windows apart are equal or
\* next to each other.
LEMMA NextMultiple ==
  ASSUME NEW win \in Nat, win > 0, NEW q \in Int, NEW s \in Int,
         win * s - win * q < 2 * win, win * q - win * s < 2 * win
  PROVE  win * s - win * q \in {-win, 0, win}
<1>1. win * s - win * q = win * (s - q)
  OBVIOUS
<1>2. s - q < 2
  <2> SUFFICES ASSUME s - q >= 2 PROVE FALSE
    OBVIOUS
  <2>1. win * (s - q) >= win * 2
    OBVIOUS
  <2> QED BY <2>1, <1>1
<1>3. s - q > -2
  <2> SUFFICES ASSUME q - s >= 2 PROVE FALSE
    OBVIOUS
  <2>1. win * (q - s) >= win * 2
    OBVIOUS
  <2>2. win * (q - s) = win * q - win * s
    OBVIOUS
  <2> QED BY <2>1, <2>2
<1>4. s - q \in {-1, 0, 1}
  BY <1>2, <1>3
<1> QED
  BY <1>1, <1>4

(***************************************************************************)
(* decode_packet_number() finds the number of every packet that is at most *)
(* half of a window above the expected one, and less than half of a window *)
(* below it.                                                               *)
(***************************************************************************)
LEMMA DecodeInWindow ==
  ASSUME NEW largest \in Int, largest >= -1,
         NEW pn \in Nat, pn < QUIC_MAX_PACKET_NUM,
         NEW win \in Win,
         pn + win \div 2 > largest + 1,
         pn <= largest + 1 + win \div 2
  PROVE  decode_packet_number(largest, pn % win, win) = pn
<1> DEFINE e == largest + 1
           h == win \div 2
           r == e % win
           t == pn % win
           W == win * (e \div win)
           V == win * (pn \div win)
           c == (e - r) + t
<1>1. e \in Nat /\ QUIC_MAX_PACKET_NUM \in Nat
  BY MaxAssumption
<1>2. win \in Nat /\ win > 0 /\ h \in Nat /\ win = 2 * h
  BY WinEven
<1>3. W \in Int /\ r \in 0 .. win - 1 /\ e = W + r
  BY <1>1, <1>2, DivMod
<1>4. V \in Int /\ t \in 0 .. win - 1 /\ pn = V + t
  BY <1>2, DivMod
<1>5. pn + h > e /\ pn <= e + h
  OBVIOUS
<1>6. V - W \in {-win, 0, win}
  <2>1. V - W < 2 * win /\ W - V < 2 * win
    <3> HIDE DEF e, h, r, t, W, V
    <3> QED BY ONLY <1>1, <1>2, <1>3, <1>4, <1>5, pn \in Nat
  <2>2. e \div win \in Int /\ pn \div win \in Int
    BY <1>1, <1>2, DivMod
  <2> QED
    BY <1>2, <2>1, <2>2, NextMultiple
<1>7. c \in Int /\ c = W + t
  <2> HIDE DEF e, h, r, t, W, V
  <2> QED BY ONLY <1>1, <1>3, <1>4, <1>2
<1>8. decode_packet_number(largest, pn % win, win) =
        CASE c < QUIC_MAX_PACKET_NUM - win /\ c + h <= e -> c + win
          [] c > e + h /\ c >= win -> c - win
          [] OTHER -> c
  BY Zenon DEF decode_packet_number
<1> HIDE DEF e, h, r, t, W, V, c
<1>9. CASE V - W = 0
  BY ONLY <1>1, <1>2, <1>3, <1>4, <1>5, <1>7, <1>8, <1>9, pn \in Nat
<1>10. CASE V - W = win
  BY ONLY <1>1, <1>2, <1>3, <1>4, <1>5, <1>7, <1>8, <1>10, pn \in Nat,
          pn < QUIC_MAX_PACKET_NUM
<1>11. CASE V - W = -win
  BY ONLY <1>1, <1>2, <1>3, <1>4, <1>5, <1>7, <1>8, <1>11, pn \in Nat
<1> QED
  BY <1>6, <1>9, <1>10, <1>11

\* A decoded number is not negative.
LEMMA DecodeNat ==
  ASSUME NEW largest \in Int, largest >= -1, NEW win \in Win,
         NEW t \in 0 .. win - 1
  PROVE  decode_packet_number(largest, t, win) \in Nat
<1> DEFINE e == largest + 1
           h == win \div 2
           r == e % win
           W == win * (e \div win)
           c == (e - r) + t
<1>1. e \in Nat /\ QUIC_MAX_PACKET_NUM \in Nat
  BY MaxAssumption
<1>2. win \in Nat /\ win > 0 /\ h \in Nat /\ win = 2 * h
  BY WinEven
<1>3. W \in Nat /\ r \in 0 .. win - 1 /\ e = W + r
  <2>1. e \div win \in Nat
    BY <1>1, <1>2, DivMod
  <2> QED
    BY <1>1, <1>2, <2>1, DivMod
<1>4. c \in Nat
  <2> HIDE DEF e, h, r, W
  <2> QED BY ONLY <1>1, <1>2, <1>3, t \in 0 .. win - 1
<1>5. decode_packet_number(largest, t, win) =
        CASE c < QUIC_MAX_PACKET_NUM - win /\ c + h <= e -> c + win
          [] c > e + h /\ c >= win -> c - win
          [] OTHER -> c
  BY Zenon DEF decode_packet_number
<1> HIDE DEF e, h, r, W, c
<1> QED
  BY ONLY <1>1, <1>2, <1>4, <1>5

-----------------------------------------------------------------------------
(***************************************************************************)
(* What is acknowledged has been treated, and every packet sent is at most *)
(* half of its window above the largest number treated.                    *)
(***************************************************************************)
AckedTreated ==
  /\ head <= largest_pn
  /\ \A n \in acks : n <= head
  /\ largest_acked_pn <= head

InWindow ==
  \A p \in pn_sent : 2 * (p.pn - largest_pn) + 1 < pn_win(p.pnl)

IInv == PnTypeOK /\ AckedTreated /\ InWindow

LEMMA LengthEnough ==
  ASSUME NEW pn \in Int, NEW acked \in Int,
         2 * (pn - acked) + 1 < pn_win(4)
  PROVE  /\ quic_packet_number_length(pn, acked) \in 1 .. 4
         /\ 2 * (pn - acked) + 1 < pn_win(quic_packet_number_length(pn, acked))
<1>1. \A pnl \in 1 .. 4 : pn_win(pnl) \in Nat
  BY WindowsEven, WinEven
<1>2. pn_win(1) \in Nat /\ pn_win(2) \in Nat /\ pn_win(3) \in Nat /\ pn_win(4) \in Nat
  BY <1>1
<1> QED
  BY <1>2 DEF quic_packet_number_length

LEMMA InitIInv == PnInit => IInv
  BY MaxAssumption DEF PnInit, IInv, PnTypeOK, AckedTreated, InWindow

LEMMA NextIInv == IInv /\ [PnNext]_pnVars => IInv'
<1> SUFFICES ASSUME IInv, [PnNext]_pnVars PROVE IInv'
  OBVIOUS
<1> USE DEF IInv
<1>0. \A p \in PnPacket : pn_win(p.pnl) \in Nat
  <2> SUFFICES ASSUME NEW p \in PnPacket PROVE pn_win(p.pnl) \in Nat
    OBVIOUS
  <2>1. p.pnl \in 1 .. 4
    BY DEF PnPacket
  <2> QED BY <2>1, WindowsEven, WinEven
<1>1. CASE BuildPnPkt
  <2> DEFINE pn  == next_pn + 1
             pnl == quic_packet_number_length(pn, largest_acked_pn)
             new == [pn |-> pn, pnl |-> pnl]
  <2>1. pn \in 0 .. MaxPn /\ next_pn' = pn /\ pn_sent' = pn_sent \cup {new}
    BY <1>1, MaxAssumption DEF BuildPnPkt, PnTypeOK
  <2>2. pnl \in 1 .. 4 /\ 2 * (pn - largest_acked_pn) + 1 < pn_win(pnl)
    BY <1>1, <2>1, LengthEnough DEF BuildPnPkt, PnTypeOK
  <2>3. new \in PnPacket
    BY <2>1, <2>2 DEF PnPacket
  <2>4. 2 * (new.pn - largest_pn) + 1 < pn_win(new.pnl)
    <3>1. pn_win(pnl) \in Nat
      BY <2>2, WindowsEven, WinEven
    <3>2. largest_acked_pn \in Int /\ largest_pn \in Int /\ head \in Int
           /\ largest_acked_pn <= head /\ head <= largest_pn
      BY MaxAssumption DEF PnTypeOK, AckedTreated
    <3>3. new.pn = pn /\ new.pnl = pnl
      OBVIOUS
    <3>4. pn \in Int /\ 2 * (pn - largest_acked_pn) + 1 < pn_win(pnl)
      BY <2>1, <2>2, MaxAssumption
    <3> HIDE DEF pn, pnl, new
    <3> QED BY ONLY <3>1, <3>2, <3>3, <3>4
  <2>5. UNCHANGED <<largest_acked_pn, pkts, largest_pn, head, acks>>
    BY <1>1 DEF BuildPnPkt
  <2> HIDE DEF pn, pnl, new
  <2>6. PnTypeOK'
    BY <2>1, <2>3, <2>5, MaxAssumption DEF PnTypeOK
  <2>7. AckedTreated'
    BY <2>5 DEF AckedTreated
  <2>8. InWindow'
    BY <2>1, <2>4, <2>5 DEF InWindow
  <2> QED BY <2>6, <2>7, <2>8
<1>2. ASSUME NEW p \in pn_sent, RmHp(p) PROVE IInv'
  <2>1. p \in PnPacket /\ p.pn \in Nat /\ p.pnl \in 1 .. 4
    BY MaxAssumption DEF PnTypeOK, PnPacket
  <2>2. decoded(p) \in Nat
    <3>1. pn_win(p.pnl) \in Win
      BY <2>1, WindowsEven
    <3>2. pn_win(p.pnl) \in Nat /\ pn_win(p.pnl) > 0
      BY <3>1, WinEven
    <3>3. truncated_pn(p) \in 0 .. pn_win(p.pnl) - 1
      BY <2>1, <3>2, DivMod DEF truncated_pn
    <3>4. largest_pn \in Int /\ largest_pn >= -1
      BY MaxAssumption DEF PnTypeOK
    <3> QED BY <3>1, <3>3, <3>4, DecodeNat DEF decoded
  <2>3. [pn |-> decoded(p), pkt |-> p] \in [pn : Nat, pkt : PnPacket]
    BY <2>1, <2>2
  <2> QED
    BY <1>2, <2>3 DEF RmHp, PnTypeOK, AckedTreated, InWindow
<1>3. ASSUME NEW good \in SUBSET pkts, NEW nomem \in BOOLEAN, TreatPnPkts(good, nomem)
      PROVE IInv'
  <2> DEFINE pns   == {r.pn : r \in good}
             added == IF nomem THEN pns \ largest_of(pns) ELSE pns
  <2>1. pns \subseteq 0 .. MaxPn
    BY <1>3 DEF TreatPnPkts, decrypts, PnTypeOK, PnPacket
  <2>2. added \subseteq pns
    OBVIOUS
  <2>3. /\ largest_pn' \in pns \cup {largest_pn}
        /\ \A n \in pns \cup {largest_pn} : n <= largest_pn'
    BY <1>3 DEF TreatPnPkts, largest_of
  <2>4. /\ head' \in added \cup {head}
        /\ \A n \in added \cup {head} : n <= head'
    BY <1>3 DEF TreatPnPkts, largest_of
  <2>5. UNCHANGED <<next_pn, largest_acked_pn, pn_sent, acks>> /\ pkts' \subseteq pkts
    BY <1>3 DEF TreatPnPkts
  <2> HIDE DEF pns, added
  <2>6. /\ largest_pn \in -1 .. MaxPn /\ largest_pn' \in -1 .. MaxPn
        /\ head \in -1 .. MaxPn /\ head' \in -1 .. MaxPn
        /\ largest_pn <= largest_pn' /\ head <= head'
    BY <2>1, <2>2, <2>3, <2>4, MaxAssumption DEF PnTypeOK
  <2>7. PnTypeOK'
    BY <2>5, <2>6 DEF PnTypeOK
  <2>8. head' <= largest_pn'
    BY <2>1, <2>2, <2>3, <2>4, <2>6, MaxAssumption DEF AckedTreated
  <2>9. AckedTreated'
    <3>1. largest_acked_pn \in Int /\ acks \subseteq Int
      BY MaxAssumption DEF PnTypeOK
    <3> QED BY <2>5, <2>6, <2>8, <3>1, MaxAssumption DEF AckedTreated
  <2>10. InWindow'
    <3> SUFFICES ASSUME NEW p \in pn_sent
                 PROVE  2 * (p.pn - largest_pn') + 1 < pn_win(p.pnl)
      BY <2>5 DEF InWindow
    <3>1. p.pn \in Int /\ pn_win(p.pnl) \in Int
      BY <1>0, MaxAssumption DEF PnTypeOK, PnPacket
    <3>2. 2 * (p.pn - largest_pn) + 1 < pn_win(p.pnl)
      BY DEF InWindow
    <3> QED BY <2>6, <3>1, <3>2, MaxAssumption
  <2> QED BY <2>7, <2>9, <2>10
<1>4. CASE BuildAckFrm
  BY <1>4, MaxAssumption DEF BuildAckFrm, PnTypeOK, AckedTreated, InWindow
<1>5. ASSUME NEW n \in acks, ParseAck(n) PROVE IInv'
  BY <1>5, MaxAssumption DEF ParseAck, PnTypeOK, AckedTreated, InWindow
<1>6. CASE UNCHANGED pnVars
  BY <1>6 DEF pnVars, PnTypeOK, AckedTreated, InWindow, decoded
<1> QED
  BY <1>1, <1>2, <1>3, <1>4, <1>5, <1>6 DEF PnNext

LEMMA IInvDecodes == IInv => WindowDecoded
<1> SUFFICES ASSUME IInv, NEW p \in pn_sent,
                    p.pn + pn_win(p.pnl) \div 2 > largest_pn + 1
             PROVE  decoded(p) = p.pn
  BY DEF WindowDecoded
<1> DEFINE win == pn_win(p.pnl)
<1>1. p.pn \in 0 .. MaxPn /\ p.pnl \in 1 .. 4
  BY DEF IInv, PnTypeOK, PnPacket
<1>2. win \in Win
  BY <1>1, WindowsEven
<1>3. win \in Nat /\ win \div 2 \in Nat /\ win = 2 * (win \div 2)
  BY <1>2, WinEven
<1>4. largest_pn \in Int /\ largest_pn >= -1
  BY MaxAssumption DEF IInv, PnTypeOK
<1>5. p.pn \in Nat /\ p.pn < QUIC_MAX_PACKET_NUM
  BY <1>1, MaxAssumption
<1>6. 2 * (p.pn - largest_pn) + 1 < win
  BY DEF IInv, InWindow
<1>7. p.pn + win \div 2 > largest_pn + 1
  OBVIOUS
<1> HIDE DEF win
<1>8. p.pn <= largest_pn + 1 + win \div 2
  BY <1>3, <1>4, <1>5, <1>6
<1>9. decode_packet_number(largest_pn, p.pn % win, win) = p.pn
  BY <1>2, <1>4, <1>5, <1>7, <1>8, DecodeInWindow
<1> QED
  BY <1>9 DEF decoded, truncated_pn, win

\* The variables keep their types: the numbers that qc_treat_rx_pkts() takes
\* into account were sent, and a decoded number is never negative.
THEOREM PnTypeCorrect == PnSpec => []PnTypeOK
<1>1. IInv => PnTypeOK
  BY DEF IInv
<1> QED
  BY InitIInv, NextIInv, <1>1, PTL DEF PnSpec

(***************************************************************************)
(* For every number of packets and whatever the network does to packets    *)
(* and to ACK frames, decode_packet_number() recovers the number of each   *)
(* packet that half of the range of its length has not overtaken.          *)
(***************************************************************************)
THEOREM PnAlwaysDecoded == PnSpec => []WindowDecoded
  BY InitIInv, NextIInv, IInvDecodes, PTL DEF PnSpec
==============================================================================
