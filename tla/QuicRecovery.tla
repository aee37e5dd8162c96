---------------------------- MODULE QuicRecovery ----------------------------
(***************************************************************************)
(* The life of the packets a QUIC connection sends (src/xprt_quic.c): they *)
(* are built into the TX buffers, sent, acknowledged or declared lost, and *)
(* their packet number spaces are discarded as the handshake goes on.  The *)
(* timer task detects losses and probe timeouts.                           *)
(*                                                                         *)
(* `pc' is the step of quic_conn_io_cb() in progress: "rx", "prep", "send" *)
(* and "end" for qc_do_hdshk(), then "lastprep" when it has completed the  *)
(* handshake, "phrx", "phprep" and "phsend" afterwards.  The timer task    *)
(* runs between two calls of this callback.                                *)
(*                                                                         *)
(* The network loses, delays, duplicates and reorders packets.  The peer   *)
(* acknowledges all it has received each time it receives a packet; any    *)
(* ACK frame it sent may be received at any time and any number of times.  *)
(* The limit on CRYPTO data in flight is not reached by these frames.      *)
(* The timer task may run on another thread than the tasklet, with no lock *)
(* between them: with OtherThread it runs between any two of these steps.  *)
(*                                                                         *)
(* The connection is the record `qc' (struct quic_conn and the parts of    *)
(* its quic_conn_ctx and timer task that these functions use):             *)
(*                                                                         *)
(*   pktns          the three packet number spaces, see quic_pktns_init    *)
(*   path           struct quic_path, see QuicPath                         *)
(*   ae             path->in_flight_ae_pkts                                *)
(*   ql, pto_count  path->loss                                             *)
(*   tx             the ring of TX buffers, see QuicTxBufs                 *)
(*   to_send        tx.frms_to_send, the frames built after the handshake  *)
(*   tel            the level the packets being built are for              *)
(*   reuse_wbuf     is the buffer of the writer reusable though not empty? *)
(*   timer, task    the loss detection timer and its task                  *)
(*   state          ctx->state, the handshake state                        *)
(*   keys           the flags of the secrets of each level: "set", "dcd"   *)
(*                                                                         *)
(* A packet of a tree is [pn, ae, len, time_sent, frms]: its number, its   *)
(* ACK_ELICITING flag, its in_flight_len, its date of emission (0 until it *)
(* is sent) and its CRYPTO frames.                                         *)
(***************************************************************************)
EXTENDS QuicPath, QuicTxBufs, Ticks, SequencesExt

CONSTANTS IsListener,    \* connection accepted by a listener (QUIC server)?
          MaxAckDelay,   \* max_ack_delay
          InitialFrames, HandshakeFrames, AppFrames,
                     \* CRYPTO frames the TLS stack provides in each space
          PostFrames,\* frames of quic_build_post_handshake_frames()
          Lens,      \* lengths of in flight packets
          Junk,      \* flags left in the memory of a recycled packet
          AckSpaces, \* spaces whose packets from the peer elicit ACK frames
          Failures,  \* failures to consider: "nopkt", "nofrm", "encrypt", "send"
          OtherThread, \* does the timer task run on another thread?
          InitialMaxPn, HandshakeMaxPn, AppMaxPn,
                     \* bounds on the packet numbers of each space
          MaxTime    \* bound on the clock

QUIC_MAX_NB_PTO_DGRAMS == 2

\* enum quic_tls_pktns, in this order in struct quic_conn.
QUIC_TLS_PKTNS_INITIAL   == "initial"
QUIC_TLS_PKTNS_01RTT     == "01rtt"
QUIC_TLS_PKTNS_HANDSHAKE == "handshake"

PktnsOrder == <<QUIC_TLS_PKTNS_INITIAL, QUIC_TLS_PKTNS_01RTT, QUIC_TLS_PKTNS_HANDSHAKE>>
Spaces     == {PktnsOrder[i] : i \in 1 .. 3}

\* enum quic_handshake_state
QUIC_HS_ST_CLIENT_INITIAL   == 0
QUIC_HS_ST_CLIENT_HANDSHAKE == 1
QUIC_HS_ST_SERVER_INITIAL   == 3
QUIC_HS_ST_SERVER_HANDSHAKE == 4
QUIC_HS_ST_COMPLETE         == 6
QUIC_HS_ST_CONFIRMED        == 7

\* ctx->state & QUIC_HS_ST_COMPLETE: a bit test on an enumeration.
has_complete_bits(state) == (state \div 2) % 4 # 0

(***************************************************************************)
(* The timer task and its place in the wait queue (include/proto/task.h,   *)
(* src/task.c): `expire' is task->expire; `in_wq' says whether task->wq is *)
(* in the tree of timers and `key' with which key; `run' is "idle", "rq"   *)
(* (in the run queue) or "picked" (moved to the list of tasks the current  *)
(* round executes: task_in_rq() is false again although it has not run).   *)
(***************************************************************************)
task_new ==
  [expire |-> TICK_ETERNITY, in_wq |-> FALSE, key |-> TICK_ETERNITY, run |-> "idle"]

task_in_rq(t) == t.run = "rq"

\* __task_queue()
insert_wq(t) == [t EXCEPT !.in_wq = TRUE, !.key = t.expire]

\* Only move the node when the new date is earlier than its key.
requeue_if_sooner(t) ==
  IF ~t.in_wq \/ tick_is_lt(t.expire, t.key) THEN insert_wq(t) ELSE t

task_queue(t) == IF tick_isset(t.expire) THEN requeue_if_sooner(t) ELSE t

\* "Ensure <task> will be woken up at most at <when>."
task_schedule(t, when) ==
  IF task_in_rq(t)
  THEN t
  ELSE requeue_if_sooner([t EXCEPT !.expire = IF t.in_wq THEN tick_first(when, @) ELSE when])

\* The part of wake_expired_tasks() that finds the task at the head of the tree.
looks_expired(t, now) == t.in_wq /\ ~tick_is_lt(now, t.key)

wake_expired(t, now) ==
  LET u == [t EXCEPT !.in_wq = FALSE, !.key = TICK_ETERNITY]
  IN  CASE tick_is_expired(t.expire, now) -> [u EXCEPT !.run = IF @ = "idle" THEN "rq" ELSE @]
        [] tick_isset(t.expire) /\ ~tick_is_expired(t.expire, now) -> insert_wq(u)
        [] OTHER -> u

-----------------------------------------------------------------------------
quic_pktns_init ==
  [next_pn |-> -1, pkts |-> {}, frms |-> {}, largest_acked_pn |-> -1,
   time_of_last_eliciting |-> 0, loss_time |-> TICK_ETERNITY, pto_probe |-> FALSE,
   in_flight |-> 0, ack_received |-> FALSE, ack_required |-> FALSE]

qc_new_conn_init ==
  [pktns |-> [sp \in Spaces |-> quic_pktns_init], path |-> quic_path_init, ae |-> 0,
   ql |-> quic_loss_init, pto_count |-> 0, tx |-> tx_bufs_init,
   tel |-> QUIC_TLS_PKTNS_INITIAL, reuse_wbuf |-> FALSE,
   timer |-> TICK_ETERNITY, task |-> task_new, to_send |-> {},
   keys |-> [sp \in Spaces |-> IF sp = QUIC_TLS_PKTNS_INITIAL THEN {"set"} ELSE {}],
   state |-> IF IsListener THEN QUIC_HS_ST_SERVER_INITIAL ELSE QUIC_HS_ST_CLIENT_INITIAL]

bytes_of(pkts)  == MapThenSumSet(LAMBDA p : p.len, pkts)
nb_ae(pkts)     == Cardinality({p \in pkts : p.ae})
by_pn(pkts)     == SetToSortSeq(pkts, LAMBDA p, q : p.pn < q.pn)
min_time(times) == CHOOSE t \in times : \A u \in times : t <= u

-----------------------------------------------------------------------------
\* An unset loss time is TICK_ETERNITY = 0, hence lower than any date.
quic_loss_pktns(qc) ==
  FoldLeft(LAMBDA best, sp : IF qc.pktns[sp].loss_time < qc.pktns[best].loss_time
                             THEN sp ELSE best,
           QUIC_TLS_PKTNS_INITIAL, Tail(PktnsOrder))

(***************************************************************************)
(* The space to arm the PTO for and the date of the PTO.  The application  *)
(* space ends the search when the handshake is not completed.              *)
(***************************************************************************)
quic_pto_pktns(qc, handshake_completed, now) ==
  LET duration == qc.ql.srtt \div 8 +
                  MaxOf(qc.ql.rtt_var, QUIC_TIMER_GRANULARITY) * 2 ^ qc.pto_count
      visit(acc, sp) ==
        IF acc.done \/ qc.pktns[sp].in_flight = 0 THEN acc
        ELSE IF sp = QUIC_TLS_PKTNS_01RTT /\ ~handshake_completed
        THEN [acc EXCEPT !.pktns = sp, !.done = TRUE]
        ELSE LET d   == acc.duration + IF sp = QUIC_TLS_PKTNS_01RTT
                                       THEN MaxAckDelay * 2 ^ qc.pto_count ELSE 0
                 pto == tick_first_2nz(acc.pto, qc.pktns[sp].time_of_last_eliciting + d)
             IN  IF ~tick_isset(acc.pto) \/ pto < acc.pto
                 THEN [acc EXCEPT !.duration = d, !.pto = pto, !.pktns = sp]
                 ELSE [acc EXCEPT !.duration = d]
  IN  IF qc.path.in_flight = 0
      THEN [pktns |-> IF "set" \in qc.keys[QUIC_TLS_PKTNS_HANDSHAKE]
                      THEN QUIC_TLS_PKTNS_HANDSHAKE ELSE QUIC_TLS_PKTNS_INITIAL,
            pto   |-> tick_add(now, duration)]
      ELSE FoldLeft(visit, [pktns |-> QUIC_TLS_PKTNS_INITIAL, pto |-> TICK_ETERNITY,
                            duration |-> duration, done |-> FALSE], PktnsOrder)

quic_peer_validated_addr(qc) ==
  \/ ~IsListener
  \/ qc.pktns[QUIC_TLS_PKTNS_HANDSHAKE].ack_received
  \/ qc.pktns[QUIC_TLS_PKTNS_01RTT].ack_received
  \/ has_complete_bits(qc.state)

\* The timer keeps its previous value when there is no PTO to arm.
qc_set_timer(qc, now) ==
  LET loss_time == qc.pktns[quic_loss_pktns(qc)].loss_time
      pto       == quic_pto_pktns(qc, has_complete_bits(qc.state), now).pto
      timer     == CASE tick_isset(loss_time) -> loss_time
                     [] ~tick_isset(loss_time) /\ qc.ae = 0 /\ quic_peer_validated_addr(qc)
                          -> TICK_ETERNITY
                     [] OTHER -> IF tick_isset(pto) THEN pto ELSE qc.timer
  IN  [qc EXCEPT !.timer = timer, !.task = task_schedule(@, timer)]
-----------------------------------------------------------------------------
(***************************************************************************)
(* qc_packet_loss_lookup(): the packets of <sp> deemed lost and the loss   *)
(* time of those that are not.  The walk stops at the largest acknowledged *)
(* packet number.                                                          *)
(***************************************************************************)
qc_packet_loss_lookup(qc, sp, now) ==
  LET rtt        == MaxOf(qc.ql.latest_rtt, qc.ql.srtt \div 8)
      loss_delay == MaxOf(rtt + rtt \div 8, QUIC_TIMER_GRANULARITY)
      largest    == qc.pktns[sp].largest_acked_pn
      candidates == {p \in qc.pktns[sp].pkts : p.pn <= largest}
      lost       == {p \in candidates : \/ tick_is_le(p.time_sent, now - loss_delay)
                                        \/ largest >= p.pn + QUIC_LOSS_PACKET_THRESHOLD}
      kept       == candidates \ lost
  IN  [lost      |-> lost,
       loss_time |-> IF kept = {} THEN TICK_ETERNITY
                     ELSE min_time({p.time_sent + loss_delay : p \in kept})]

(***************************************************************************)
(* qc_release_lost_pkts(): the frames of the <lost> packets are to be sent *)
(* again and the congestion controller learns of the lost bytes.           *)
(***************************************************************************)
qc_release_lost_pkts(qc, sp, lost, now) ==
  LET list == by_pn(lost)
      qc1  == [qc EXCEPT !.pktns[sp].in_flight = @ - bytes_of(lost),
                         !.pktns[sp].frms = @ \cup UNION {p.frms : p \in lost},
                         !.ae = @ - nb_ae(lost)]
  IN  IF bytes_of(lost) = 0 THEN qc1
      ELSE [qc1 EXCEPT !.path =
              quic_cc_loss_event(@, bytes_of(lost), Last(list).time_sent,
                                 Last(list).time_sent - Head(list).time_sent,
                                 qc.ql, MaxAckDelay, now)]

\* The lookup and the release, as their two callers chain them.
detect_losses(qc, sp, now) ==
  LET found == qc_packet_loss_lookup(qc, sp, now)
      qc1   == [qc EXCEPT !.pktns[sp].loss_time = found.loss_time,
                          !.pktns[sp].pkts = @ \ found.lost]
  IN  IF found.lost = {} THEN qc1 ELSE qc_release_lost_pkts(qc1, sp, found.lost, now)

\* A mutation of qc_treat_newly_acked_pkts(): the counter of ack-eliciting
\* packets is not decremented.
qc_treat_newly_acked_pkts_noae(qc, sp, acked) ==
  [qc EXCEPT !.pktns[sp].in_flight = @ - bytes_of(acked),
             !.path = FoldLeft(LAMBDA path, p : quic_cc_ack_event(path, p.len, p.time_sent),
                               @, by_pn(acked))]

qc_treat_newly_acked_pkts(qc, sp, acked) ==
  [qc EXCEPT !.pktns[sp].in_flight = @ - bytes_of(acked),
             !.ae = @ - nb_ae(acked),
             !.path = FoldLeft(LAMBDA path, p : quic_cc_ack_event(path, p.len, p.time_sent),
                               @, by_pn(acked))]

\* The lowest range of an ACK frame for the packet numbers <acks>.
last_range(acks) ==
  {n \in acks : \A m \in min_time(acks) .. n : m \in acks}

\* qc_parse_ack_frm() refuses the frame.
ack_refused(qc, sp, acks) ==
  LET largest == Max(acks)
  IN  \/ largest > qc.pktns[sp].next_pn
      \/ /\ largest > qc.pktns[sp].largest_acked_pn
         /\ \A p \in qc.pktns[sp].pkts : p.pn # largest

(***************************************************************************)
(* qc_parse_ack_frm() and the RTT sample its caller qc_parse_pkt_frms()    *)
(* takes: only the packets of the last range of the frame are looked up.   *)
(***************************************************************************)
qc_parse_ack_frm(qc, sp, acks, ack_delay, now) ==
  LET largest == Max(acks)
      ns      == qc.pktns[sp]
      newest  == {p \in ns.pkts : p.pn = largest /\ largest > ns.largest_acked_pn}
      acked   == {p \in ns.pkts : p.pn \in last_range(acks)}
      sampled == newest # {} /\ \E p \in acked : p.ae
      rtt     == now - (CHOOSE p \in newest : TRUE).time_sent
      qc1     == [qc EXCEPT !.pktns[sp].pkts = @ \ acked,
                            !.pktns[sp].ack_received = TRUE,
                            !.pktns[sp].largest_acked_pn = IF sampled THEN largest ELSE @]
      qc2     == IF qc1.pktns[sp].pkts = {} THEN qc1 ELSE detect_losses(qc1, sp, now)
      qc3     == qc_treat_newly_acked_pkts(qc2, sp, acked)
      qc4     == IF quic_peer_validated_addr(qc3) THEN [qc3 EXCEPT !.pto_count = 0] ELSE qc3
      qc5     == IF acked = {} THEN qc1 ELSE qc_set_timer(qc4, now)
      delay   == IF sp = QUIC_TLS_PKTNS_01RTT THEN MinOf(ack_delay, MaxAckDelay) ELSE 0
  IN  IF sampled /\ rtt # 0
      THEN [qc5 EXCEPT !.ql = quic_loss_srtt_update(@, rtt, delay)]
      ELSE qc5

\* quic_pktns_discard(): the bytes in flight of the space are reset before they
\* are deduced from those of the path, and in_flight_ae_pkts is left alone.
quic_pktns_discard(qc, sp) ==
  [qc EXCEPT !.pktns[sp].time_of_last_eliciting = 0,
             !.pktns[sp].loss_time = TICK_ETERNITY,
             !.pktns[sp].pto_probe = FALSE,
             !.pktns[sp].in_flight = 0,
             !.pktns[sp].pkts = {},
             !.pto_count = 0]

\* Keys discarded, then the space, then the timer set, in this order everywhere.
discard_level(qc, sp, now) ==
  qc_set_timer(quic_pktns_discard([qc EXCEPT !.keys[sp] = @ \cup {"dcd"}], sp), now)

-----------------------------------------------------------------------------
VARIABLES qc,        \* the connection
          pc,        \* step of quic_conn_io_cb()
          woken,     \* the I/O tasklet is scheduled
          now,       \* now_ms
          net,       \* packets sent and not received by the peer: [sp, pn, frms]
          got,       \* frames the peer has received
          acks,      \* [Spaces -> SUBSET SUBSET Nat]: ACK frames of the peer
          provided,  \* history: frames given to the transport
          fate       \* history: frames acknowledged, and freed by failed builds

peer == <<net, got, acks>>
vars == <<qc, pc, woken, now, peer, provided, fate>>

INITIAL   == QUIC_TLS_PKTNS_INITIAL
APP       == QUIC_TLS_PKTNS_01RTT
HANDSHAKE == QUIC_TLS_PKTNS_HANDSHAKE

by_space(i, h, a) == [sp \in Spaces |-> CASE sp = INITIAL   -> i
                                          [] sp = HANDSHAKE -> h
                                          [] sp = APP       -> a]

Frames == by_space(InitialFrames, HandshakeFrames, AppFrames)
MaxPn  == by_space(InitialMaxPn, HandshakeMaxPn, AppMaxPn)

completed     == qc.state >= QUIC_HS_ST_COMPLETE
initial_state == qc.state \in {QUIC_HS_ST_CLIENT_INITIAL, QUIC_HS_ST_SERVER_INITIAL}
has_keys(sp)  == "set" \in qc.keys[sp]
discarded(sp) == "dcd" \in qc.keys[sp]

\* The packets built and not sent yet.
unsent == UNION {Range(qc.tx.bufs[i]) : i \in Bufs}
sent_pkts(sp) == {p \in qc.pktns[sp].pkts : \A u \in unsent : u.sp = sp => u.pn # p.pn}

\* A client starts with its first CRYPTO data; see qc_conn_init().
Init ==
  LET first == IF IsListener THEN {} ELSE Frames[INITIAL]
  IN  /\ qc = [qc_new_conn_init EXCEPT !.pktns[INITIAL].frms = first]
      /\ pc = "idle"
      /\ woken = TRUE
      /\ now = 1
      /\ net = {} /\ got = {}
      /\ acks = [sp \in Spaces |-> {}]
      /\ provided = [[sp \in Spaces |-> {}] EXCEPT ![INITIAL] = first]
      /\ fate = [sp \in Spaces |-> [acked |-> {}, failed |-> {}]]

Tick ==
  /\ pc = "idle"
  /\ now < MaxTime
  /\ now' = now + 1
  /\ UNCHANGED <<qc, pc, woken, peer, provided, fate>>

\* A packet reaches the peer, which acknowledges all it has received.
PeerReceive(pkt) ==
  /\ pc = "idle"
  /\ net' = net \ {pkt}
  /\ got' = got \cup pkt.frms
  /\ acks' = [acks EXCEPT ![pkt.sp] = @ \cup {(UNION @) \cup {pkt.pn}}]
  /\ UNCHANGED <<qc, pc, woken, now, provided, fate>>

-----------------------------------------------------------------------------
\* quic_conn_io_cb() starts.
RunTasklet ==
  /\ pc = "idle" /\ woken
  /\ woken' = FALSE
  /\ pc' = IF completed THEN "phrx" ELSE "rx"
  /\ UNCHANGED <<qc, now, peer, provided, fate>>

(***************************************************************************)
(* A packet of <sp> is processed.  Its reception wakes the tasklet up, and *)
(* qc_do_hdshk() goes on with the packets of the next level once it has    *)
(* sent those of its first level.                                          *)
(***************************************************************************)
treats(sp) ==
  /\ has_keys(sp) /\ ~discarded(sp)
  /\ sp = INITIAL => initial_state
  /\ \/ pc \in {"rx", "end"}
     \/ pc = "phrx" /\ sp = APP
     \/ pc = "idle" /\ (completed <=> sp = APP)
  /\ pc' = IF pc = "phrx" \/ (pc = "idle" /\ completed) THEN "phrx" ELSE "rx"

\* The peer has all the CRYPTO data of these levels.
peer_has(levels) == \A sp \in levels : Frames[sp] \subseteq got

(***************************************************************************)
(* The TLS stack, called by qc_provide_cdata(), gives the data of <levels> *)
(* to ha_quic_add_handshake_data() and the secrets of <keys> to            *)
(* ha_quic_set_encryption_secrets().                                       *)
(***************************************************************************)
tls_step(levels, keys, state) ==
  /\ provided' = [sp \in Spaces |-> IF sp \in levels THEN Frames[sp] ELSE provided[sp]]
  /\ qc' = [qc EXCEPT !.pktns = [sp \in Spaces |-> IF sp \in levels
                                                   THEN [@[sp] EXCEPT !.frms = @ \cup Frames[sp]]
                                                   ELSE @[sp]],
                      !.keys = [sp \in Spaces |-> IF sp \in keys THEN {"set"} ELSE @[sp]],
                      !.state = state]

\* A server receives a ClientHello, a client the ServerHello which answers its own.
ReceiveHello ==
  /\ treats(INITIAL)
  /\ ~has_keys(HANDSHAKE)
  /\ \/ IsListener /\ tls_step({INITIAL, HANDSHAKE}, {HANDSHAKE}, qc.state)
     \/ ~IsListener /\ peer_has({INITIAL}) /\ tls_step({}, {HANDSHAKE}, qc.state)
  /\ UNCHANGED <<woken, now, peer, fate>>

\* SSL_do_handshake() succeeds: a client has received the Finished message of the
\* server, a server the one of a client which has all its handshake data.
HandshakeDone ==
  /\ treats(HANDSHAKE)
  /\ ~completed
  /\ \/ IsListener /\ peer_has({INITIAL, HANDSHAKE}) /\ tls_step({APP}, {APP}, QUIC_HS_ST_CONFIRMED)
     \/ ~IsListener /\ tls_step({HANDSHAKE}, {APP}, QUIC_HS_ST_COMPLETE)
  /\ UNCHANGED <<woken, now, peer, fate>>

\* Enough ack-eliciting packets were received in this space.
RequireAck(sp) ==
  /\ treats(sp)
  /\ sp \in AckSpaces /\ ~qc.pktns[sp].ack_required
  /\ qc' = [qc EXCEPT !.pktns[sp].ack_required = TRUE]
  /\ UNCHANGED <<woken, now, peer, provided, fate>>

\* A packet with an ACK frame is parsed; it is dropped when the frame is refused.
RecvAck(sp, ack) ==
  /\ treats(sp)
  /\ IF ack_refused(qc, sp, ack)
     THEN UNCHANGED <<qc, woken, fate>>
     ELSE /\ qc' = qc_parse_ack_frm(qc, sp, ack, 0, now)
          /\ woken' = TRUE
          /\ fate' = [fate EXCEPT ![sp].acked = @ \cup
                        UNION {p.frms : p \in {q \in qc.pktns[sp].pkts : q.pn \in last_range(ack)}}]
  /\ UNCHANGED <<now, peer, provided>>

\* The end of qc_parse_pkt_frms(): a server's first Handshake packet.
SwitchToHandshake ==
  /\ treats(HANDSHAKE)
  /\ qc.state = QUIC_HS_ST_SERVER_INITIAL
  /\ peer_has({INITIAL})
  /\ qc' = [discard_level(qc, INITIAL, now) EXCEPT !.state = QUIC_HS_ST_SERVER_HANDSHAKE]
  /\ UNCHANGED <<woken, now, peer, provided, fate>>

\* A client receives HANDSHAKE_DONE.
Confirm ==
  /\ treats(APP)
  /\ ~IsListener /\ peer_has({HANDSHAKE})
  /\ qc' = [qc EXCEPT !.state = QUIC_HS_ST_CONFIRMED]
  /\ UNCHANGED <<woken, now, peer, provided, fate>>

-----------------------------------------------------------------------------
StartPrep ==
  /\ pc \in {"rx", "phrx"}
  /\ pc' = IF pc = "rx" THEN "prep" ELSE "phprep"
  /\ qc' = [qc EXCEPT !.tel = IF pc = "phrx" THEN APP ELSE IF initial_state THEN INITIAL ELSE HANDSHAKE,
                      !.reuse_wbuf = FALSE]
  /\ UNCHANGED <<woken, now, peer, provided, fate>>

preparing == pc \in {"prep", "lastprep", "phprep"}

building == preparing /\ (q_buf_empty(q_wbuf(qc.tx)) \/ qc.reuse_wbuf)

something_to_do ==
  \/ qc.pktns[qc.tel].ack_required
  \/ qc.pktns[qc.tel].frms # {}
  \/ pc = "prep" /\ qc.tx.nb_pto_dgrams # 0

(***************************************************************************)
(* The content of a packet for the level in progress, taking the CRYPTO    *)
(* frames <taken>.  A client pads its Initial packets; a handshake packet  *)
(* without CRYPTO frame gets a PING frame for a probe, and a PADDING frame *)
(* if there is no ACK frame.  The flags are those of the frames, added to  *)
(* those the memory of the packet contains: nothing initialises them.      *)
(***************************************************************************)
client_initial == ~IsListener /\ qc.tel = INITIAL
pings(taken)   == pc = "prep" /\ ~client_initial /\ taken = {} /\ qc.pktns[qc.tel].pto_probe
pads(taken)    == \/ client_initial
                  \/ pc = "prep" /\ taken = {} /\ ~qc.pktns[qc.tel].ack_required
post_frames    == IF pc = "prep" THEN {} ELSE qc.to_send

built_packet(taken, len, junk) ==
  LET ae == junk = "ae" \/ taken # {} \/ pings(taken) \/ post_frames # {}
  IN  [pn |-> qc.pktns[qc.tel].next_pn + 1, ae |-> ae,
       len |-> IF ae \/ pads(taken) \/ junk = "padding" THEN len ELSE 0,
       time_sent |-> 0, frms |-> taken \cup post_frames]

\* The CRYPTO frames a packet may take: there is always room for one in an empty
\* buffer.
takeable == IF qc.reuse_wbuf \/ qc.pktns[qc.tel].frms = {}
            THEN SUBSET qc.pktns[qc.tel].frms
            ELSE SUBSET qc.pktns[qc.tel].frms \ {{}}

\* A mutation of consume(): the frames stay in the list of those to send.
consume_keep(taken) ==
  [qc EXCEPT !.pktns[qc.tel].ack_required = FALSE, !.to_send = @ \ post_frames,
             !.pktns[qc.tel].pto_probe = @ /\ ~pings(taken), !.reuse_wbuf = FALSE]

\* What the build takes from the connection, whether it succeeds or not.
consume(taken) ==
  [qc EXCEPT !.pktns[qc.tel].frms = @ \ taken,
             !.pktns[qc.tel].ack_required = FALSE,
             !.pktns[qc.tel].pto_probe = @ /\ ~pings(taken),
             !.to_send = @ \ post_frames,
             !.reuse_wbuf = FALSE]

attach(c, pkt) ==
  [c EXCEPT !.pktns[c.tel].next_pn = pkt.pn,
            !.pktns[c.tel].pkts = @ \cup {pkt},
            !.tx = q_buf_add(@, [sp |-> c.tel, pn |-> pkt.pn, ae |-> pkt.ae,
                                len |-> pkt.len, frms |-> pkt.frms])]

\* The first Handshake packet of a client discards the Initial level.
leave_initial(c) ==
  IF c.state = QUIC_HS_ST_CLIENT_INITIAL /\ c.tel = HANDSHAKE
  THEN [discard_level(c, INITIAL, now) EXCEPT !.state = QUIC_HS_ST_CLIENT_HANDSHAKE]
  ELSE c

\* Once the Initial packets are built, go on with the Handshake level, in the
\* same buffer if there is CRYPTO data to send at this level.
next_level(c) ==
  IF c.tel = INITIAL /\ (c.pktns[INITIAL].frms = {} \/ c.pktns[HANDSHAKE].in_flight # 0)
  THEN IF c.pktns[HANDSHAKE].frms = {}
       THEN [c EXCEPT !.tel = HANDSHAKE, !.tx = q_next_wbuf(@)]
       ELSE [c EXCEPT !.tel = HANDSHAKE, !.reuse_wbuf = TRUE]
  ELSE [c EXCEPT !.tx = q_next_wbuf(@)]

Build(taken, len, junk) ==
  /\ building /\ something_to_do /\ has_keys(qc.tel)
  /\ qc.pktns[qc.tel].next_pn < MaxPn[qc.tel]
  /\ LET pkt == built_packet(taken, len, junk)
     IN  /\ pkt.len = 0 => len = Min(Lens)
         /\ qc' = next_level(leave_initial(attach(consume(taken), pkt)))
  /\ UNCHANGED <<pc, woken, now, peer, provided, fate>>

\* -1: a datagram with an Initial packet has no room for a Handshake packet.
BuildNoRoom ==
  /\ building /\ something_to_do /\ qc.reuse_wbuf
  /\ qc' = [qc EXCEPT !.reuse_wbuf = FALSE, !.tx = q_next_wbuf(@)]
  /\ UNCHANGED <<pc, woken, now, peer, provided, fate>>

\* What follows a failure: quic_conn_io_cb() ignores it once the handshake is over.
failed == IF pc = "phprep" THEN "phsend" ELSE "idle"

\* -2: no memory for the packet.
BuildNoPacket ==
  /\ "nopkt" \in Failures
  /\ building /\ something_to_do
  /\ qc' = [qc EXCEPT !.reuse_wbuf = FALSE]
  /\ pc' = failed
  /\ UNCHANGED <<woken, now, peer, provided, fate>>

\* -1: no memory to split a CRYPTO frame; those already taken are freed.
BuildNoFrame(taken) ==
  /\ "nofrm" \in Failures
  /\ building /\ something_to_do /\ taken # qc.pktns[qc.tel].frms
  /\ LET c == [qc EXCEPT !.pktns[qc.tel].frms = @ \ taken,
                         !.pktns[qc.tel].ack_required = FALSE,
                         !.reuse_wbuf = FALSE]
     IN  qc' = [c EXCEPT !.tx = q_next_wbuf(@)]
  /\ pc' = IF pc = "prep" THEN pc ELSE failed
  /\ fate' = [fate EXCEPT ![qc.tel].failed = @ \cup taken]
  /\ UNCHANGED <<woken, now, peer, provided>>

\* -2: the encryption fails, which is certain without keys.
EncryptFails(taken) ==
  /\ "encrypt" \in Failures \/ ~has_keys(qc.tel)
  /\ building /\ something_to_do
  /\ qc' = consume(taken)
  /\ pc' = failed
  /\ fate' = [fate EXCEPT ![qc.tel].failed = @ \cup taken \cup post_frames]
  /\ UNCHANGED <<woken, now, peer, provided>>

\* There is nothing more to build; a buffer kept for a Handshake packet is consumed.
EndPrep ==
  /\ preparing
  /\ ~building \/ ~something_to_do
  /\ pc' = IF pc = "prep" THEN "send" ELSE "phsend"
  /\ qc' = IF building /\ qc.reuse_wbuf
           THEN [qc EXCEPT !.reuse_wbuf = FALSE, !.tx = q_next_wbuf(@)] ELSE qc
  /\ UNCHANGED <<woken, now, peer, provided, fate>>
-----------------------------------------------------------------------------
sending == pc \in {"send", "phsend"}

\* A mutation of send_pkt(): the timer is not set.
send_pkt_untimed(c, e) ==
  [c EXCEPT !.pktns[e.sp].pkts = {IF p.pn = e.pn THEN [p EXCEPT !.time_sent = now] ELSE p : p \in @},
            !.pktns[e.sp].time_of_last_eliciting = IF e.ae THEN now ELSE @,
            !.ae = IF e.ae THEN @ + 1 ELSE @,
            !.path.in_flight = @ + e.len,
            !.pktns[e.sp].in_flight = @ + e.len]

\* A packet of the datagram just sent.  A packet freed meanwhile is only counted.
send_pkt(c, e) ==
  LET c1 == [c EXCEPT !.pktns[e.sp].pkts =
                          {IF p.pn = e.pn THEN [p EXCEPT !.time_sent = now] ELSE p : p \in @},
                      !.pktns[e.sp].time_of_last_eliciting = IF e.ae THEN now ELSE @,
                      !.ae = IF e.ae THEN @ + 1 ELSE @,
                      !.path.in_flight = @ + e.len,
                      !.pktns[e.sp].in_flight = @ + e.len]
  IN  IF e.len # 0 THEN qc_set_timer(c1, now) ELSE c1

Send ==
  /\ sending /\ ~q_buf_empty(q_rbuf(qc.tx))
  /\ qc' = [FoldLeft(send_pkt, qc, q_rbuf(qc.tx)) EXCEPT !.tx = q_buf_sent(@)]
  /\ net' = net \cup {[sp |-> e.sp, pn |-> e.pn, frms |-> e.frms] : e \in Range(q_rbuf(qc.tx))}
  /\ UNCHANGED <<pc, woken, now, got, acks, provided, fate>>

EndSend ==
  /\ sending
  /\ q_buf_empty(q_rbuf(qc.tx)) \/ "send" \in Failures
  /\ pc' = IF pc = "send" THEN "end" ELSE "idle"
  /\ UNCHANGED <<qc, woken, now, peer, provided, fate>>

EndHandshake ==
  /\ pc = "end"
  /\ IF ~completed
     THEN /\ pc' = "idle"
          /\ UNCHANGED qc
     ELSE /\ pc' = "lastprep"
          /\ qc' = [discard_level(qc, HANDSHAKE, now) EXCEPT !.tel = APP, !.to_send = PostFrames]
  /\ UNCHANGED <<woken, now, peer, provided, fate>>

\* The end of qc_do_hdshk() when the post handshake frames cannot be allocated.
EndHandshakeNoFrame(built) ==
  /\ pc = "end" /\ completed /\ "nofrm" \in Failures
  /\ pc' = "idle"
  /\ qc' = [discard_level(qc, HANDSHAKE, now) EXCEPT !.to_send = built]
  /\ UNCHANGED <<woken, now, peer, provided, fate>>
-----------------------------------------------------------------------------
timer_runs == pc = "idle" \/ OtherThread

\* wake_expired_tasks()
WakeTimer ==
  /\ timer_runs
  /\ looks_expired(qc.task, now)
  /\ qc' = [qc EXCEPT !.task = wake_expired(@, now)]
  /\ UNCHANGED <<pc, woken, now, peer, provided, fate>>

\* process_runnable_tasks() moves the task to the list of those about to run.
PickTimer ==
  /\ timer_runs /\ qc.task.run = "rq"
  /\ qc' = [qc EXCEPT !.task.run = "picked"]
  /\ UNCHANGED <<pc, woken, now, peer, provided, fate>>

set_and_kept(sp) == has_keys(sp) /\ ~discarded(sp)

\* The spaces process_timer() asks a probe for.
probed ==
  CASE qc.path.in_flight # 0 -> {quic_pto_pktns(qc, completed, now).pktns}
    [] qc.path.in_flight = 0 /\ ~IsListener /\ qc.state <= QUIC_HS_ST_COMPLETE
         -> {sp \in {INITIAL, HANDSHAKE} : set_and_kept(sp)}
    [] OTHER -> {}

(***************************************************************************)
(* process_timer(), after which the scheduler queues the task again: look  *)
(* for losses in the space quic_loss_pktns() selects if it has a loss time *)
(* (it has one only if the three spaces do), else ask for probes.          *)
(***************************************************************************)
process_timer(c) ==
  LET sp == quic_loss_pktns(c)
      d  == IF tick_isset(c.pktns[sp].loss_time)
            THEN qc_set_timer(detect_losses(c, sp, now), now)
            ELSE [c EXCEPT !.pktns = [s \in Spaces |-> [@[s] EXCEPT !.pto_probe = @ \/ s \in probed]],
                           !.tx.nb_pto_dgrams = QUIC_MAX_NB_PTO_DGRAMS,
                           !.pto_count = @ + 1]
  IN  [d EXCEPT !.task = task_queue([@ EXCEPT !.run = "idle"])]

Timeout ==
  /\ timer_runs /\ qc.task.run = "picked"
  /\ qc' = process_timer([qc EXCEPT !.task.expire = TICK_ETERNITY])
  /\ woken' = (woken \/ ~tick_isset(qc.pktns[quic_loss_pktns(qc)].loss_time))
  /\ UNCHANGED <<pc, now, peer, provided, fate>>
-----------------------------------------------------------------------------
Receive ==
  \/ ReceiveHello \/ HandshakeDone \/ SwitchToHandshake \/ Confirm
  \/ \E sp \in Spaces : \/ RequireAck(sp)
                        \/ \E ack \in acks[sp] : RecvAck(sp, ack)

Prepare ==
  \/ StartPrep \/ BuildNoRoom \/ BuildNoPacket \/ EndPrep
  \/ \E taken \in takeable : \/ \E len \in Lens, junk \in Junk : Build(taken, len, junk)
                             \/ EncryptFails(taken)
  \/ \E taken \in SUBSET qc.pktns[qc.tel].frms : BuildNoFrame(taken)

Emit == Send \/ EndSend \/ EndHandshake \/ \E built \in SUBSET PostFrames : EndHandshakeNoFrame(built)

Timer == WakeTimer \/ PickTimer \/ Timeout

Network == \E pkt \in net : PeerReceive(pkt)

Next == Tick \/ Network \/ RunTasklet \/ Receive \/ Prepare \/ Emit \/ Timer

Spec == Init /\ [][Next]_vars
-----------------------------------------------------------------------------
\* The type of the state.  The counters of bytes and packets are unsigned in the
\* program; a negative one would be a wrap-around.
TypeOK ==
  /\ pc \in {"idle", "rx", "prep", "send", "end", "lastprep", "phrx", "phprep", "phsend"}
  /\ woken \in BOOLEAN /\ now \in 1 .. MaxTime
  /\ qc.tx.rbuf \in Bufs /\ qc.tx.wbuf \in Bufs
  /\ qc.tx.nb_pto_dgrams \in 0 .. QUIC_MAX_NB_PTO_DGRAMS
  /\ qc.ae \in Int /\ qc.path.in_flight \in Int
  /\ \A sp \in Spaces : /\ qc.pktns[sp].in_flight \in Int
                        /\ qc.pktns[sp].next_pn \in -1 .. MaxPn[sp]
                        /\ qc.pktns[sp].largest_acked_pn \in -1 .. qc.pktns[sp].next_pn

kept     == {sp \in Spaces : ~discarded(sp)}
total(f) == FoldFunctionOnSet(LAMBDA a, b : a + b, 0, f, kept)

\* The bytes in flight of each packet number space are those of its packets that
\* were sent and neither acknowledged nor declared lost.  The path never counts
\* less than its spaces, and exactly as much while no space has been discarded:
\* qc_send_ppkts(), qc_treat_newly_acked_pkts() and qc_release_lost_pkts() agree.
Accounting ==
  LET bytes == [sp \in Spaces |-> qc.pktns[sp].in_flight]
      aes   == [sp \in Spaces |-> nb_ae(sent_pkts(sp))]
  IN  /\ \A sp \in kept : qc.pktns[sp].in_flight = bytes_of(sent_pkts(sp))
      /\ qc.path.in_flight >= total(bytes) /\ qc.ae >= total(aes)
      /\ kept = Spaces => qc.path.in_flight = total(bytes) /\ qc.ae = total(aes)

\* Every CRYPTO frame given to the transport is in exactly one place until its
\* space is discarded: waiting in pktns->tx.frms, in one packet, acknowledged, or
\* freed by a build that failed.  Losses, spurious or not, and acknowledgements
\* that are late, lost or repeated neither lose nor duplicate one.
FramesConserved ==
  \A sp \in kept : \A f \in provided[sp] :
    LET places == [frms |-> qc.pktns[sp].frms] @@ fate[sp]
    IN  Cardinality({p \in qc.pktns[sp].pkts : f \in p.frms})
        + Cardinality({w \in DOMAIN places : f \in places[w]}) = 1

\* When no build fails, the packets of a space leave qc_send_ppkts() in the order
\* of their numbers: qc_packet_loss_lookup(), which stops at the largest
\* acknowledged number, never meets a packet which is still in the TX ring.
SentInOrder ==
  \A u \in unsent : \A p \in sent_pkts(u.sp) : p.pn < u.pn

\* Bytes, packets and frames of a connection are neither lost nor counted twice, and leave in
\* order: building, sending, acknowledging, losing and discarding agree.
Conserved == TypeOK /\ Accounting /\ FramesConserved /\ SentInOrder

\* During the handshake something is always about to happen: when the tasklet is
\* not scheduled and CRYPTO frames wait to be sent, or packets which the peer must
\* acknowledge are in flight, the timer task is queued or about to run.  No order
\* of losses, acknowledgements, timeouts, expiries erased by process_timer() and
\* builds cancels it.  A failed build which leaves packets in the TX ring does.
HandshakeDriven ==
  pc = "idle" /\ ~woken /\ ~completed /\ unsent = {}
  /\ (\E sp \in kept : has_keys(sp) /\ (qc.pktns[sp].frms # {} \/ nb_ae(sent_pkts(sp)) > 0))
  => qc.task.in_wq \/ qc.task.run # "idle"

-----------------------------------------------------------------------------
(* What comments of the source say, and the code does not ensure.          *)

\* "Deduce the outstanding bytes for this packet number space from the outstanding
\* bytes for the path of this connection" (quic_pktns_discard): the path counts
\* the bytes of its spaces, also when some are discarded.
PathConserved ==
  qc.path.in_flight = FoldFunctionOnSet(LAMBDA a, b : a + b, 0,
                        [sp \in Spaces |-> qc.pktns[sp].in_flight], Spaces)

\* "update <rtt_sample> if needed, i.e. if the largest acked packet was newly acked
\* and if there was at leas one newly acked ack-eliciting packet"
\* (qc_parse_ack_frm).
RttSampled ==
  [][\A sp \in Spaces : \A ack \in acks[sp] :
       LET acked == {p \in qc.pktns[sp].pkts : p.pn \in ack}
       IN  /\ RecvAck(sp, ack) /\ ~ack_refused(qc, sp, ack)
           /\ \E p \in acked : p.pn = Max(ack) /\ p.time_sent < now
           /\ \E p \in acked : p.ae
           => \E p \in acked : qc'.ql.latest_rtt = now - p.time_sent /\ p.pn = Max(ack)]_vars

\* "Boolean to denote if we must send probe packet." (pto_probe of struct quic_pktns):
\* once the tasklet that process_timer() woke up has run, the probe was built.
ProbeSent ==
  pc = "idle" /\ ~woken => \A sp \in kept : ~qc.pktns[sp].pto_probe

\* "Returns for <qc> QUIC connection the first packet number space which
\* experienced packet loss, if any" (quic_loss_pktns).
LossPktnsFirst ==
  (\E sp \in Spaces : tick_isset(qc.pktns[sp].loss_time))
     => tick_isset(qc.pktns[quic_loss_pktns(qc)].loss_time)
=============================================================================
