----------------------------- MODULE QuicTxRing -----------------------------
(***************************************************************************)
(* The use of the ring of TX buffers by qc_prep_hdshk_pkts(),              *)
(* qc_prep_phdshk_pkts() and qc_send_ppkts(), for any number of buffers.   *)
(* What the packets contain, and when there is something to send, is left  *)
(* open: a packet is its rank in the order of construction.                *)
(***************************************************************************)
EXTENDS QuicTxBufs, FiniteSetsExt

CONSTANT MaxBuilt     \* bound on the number of packets

VARIABLES tx,         \* the ring
          pc,         \* "idle", "prep" or "send"
          reuse_wbuf, \* is the buffer of the writer reusable though not empty?
          built,      \* history: number of packets built
          ring_sent,  \* history: number of packets sent
          ready,      \* history: number of buffers filled and not sent yet
          failed      \* history: what has failed, "nopkt", "nofrm" or "send"

ringVars == <<tx, pc, reuse_wbuf, built, ring_sent, ready, failed>>

RingInit ==
  /\ tx = tx_bufs_init
  /\ pc = "idle"
  /\ reuse_wbuf = FALSE
  /\ built = 0 /\ ring_sent = 0 /\ ready = 0 /\ failed = {}

StartPrep ==
  /\ pc = "idle"
  /\ pc' = "prep"
  /\ UNCHANGED <<tx, reuse_wbuf, built, ring_sent, ready, failed>>

building == pc = "prep" /\ (q_buf_empty(q_wbuf(tx)) \/ reuse_wbuf)

\* A packet is built and its buffer consumed.
Build ==
  /\ building /\ built < MaxBuilt
  /\ built' = built + 1
  /\ tx' = q_next_wbuf(q_buf_add(tx, built + 1))
  /\ reuse_wbuf' = FALSE
  /\ ready' = ready + 1
  /\ UNCHANGED <<pc, ring_sent, failed>>

\* The last Initial packet is built: its buffer is kept for a Handshake packet.
BuildAndKeep ==
  /\ building /\ ~reuse_wbuf /\ built < MaxBuilt
  /\ built' = built + 1
  /\ tx' = q_buf_add(tx, built + 1)
  /\ reuse_wbuf' = TRUE
  /\ UNCHANGED <<pc, ring_sent, ready, failed>>

\* -1: no room left in the buffer that was kept.
BuildNoRoom ==
  /\ building /\ reuse_wbuf
  /\ tx' = q_next_wbuf(tx)
  /\ reuse_wbuf' = FALSE
  /\ ready' = ready + 1
  /\ UNCHANGED <<pc, built, ring_sent, failed>>

\* -1 with an empty buffer: no memory for a frame, the buffer is skipped.  Only
\* qc_prep_hdshk_pkts() goes on; after the other one, qc_do_hdshk() stops there
\* and quic_conn_io_cb() sends.
BuildNoFrame ==
  /\ building /\ ~reuse_wbuf
  /\ failed' = failed \cup {"nofrm"}
  /\ tx' = q_next_wbuf(tx)
  /\ pc' \in {"prep", "idle", "send"}
  /\ UNCHANGED <<reuse_wbuf, built, ring_sent, ready>>

\* -2: no memory for the packet, or it cannot be encrypted.
BuildNoPacket ==
  /\ building
  /\ failed' = failed \cup {"nopkt"}
  /\ pc' \in {"idle", "send"}
  /\ reuse_wbuf' = FALSE
  /\ UNCHANGED <<tx, built, ring_sent, ready>>

\* A mutation of EndPrep: the buffer kept is not consumed.
EndPrep_keep ==
  /\ pc = "prep"
  /\ pc' = "send"
  /\ reuse_wbuf' = FALSE
  /\ UNCHANGED <<tx, built, ring_sent, ready, failed>>

EndPrep ==
  /\ pc = "prep"
  /\ pc' = "send"
  /\ reuse_wbuf' = FALSE
  /\ tx' = IF reuse_wbuf THEN q_next_wbuf(tx) ELSE tx
  /\ ready' = IF reuse_wbuf THEN ready + 1 ELSE ready
  /\ UNCHANGED <<built, ring_sent, failed>>

Send ==
  /\ pc = "send" /\ ~q_buf_empty(q_rbuf(tx))
  /\ ring_sent' = ring_sent + Len(q_rbuf(tx))
  /\ tx' = q_buf_sent(tx)
  /\ ready' = ready - 1
  /\ UNCHANGED <<pc, reuse_wbuf, built, failed>>

\* The next buffer is empty, or the datagram could not be sent.
EndSend ==
  /\ pc = "send"
  /\ \/ q_buf_empty(q_rbuf(tx)) /\ UNCHANGED failed
     \/ ~q_buf_empty(q_rbuf(tx)) /\ failed' = failed \cup {"send"}
  /\ pc' = "idle"
  /\ UNCHANGED <<tx, reuse_wbuf, built, ring_sent, ready>>

RingNext ==
  \/ StartPrep \/ Build \/ BuildAndKeep \/ BuildNoRoom \/ BuildNoFrame \/ BuildNoPacket
  \/ EndPrep \/ Send \/ EndSend

RingSpec == RingInit /\ [][RingNext]_ringVars

\* A tasklet that runs goes on to its end.
FairSpec == RingSpec /\ WF_ringVars(EndPrep) /\ WF_ringVars(Send) /\ WF_ringVars(EndSend)
-----------------------------------------------------------------------------
\* The indexes of the reader and of the writer stay in the ring, and the buffers hold
\* packets that qc_prep_hdshk_pkts() built.
RingTypeOK ==
  /\ tx \in [bufs : [Bufs -> Seq(Nat)], rbuf : Bufs, wbuf : Bufs, nb_pto_dgrams : Nat]
  /\ pc \in {"idle", "prep", "send"}
  /\ reuse_wbuf \in BOOLEAN
  /\ built \in Nat /\ ring_sent \in Nat /\ ready \in Int
  /\ failed \subseteq {"nopkt", "nofrm", "send"}

\* No build has failed: the sends may have.
builds_ok == failed \subseteq {"send"}

\* The number of buffers from the one of the reader to <i>.
dist(i) == IF i >= tx.rbuf THEN i - tx.rbuf ELSE i - tx.rbuf + QUIC_CONN_TX_BUFS_NB

Contiguous ==
  /\ ready \in 0 .. QUIC_CONN_TX_BUFS_NB
  /\ dist(tx.wbuf) = ready \/ (ready = QUIC_CONN_TX_BUFS_NB /\ tx.wbuf = tx.rbuf)
  /\ reuse_wbuf => pc = "prep" /\ ready < QUIC_CONN_TX_BUFS_NB
  /\ \A i \in Bufs : tx.bufs[i] # <<>> <=> dist(i) < ready \/ (reuse_wbuf /\ i = tx.wbuf)

\* As long as no build fails, the buffers filled follow the one of the reader and
\* the one of the writer follows them: what q_next_wbuf(), q_next_rbuf() and their
\* callers have to keep, full rings and failed sends included.
RingContiguous == builds_ok => Contiguous

\* qc_send_ppkts(), which stops at the first empty buffer, leaves no packet behind
\* it in the ring as long as no build fails.
NothingLeftBehind ==
  builds_ok /\ pc # "prep" /\ q_buf_empty(q_rbuf(tx))
    => \A i \in Bufs : q_buf_empty(tx.bufs[i])

\* The datagrams are sent in the order of their construction as long as no build
\* fails: the packet at the head of the ring is the one after the last packet sent.
SentInOrder ==
  builds_ok /\ ~q_buf_empty(q_rbuf(tx)) => Head(q_rbuf(tx)) = ring_sent + 1

\* Whatever fails, the ring neither drops a packet nor sends it twice: the packets
\* built by qc_prep_hdshk_pkts() and not sent by qc_send_ppkts() are those it holds.
PacketsConserved ==
  built = ring_sent + MapThenSumSet(LAMBDA i : Len(tx.bufs[i]), Bufs)

\* All the packets built are sent in the end, unless something fails: no buffer kept
\* for coalescing by qc_prep_hdshk_pkts() is forgotten.
BuiltIsSent == built > ring_sent ~> built = ring_sent \/ failed # {}

\* What qc_prep_hdshk_pkts() builds, qc_send_ppkts() sends: each packet once, in order and
\* none left behind as long as no build fails, and all of them if nothing fails.
RingDelivers == /\ [](NothingLeftBehind /\ SentInOrder /\ PacketsConserved)
                /\ BuiltIsSent
=============================================================================
