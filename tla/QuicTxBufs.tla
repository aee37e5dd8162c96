----------------------------- MODULE QuicTxBufs -----------------------------
(***************************************************************************)
(* The ring of TX buffers of a QUIC connection (include/types/xprt_quic.h, *)
(* include/proto/xprt_quic.h) as operators on the record `tx':             *)
(*                                                                         *)
(*   bufs           the buffers, each one the sequence of the packets      *)
(*                  coalesced in it: one buffer is one UDP datagram        *)
(*   rbuf, wbuf     the indexes of the reader and of the writer            *)
(*   nb_pto_dgrams  the number of datagrams still to build to probe        *)
(***************************************************************************)
EXTENDS Integers, Sequences

CONSTANT QUIC_CONN_TX_BUFS_NB

ASSUME TxBufsAssumption == QUIC_CONN_TX_BUFS_NB \in Nat \ {0}

Bufs == 0 .. QUIC_CONN_TX_BUFS_NB - 1

\* (i + 1) & (QUIC_CONN_TX_BUFS_NB - 1), the number of buffers being a power of two.
next_buf(i) == IF i + 1 = QUIC_CONN_TX_BUFS_NB THEN 0 ELSE i + 1

tx_bufs_init == [bufs |-> [i \in Bufs |-> <<>>], rbuf |-> 0, wbuf |-> 0, nb_pto_dgrams |-> 0]

q_wbuf(tx) == tx.bufs[tx.wbuf]

q_rbuf(tx) == tx.bufs[tx.rbuf]

q_buf_empty(buf) == buf = <<>>

q_next_rbuf(tx) == [tx EXCEPT !.rbuf = next_buf(@)]

\* Mutations of q_next_wbuf(): the number of datagrams wraps around, the writer
\* goes the other way round.
q_next_wbuf_unchecked(tx) ==
  [tx EXCEPT !.wbuf = next_buf(@), !.nb_pto_dgrams = @ - 1]

q_next_wbuf_backwards(tx) ==
  [tx EXCEPT !.wbuf = (@ + QUIC_CONN_TX_BUFS_NB - 1) % QUIC_CONN_TX_BUFS_NB,
             !.nb_pto_dgrams = IF @ > 0 THEN @ - 1 ELSE 0]

q_next_wbuf(tx) ==
  [tx EXCEPT !.wbuf = next_buf(@), !.nb_pto_dgrams = IF @ > 0 THEN @ - 1 ELSE 0]

\* A packet is added to the writer's buffer.
q_buf_add(tx, pkt) == [tx EXCEPT !.bufs[tx.wbuf] = Append(@, pkt)]

\* q_buf_reset() of the buffer just sent, its packets being removed from its list,
\* then the reader moves on.
q_buf_sent(tx) == q_next_rbuf([tx EXCEPT !.bufs[tx.rbuf] = <<>>])
=============================================================================
