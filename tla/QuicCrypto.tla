----------------------------- MODULE QuicCrypto -----------------------------
(***************************************************************************)
(* The CRYPTO streams of a QUIC connection (src/xprt_quic.c), seen from    *)
(* both ends.  The sender keeps the data of its TLS stack in buffers, cuts *)
(* it into frames as packets are built, and sends the frames of the lost   *)
(* packets again.  The receiver, which runs the same code, gives the data  *)
(* to its TLS stack in order and keeps the frames that come too early.     *)
(*                                                                         *)
(* The network loses, delays, repeats and reorders packets.  The moments a *)
(* packet is declared lost, a probe timeout occurs and an ACK frame must   *)
(* be sent are open here: QuicRecovery says when they come.                *)
(***************************************************************************)
EXTENDS Integers, Sequences, FiniteSetsExt, SequencesExt

CONSTANTS CryptoLevels,      \* encryption levels
          CryptoData,        \* [CryptoLevels -> Nat]: bytes of each stream
          CryptoBufSz,       \* QUIC_CRYPTO_BUF_SZ
          CryptoInFlightMax, \* QUIC_CRYPTO_IN_FLIGHT_MAX
          CryptoHdrLen,      \* length of the header of a CRYPTO frame
          CryptoLastLevel,   \* the level that is not discarded
          CryptoRooms,       \* room for the frames of a packet
          NbPtoDgrams,       \* QUIC_MAX_NB_PTO_DGRAMS
          SizeT,             \* modulus of a size_t
          MaxCryptoPkts,     \* bound on the number of packets
          MaxProbes,         \* bound on the number of probe timeouts
          MaxKept            \* bound on the frames a receiver keeps

VARIABLES txc,           \* [level -> [bufs, frms, provided]]: the sender
          txpkts,        \* packets built, neither acknowledged nor lost
          ifcdata,       \* CRYPTO data in flight
          nb_pto_dgrams, \* datagrams to send upon a probe timeout
          wire,          \* packets sent
          rxc,           \* [level -> [offset, frms, given]]: the receiver
          rxpns,         \* numbers of the packets received
          cpast          \* history: packets built, probes, bytes discarded, failures

cryptoVars == <<txc, txpkts, ifcdata, nb_pto_dgrams, wire, rxc, rxpns, cpast>>

CryptoInit ==
  /\ txc = [l \in CryptoLevels |-> [bufs |-> <<<<>>>>, frms |-> <<>>, provided |-> 0, live |-> TRUE]]
  /\ txpkts = {} /\ ifcdata = 0 /\ nb_pto_dgrams = 0
  /\ wire = {} /\ rxpns = {}
  /\ rxc = [l \in CryptoLevels |-> [offset |-> 0, frms |-> <<>>, given |-> <<>>]]
  /\ cpast = [built |-> 0, probes |-> 0, dropped |-> 0, failed |-> FALSE]

-----------------------------------------------------------------------------
\* The sender.

crypto_sz(bufs) == (Len(bufs) - 1) * CryptoBufSz + Len(Last(bufs))

\* The buffers after one more byte; <mem> is the number of buffers that can still
\* be allocated.
add_byte(c, byte) ==
  IF Len(Last(c.bufs)) < CryptoBufSz
  THEN [c EXCEPT !.bufs[Len(c.bufs)] = Append(@, byte)]
  ELSE IF c.mem > 0 THEN [c EXCEPT !.bufs = Append(@, <<byte>>), !.mem = @ - 1]
  ELSE c

quic_crypto_data_cpy(bufs, from, len, mem) ==
  FoldLeft(add_byte, [bufs |-> bufs, mem |-> mem], [i \in 1 .. len |-> from + i - 1]).bufs

\* The TLS stack provides <len> bytes.  It provides nothing more after a failure.
AddHandshakeData(l, len, mem) ==
  LET c    == txc[l]
      bufs == quic_crypto_data_cpy(c.bufs, c.provided, len, mem)
      all  == crypto_sz(bufs) = crypto_sz(c.bufs) + len
      frm  == [offset |-> crypto_sz(c.bufs), len |-> len]
  IN  /\ ~cpast.failed
      /\ c.provided + len <= CryptoData[l]
      /\ txc' = [txc EXCEPT ![l].bufs = bufs, ![l].provided = @ + len,
                            ![l].frms = IF all THEN Append(@, frm) ELSE @]
      /\ cpast' = [cpast EXCEPT !.failed = ~all]
      /\ UNCHANGED <<txpkts, ifcdata, nb_pto_dgrams, wire, rxc, rxpns>>

max_stream_data_size(sz, ilen, dlen) == Max({0, Min({sz - ilen, dlen})})

\* One CRYPTO frame is put in the packet, or a part of it, or nothing.
add_cfrm(a, cf, room) ==
  LET dlen == Min({a.max, max_stream_data_size(room, a.len + CryptoHdrLen, cf.len)})
  IN  IF dlen = 0 THEN [a EXCEPT !.rest = Append(@, cf)]
      ELSE [max  |-> a.max - dlen,
            len  |-> a.len + CryptoHdrLen + dlen,
            pkt  |-> Append(a.pkt, [cf EXCEPT !.len = dlen]),
            rest |-> IF dlen = cf.len THEN a.rest
                     ELSE Append(a.rest, [offset |-> cf.offset + dlen, len |-> cf.len - dlen])]

max_cdata_len(room) ==
  IF nb_pto_dgrams > 0 THEN room ELSE (CryptoInFlightMax - ifcdata) % SizeT

qc_build_cfrms(frms, room) ==
  FoldLeft(LAMBDA a, cf : add_cfrm(a, cf, room),
           [max |-> max_cdata_len(room), len |-> 0, pkt |-> <<>>, rest |-> <<>>], frms)

cdata_len(frms) == FoldLeft(LAMBDA n, f : n + f.len, 0, frms)

\* A mutation of frame_data: a frame is read from one buffer only.
frame_data_onebuf(bufs, f) ==
  LET buf == bufs[(f.offset \div CryptoBufSz) + 1]
  IN  [i \in 1 .. f.len |-> buf[(((f.offset % CryptoBufSz) + i - 1) % Len(buf)) + 1]]

\* The bytes of a frame, possibly from several buffers; see quic_build_crypto_frame().
frame_data(bufs, f) ==
  [i \in 1 .. f.len |-> LET o == f.offset + i - 1
                        IN  bufs[(o \div CryptoBufSz) + 1][(o % CryptoBufSz) + 1]]

must_build(l, ack) ==
  /\ txc[l].live
  /\ ack \/ nb_pto_dgrams > 0 \/ (txc[l].frms # <<>> /\ ifcdata < CryptoInFlightMax)

pto_dgram_built == nb_pto_dgrams' = Max({0, nb_pto_dgrams - 1})

\* qc_prep_hdshk_pkts() builds a packet and qc_send_ppkts() sends it.  <ack> tells
\* whether an ACK frame is required.
BuildPkt(l, room, ack) ==
  LET b   == qc_build_cfrms(txc[l].frms, room)
      pn  == cpast.built + 1
      pkt == [lvl |-> l, pn |-> pn, frms |-> b.pkt]
  IN  /\ must_build(l, ack) /\ cpast.built < MaxCryptoPkts
      /\ b.pkt # <<>>
      /\ txc' = [txc EXCEPT ![l].frms = b.rest]
      /\ txpkts' = txpkts \cup {pkt}
      /\ ifcdata' = (ifcdata + cdata_len(b.pkt)) % SizeT
      /\ pto_dgram_built
      /\ wire' = wire \cup
           {[lvl |-> l, pn |-> pn,
             frms |-> [i \in DOMAIN b.pkt |-> [offset |-> b.pkt[i].offset,
                                               data |-> frame_data(txc[l].bufs, b.pkt[i])]]]}
      /\ cpast' = [cpast EXCEPT !.built = pn]
      /\ UNCHANGED <<rxc, rxpns>>

\* A packet without CRYPTO frame: a probe, or nothing but an ACK frame.
BuildOther(l) ==
  /\ must_build(l, FALSE) /\ txc[l].frms = <<>>
  /\ pto_dgram_built
  /\ UNCHANGED <<txc, txpkts, ifcdata, wire, rxc, rxpns, cpast>>

\* No memory for the second part of a frame: the packet and its frames are freed.
\* The frames left are those that were not moved to the packet.
BuildPktNoMem(l, room) ==
  LET b    == qc_build_cfrms(txc[l].frms, room)
      cut  == {i \in DOMAIN txc[l].frms : b.rest # <<>> /\ txc[l].frms[i].offset < Head(b.rest).offset
                                            /\ Head(b.rest).offset < txc[l].frms[i].offset + txc[l].frms[i].len}
  IN  /\ must_build(l, FALSE) /\ ~cpast.failed
      /\ \E i \in cut : txc' = [txc EXCEPT ![l].frms = SubSeq(@, i, Len(@))]
      /\ cpast' = [cpast EXCEPT !.failed = TRUE]
      /\ pto_dgram_built
      /\ UNCHANGED <<txpkts, ifcdata, wire, rxc, rxpns>>

qc_treat_acked_tx_frms(pkt) == ifcdata' = (ifcdata - cdata_len(pkt.frms)) % SizeT

\* Each frame is put at the head of the list of the frames to send.
qc_treat_nacked_tx_frms(pkt) ==
  /\ txc' = [txc EXCEPT ![pkt.lvl].frms = Reverse(pkt.frms) \o @]
  /\ ifcdata' = (ifcdata - cdata_len(pkt.frms)) % SizeT

AckPkt(pkt) ==
  /\ pkt.pn \in rxpns
  /\ txpkts' = txpkts \ {pkt}
  /\ qc_treat_acked_tx_frms(pkt)
  /\ UNCHANGED <<txc, nb_pto_dgrams, wire, rxc, rxpns, cpast>>

LosePkt(pkt) ==
  /\ txpkts' = txpkts \ {pkt}
  /\ qc_treat_nacked_tx_frms(pkt)
  /\ UNCHANGED <<nb_pto_dgrams, wire, rxc, rxpns, cpast>>

\* process_timer(): a probe timeout.
ProbeTimeout ==
  /\ txpkts # {} /\ cpast.probes < MaxProbes
  /\ nb_pto_dgrams' = NbPtoDgrams
  /\ cpast' = [cpast EXCEPT !.probes = @ + 1]
  /\ UNCHANGED <<txc, txpkts, ifcdata, wire, rxc, rxpns>>

\* quic_pktns_discard(): the packets of the level and their frames are freed.  What
\* they hold is still counted in flight.
DiscardLevel(l) ==
  LET gone == {p \in txpkts : p.lvl = l}
  IN  /\ txc[l].live /\ l # CryptoLastLevel
      /\ txc' = [txc EXCEPT ![l].live = FALSE]
      /\ txpkts' = txpkts \ gone
      /\ cpast' = [cpast EXCEPT !.dropped = @ + MapThenSumSet(LAMBDA p : cdata_len(p.frms), gone)]
      /\ UNCHANGED <<ifcdata, nb_pto_dgrams, wire, rxc, rxpns>>

-----------------------------------------------------------------------------
\* The receiver.

\* A mutation of qc_provide_cdata: the offset is not advanced.
provide_same_offset(r, f) == [r EXCEPT !.given = @ \o f.data]

qc_provide_cdata(r, f) ==
  [r EXCEPT !.offset = @ + Len(f.data), !.given = @ \o f.data]

\* Frames of the same offset are kept in their order of arrival.
eb64_insert(tree, f) ==
  LET n == Cardinality({i \in DOMAIN tree : tree[i].offset <= f.offset})
  IN  SubSeq(tree, 1, n) \o <<f>> \o SubSeq(tree, n + 1, Len(tree))

\* A CRYPTO frame of a packet is parsed; see qc_parse_pkt_frms().
parse_crypto_frm(r, f) ==
  IF f.offset # r.offset THEN [r EXCEPT !.frms = eb64_insert(@, f)] ELSE qc_provide_cdata(r, f)

\* The walk of the tree stops at the first frame that is not the next one.
treat_next(r, f) ==
  IF r.frms # <<>> /\ Head(r.frms).offset = r.offset
  THEN qc_provide_cdata([r EXCEPT !.frms = Tail(@)], Head(r.frms)) ELSE r

qc_treat_rx_crypto_frms(r) == FoldLeft(treat_next, r, r.frms)

\* qc_treat_rx_pkts() treats the packets that have arrived, in the order of their
\* numbers, and then the frames that were kept.
TreatRxPkts(l, batch) ==
  LET pkts == SetToSortSeq(batch, LAMBDA p, q : p.pn < q.pn)
      frms == FoldLeft(LAMBDA s, p : s \o p.frms, <<>>, pkts)
  IN  /\ rxc' = [rxc EXCEPT ![l] = qc_treat_rx_crypto_frms(FoldLeft(parse_crypto_frm, @, frms))]
      /\ Len(rxc'[l].frms) <= MaxKept
      /\ rxpns' = rxpns \cup {p.pn : p \in batch}
      /\ UNCHANGED <<txc, txpkts, ifcdata, nb_pto_dgrams, wire, cpast>>

\* No memory to keep the last frame of a packet: it is dropped and not acknowledged,
\* but its other frames were treated.
TreatRxPktNoMem(p) ==
  LET r == FoldLeft(parse_crypto_frm, rxc[p.lvl], Front(p.frms))
  IN  /\ ~cpast.failed
      /\ Last(p.frms).offset # r.offset
      /\ rxc' = [rxc EXCEPT ![p.lvl] = qc_treat_rx_crypto_frms(r)]
      /\ cpast' = [cpast EXCEPT !.failed = TRUE]
      /\ UNCHANGED <<txc, txpkts, ifcdata, nb_pto_dgrams, wire, rxpns>>

CryptoNext ==
  \/ \E l \in CryptoLevels :
       \/ \E len \in 1 .. CryptoData[l], mem \in {0, CryptoData[l]} : AddHandshakeData(l, len, mem)
       \/ \E room \in CryptoRooms, ack \in BOOLEAN : BuildPkt(l, room, ack)
       \/ \E room \in CryptoRooms : BuildPktNoMem(l, room)
       \/ BuildOther(l) \/ DiscardLevel(l)
       \/ \E batch \in kSubset(1, {p \in wire : p.lvl = l}) \cup kSubset(2, {p \in wire : p.lvl = l}) :
            TreatRxPkts(l, batch)
  \/ \E pkt \in txpkts : AckPkt(pkt) \/ LosePkt(pkt)
  \/ \E pkt \in wire : TreatRxPktNoMem(pkt)
  \/ ProbeTimeout

CryptoSpec == CryptoInit /\ [][CryptoNext]_cryptoVars
-----------------------------------------------------------------------------
\* The frames of qc_build_cfrms() are not empty and stay in the data the TLS stack gave,
\* the buffers of quic_crypto_data_cpy() in their size, the counters in theirs.
CryptoTypeOK ==
  /\ \A l \in CryptoLevels :
       /\ txc[l].provided \in 0 .. CryptoData[l]
       /\ \A i \in DOMAIN txc[l].bufs : Len(txc[l].bufs[i]) <= CryptoBufSz
       /\ \A f \in Range(txc[l].frms) : f.offset + f.len \in 1 .. CryptoData[l] /\ f.len > 0
       /\ rxc[l].offset \in 0 .. CryptoData[l]
  /\ ifcdata \in 0 .. SizeT - 1
  /\ nb_pto_dgrams \in 0 .. NbPtoDgrams

Stream == INSTANCE ByteStream
            WITH Levels <- CryptoLevels,
                 sent   <- [l \in CryptoLevels |-> txc[l].provided],
                 given  <- [l \in CryptoLevels |-> rxc[l].given]

\* The CRYPTO stream of a level is a stream: the TLS stack of the receiver is given
\* the bytes of the other one in order, whatever is lost, repeated, reordered, cut
\* again or kept by quic_crypto_data_cpy(), qc_build_cfrms() and
\* qc_treat_rx_crypto_frms().
ImplementsByteStream == Stream!Spec

\* The data in flight counted by qc_build_hdshk_pkt(), qc_treat_acked_tx_frm() and
\* qc_treat_nacked_tx_frm() are those of the packets in flight, plus what
\* quic_pktns_discard() has left counted: nothing is counted twice or forgotten.
CryptoInFlight ==
  ifcdata = MapThenSumSet(LAMBDA p : cdata_len(p.frms), txpkts) + cpast.dropped

\* The limit on CRYPTO data in flight is kept as long as no probe was sent.
CryptoLimit == cpast.probes = 0 => ifcdata <= CryptoInFlightMax

\* No byte is forgotten by the sender: until it was received, each byte of a level is
\* in a frame that waits or in a packet in flight, unless an allocation has failed.
CryptoCovered ==
  ~cpast.failed =>
    \A l \in CryptoLevels : txc[l].live =>
      \A b \in 0 .. txc[l].provided - 1 :
        \/ \E f \in Range(txc[l].frms) \cup UNION {Range(p.frms) : p \in {q \in txpkts : q.lvl = l}} :
             b \in f.offset .. f.offset + f.len - 1
        \/ \E p \in wire : p.lvl = l /\ p.pn \in rxpns /\
             \E f \in Range(p.frms) : b \in Range(f.data)

\* A frame that can be given to the TLS stack is kept by qc_treat_rx_crypto_frms()
\* only behind frames whose data was already received.
KeptBehindOld ==
  \A l \in CryptoLevels : \A f \in Range(rxc[l].frms) :
    f.offset = rxc[l].offset => Head(rxc[l].frms).offset < rxc[l].offset

\* CRYPTO data reach the other TLS stack in order and are not forgotten by the sender, with
\* exact counts of what is in flight, until their space is discarded.
CryptoDelivered == /\ ImplementsByteStream
                   /\ [](CryptoTypeOK /\ CryptoInFlight /\ CryptoLimit)
                   /\ [](CryptoCovered /\ KeptBehindOld)
=============================================================================
