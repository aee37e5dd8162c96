---------------------------- MODULE QuicReceive ----------------------------
(***************************************************************************)
(* The packets a QUIC listener receives for one of its connections         *)
(* (src/xprt_quic.c).  The handler of the socket puts each packet of a     *)
(* datagram in the tree of its encryption level, or in a list if the keys  *)
(* of this level are not available yet.  The I/O tasklet of the connection *)
(* treats both, level after level.  A packet object is shared by reference *)
(* counting: its creator, the list or the tree, and each CRYPTO frame that *)
(* came too early and points into it.                                      *)
(*                                                                         *)
(* CRYPTO frames have all the same length here, so that an offset is a     *)
(* rank.  Both handlers run on one thread.  The TLS stack is external: it  *)
(* may give the keys of the last level to a server with the ClientHello,   *)
(* or at the end of the handshake only.                                    *)
(***************************************************************************)
EXTENDS Integers, Sequences, FiniteSetsExt, SequencesExt

CONSTANTS RxCHLen,   \* CRYPTO frames of a ClientHello
          RxFinLen,  \* CRYPTO frames that complete the handshake
          RxDgrams,  \* datagrams: sequences of [type, pn, crypto, cid] records
          RxEarlyKeys, \* TLS stacks: those that give the last keys early
          MaxRx,     \* bound on the number of packets received
          MaxRxFail  \* bound on the failures

VARIABLES rxq,       \* the connection: [state, el, ref], see RxInit
          rxrun,     \* <<level treated, next level>> of qc_do_hdshk(), or <<>>
          rxwoken,   \* the tasklet of the connection is scheduled
          rxpast     \* history: [failed, straight]

rxVars == <<rxq, rxrun, rxwoken, rxpast>>

\* FoldLeft with its arguments and the state of each step evaluated once, however
\* many times op refers to it.
FoldStep(op(_, _), base, seq) ==
  CHOOSE res \in {FoldLeft(LAMBDA st, x : CHOOSE r \in {op(v, x) : v \in {st}} : TRUE, b, s)
                    : b \in {base}, s \in {seq}} : TRUE

RxLevels == {"initial", "handshake", "app"}
RxStates == <<"server_initial", "server_handshake", "complete", "confirmed">>
rx_state_num(s) == CHOOSE i \in DOMAIN RxStates : RxStates[i] = s
rx_complete(c) == rx_state_num(c.state) >= rx_state_num("complete")

RxInit ==
  /\ \E early \in RxEarlyKeys :
     rxq = [state |-> "server_initial", ref |-> <<>>, early |-> early,
            el |-> [l \in RxLevels |->
                      [keys |-> IF l = "initial" THEN {"set"} ELSE {},
                       pqpkts |-> <<>>, pkts |-> <<>>, offset |-> 0, frms |-> <<>>]]]
  /\ rxrun = <<>>
  /\ rxwoken = FALSE
  /\ rxpast = [failed |-> 0, straight |-> FALSE]

refinc(c, id) == [c EXCEPT !.ref[id] = @ + 1]
refdec(c, id) == [c EXCEPT !.ref[id] = @ - 1]

insert_sorted(seq, x, key(_)) ==
  LET n == Cardinality({i \in DOMAIN seq : key(seq[i]) <= key(x)})
  IN  SubSeq(seq, 1, n) \o <<x>> \o SubSeq(seq, n + 1, Len(seq))

rx_pkts_insert(c, p) ==
  refinc([c EXCEPT !.el[p.type].pkts = insert_sorted(@, p, LAMBDA q : q.pn)], p.id)

-----------------------------------------------------------------------------
\* The handler of the socket.

rx_can_rm_hp(c, p) ==
  "set" \in c.el[p.type].keys /\ (p.type # "app" \/ rx_complete(c))

qc_try_rm_hp(c, p) ==
  IF rx_can_rm_hp(c, p) THEN rx_pkts_insert(c, p)
  ELSE refinc([c EXCEPT !.el[p.type].pqpkts = Append(@, p)], p.id)

\* One packet of a datagram.  <a> is the connection, the identifier of the first
\* packet, and whether a packet was refused: its end is then unknown and the reading
\* stops there.
qc_lstnr_pkt_rcv(a, pkt) ==
  LET id == Len(a.c.ref) + 1
      c  == [a.c EXCEPT !.ref = Append(@, 1)]
      p  == [id |-> id, type |-> pkt.type, pn |-> pkt.pn, crypto |-> pkt.crypto, dec |-> FALSE]
  IN  IF a.stop THEN a
      ELSE IF pkt.cid # a.cid \/ "dcd" \in c.el[p.type].keys
      THEN [a EXCEPT !.c = refdec(c, id), !.stop = TRUE]
      ELSE [a EXCEPT !.c = qc_try_rm_hp(c, p), !.woken = TRUE]

quic_packets_read(dgram) ==
  FoldStep(qc_lstnr_pkt_rcv, [c |-> rxq, cid |-> dgram[1].cid, stop |-> FALSE, woken |-> rxwoken], dgram)

RecvDgram(dgram) ==
  /\ rxrun = <<>>
  /\ Len(rxq.ref) + Len(dgram) <= MaxRx
  /\ \E a \in {quic_packets_read(dgram)} : rxq' = a.c /\ rxwoken' = a.woken
  /\ UNCHANGED <<rxrun, rxpast>>

-----------------------------------------------------------------------------
\* The tasklet.

\* SSL_do_handshake(): the ClientHello gives the keys of the next level, the end of
\* the handshake those of the last one.
tls_do_handshake(c) ==
  IF c.state = "server_initial" /\ c.el["initial"].offset = RxCHLen /\ c.el["handshake"].keys = {}
  THEN [c EXCEPT !.el["handshake"].keys = {"set"},
                 !.el["app"].keys = IF c.early THEN {"set"} ELSE @]
  ELSE IF c.el["handshake"].offset = RxFinLen /\ ~rx_complete(c)
  THEN [c EXCEPT !.el["app"].keys = {"set"}, !.state = "confirmed"]
  ELSE c

rx_provide_cdata(c, l) == tls_do_handshake([c EXCEPT !.el[l].offset = @ + 1])


rx_parse_crypto(c, p) ==
  IF p.crypto = c.el[p.type].offset THEN rx_provide_cdata(c, p.type)
  ELSE refinc([c EXCEPT !.el[p.type].frms = insert_sorted(@, p, LAMBDA f : f.crypto)], p.id)

\* A server which has parsed a Handshake packet discards the Initial level.
rx_switch_to_handshake(c, p) ==
  IF c.state = "server_initial" /\ p.type = "handshake"
  THEN [c EXCEPT !.el["initial"].keys = @ \cup {"dcd"}, !.state = "server_handshake"]
  ELSE c

rx_parse_pkt_frms(c, p) ==
  rx_switch_to_handshake(IF p.crypto >= 0 THEN rx_parse_crypto(c, p) ELSE c, p)

\* A packet is decrypted in place, which succeeds only once.
rx_treat_pkt(c, p) ==
  LET d == IF p.dec THEN c ELSE rx_parse_pkt_frms(c, p)
  IN  refdec(refdec([d EXCEPT !.el[p.type].pkts = Tail(@)], p.id), p.id)

rx_treat_frm(c, f) ==
  LET el == c.el[f.type]
  IN  IF el.frms # <<>> /\ Head(el.frms).crypto = el.offset
      THEN refdec([rx_provide_cdata(c, f.type) EXCEPT !.el[f.type].frms = Tail(@)], Head(el.frms).id)
      ELSE c

rx_treat_crypto_frms(c, l) == FoldStep(rx_treat_frm, c, c.el[l].frms)

rx_treat_pkts(c, l) == rx_treat_crypto_frms(FoldStep(rx_treat_pkt, c, c.el[l].pkts), l)

\* The packets that were waiting for the keys.
rx_rm_hp_pkts(c, l) ==
  IF l = "app" /\ ~rx_complete(c) THEN c
  ELSE FoldStep(LAMBDA d, p : refdec(rx_pkts_insert([d EXCEPT !.el[l].pqpkts = Tail(@)], p), p.id),
                c, c.el[l].pqpkts)

\* A mutation of rx_pending: the list of protected packets is not looked at.
pending_tree(c, l) == c.el[l].pkts # <<>>

rx_pending(c, l) == c.el[l].pqpkts # <<>> \/ c.el[l].pkts # <<>>

first_level(c) == IF c.state = "server_initial" THEN "initial" ELSE "handshake"
next_level(l) == IF l = "initial" THEN "handshake" ELSE "app"

\* quic_conn_io_cb() during the handshake: qc_do_hdshk() starts.
StartHdshk ==
  /\ rxrun = <<>> /\ rxwoken /\ ~rx_complete(rxq)
  /\ rxwoken' = FALSE
  /\ rxrun' = <<first_level(rxq), next_level(first_level(rxq))>>
  /\ UNCHANGED <<rxq, rxpast>>

rx_unprotected(l) == IF "set" \in rxq.el[l].keys THEN rx_rm_hp_pkts(rxq, l) ELSE rxq

\* The packets of a level are treated, then those of the next one if there are any.
\* The keys of the Handshake level are discarded at the end.
HdshkLevel ==
  /\ rxrun # <<>>
  /\ \E c \in {rx_treat_pkts(rx_unprotected(rxrun[1]), rxrun[1])} :
     LET n == rxrun[2]
     IN  IF "set" \in c.el[n].keys /\ rx_pending(c, n)
         THEN /\ rxq' = c
              /\ rxrun' = <<n, n>>
              /\ UNCHANGED rxpast
         ELSE /\ rxq' = IF rx_complete(c) THEN [c EXCEPT !.el["handshake"].keys = @ \cup {"dcd"}] ELSE c
              /\ rxrun' = <<>>
              /\ rxpast' = [rxpast EXCEPT !.straight = @ \/ (rx_complete(c) /\ n = "handshake")]
  /\ UNCHANGED rxwoken

\* No memory for a range of numbers to acknowledge, after the frames of the first
\* packet were treated: it stays in the tree with the next ones.
HdshkNoMem ==
  /\ rxrun # <<>> /\ rxpast.failed < MaxRxFail
  /\ LET l == rxrun[1]
         c == rx_unprotected(l)
     IN  /\ c.el[l].pkts # <<>> /\ ~Head(c.el[l].pkts).dec
         /\ rxq' = [rx_parse_pkt_frms(c, Head(c.el[l].pkts)) EXCEPT !.el[l].pkts[1].dec = TRUE]
  /\ rxrun' = <<>>
  /\ rxpast' = [rxpast EXCEPT !.failed = @ + 1]
  /\ UNCHANGED rxwoken

\* quic_conn_io_cb() after the handshake.
TreatApp ==
  /\ rxrun = <<>> /\ rxwoken /\ rx_complete(rxq)
  /\ rxwoken' = FALSE
  /\ rxq' = rx_treat_pkts(rxq, "app")
  /\ UNCHANGED <<rxrun, rxpast>>

RxNext ==
  \/ \E dgram \in RxDgrams : RecvDgram(dgram)
  \/ StartHdshk \/ HdshkLevel \/ HdshkNoMem \/ TreatApp

RxSpec == RxInit /\ [][RxNext]_rxVars
RxFairness == WF_rxVars(StartHdshk) /\ WF_rxVars(HdshkLevel) /\ WF_rxVars(TreatApp)
-----------------------------------------------------------------------------
rx_lists(c) == {c.el[l].pqpkts : l \in RxLevels} \cup {c.el[l].pkts : l \in RxLevels}
occurrences(seq, id) == Cardinality({i \in DOMAIN seq : seq[i].id = id})

\* The connection state, the reference counts and the level qc_do_hdshk() is at keep
\* their types: no packet object is released more often than it was retained.
RxTypeOK ==
  /\ rxq.state \in Range(RxStates)
  /\ \A id \in DOMAIN rxq.ref : rxq.ref[id] \in Nat
  /\ \A l \in RxLevels : rxq.el[l].keys \subseteq {"set", "dcd"} /\ rxq.el[l].offset \in Nat
  /\ rxrun = <<>> \/ rxrun \in RxLevels \X RxLevels


\* "A server must not process incoming 1-RTT packets before the handshake is
\* complete": such a packet is not even unprotected, wherever it had to wait.
NoEarlyAppData == ~rx_complete(rxq) => rxq.el["app"].pkts = <<>>

\* When the tasklet is done, a packet of a level it can treat is left only if an
\* allocation has failed, if its keys are missing or must wait, or if the handshake was completed
\* while the tasklet was looking at the Initial level only.
NothingWaits ==
  rxrun = <<>> /\ ~rxwoken /\ rxpast.failed = 0 /\ ~rxpast.straight
    => \A l \in RxLevels :
         /\ rxq.el[l].pkts = <<>>
         /\ rxq.el[l].pqpkts # <<>> => rxq.el[l].keys = {} \/ (l = "app" /\ ~rx_complete(rxq))

\* qc_do_hdshk() ends: it does not treat its levels again for ever, although it does
\* so as long as the next level has packets.  This needs a TLS stack which gives the
\* last keys at the end of the handshake only.
HdshkEnds == (rxrun # <<>> /\ ~rxq.early) ~> rxrun = <<>>

\* A packet is treated when it may be, not before, and qc_do_hdshk() ends: however the packets
\* of the levels are coalesced, reordered and repeated, none waits for ever nor is looped on.
RxTreated == [](RxTypeOK /\ NoEarlyAppData /\ NothingWaits) /\ HdshkEnds
=============================================================================
