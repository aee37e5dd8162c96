----------------------------- MODULE SrvQueue ------------------------------
(***************************************************************************)
(* The slots of the servers of a backend and the queues of the streams     *)
(* that wait for one: src/queue.c, the assignment of a server and the      *)
(* connection attempts of src/backend.c, the release of a stream of        *)
(* src/stream.c, and what src/server.c does to the queues when a server    *)
(* goes down or up.                                                        *)
(*                                                                         *)
(* A stream is handled by process_stream() on some thread.  A handler is   *)
(* cut where another thread may come in: between a test of the counters of *)
(* a server and the addition to a queue or the reservation of a slot, and  *)
(* between the release of a slot and the handling of the queue.  What is   *)
(* done with the locks of the queues held is one step.                     *)
(***************************************************************************)
EXTENDS Integers, Sequences, FiniteSetsExt, SequencesExt

CONSTANTS QStreams,    \* streams, which are numbers
          QServers,
          QThreads,    \* numbers of threads to consider
          Maxconn,     \* [QServers -> Nat]: "maxconn", not zero here
          Minconn,     \* [QServers -> Nat]: "minconn"
          Fullconn,    \* "fullconn" of the backend
          Maxqueue,    \* "maxqueue", zero for none
          ConnRetries, \* "retries"
          RedispAfter, \* "option redispatch <interval>"
          Redisp,      \* PR_O_REDISP without PR_O_PERSIST
          NoSrv,       \* no server
          MaxQStreams  \* bound on the number of streams created

VARIABLES strm,      \* [QStreams -> stream], see no_stream
          pend,      \* [QStreams -> pendconn], see no_pend
          pendconns, \* [QServers \cup {NoSrv} -> Seq(QStreams)]: queues, NoSrv for the backend
          srv,       \* [QServers -> [served, cur_sess, up]]
          nbthread,  \* number of threads
          qpast      \* history: [created, dropped]

qVars == <<strm, pend, pendconns, srv, nbthread, qpast>>

no_stream == [st |-> "free", pc |-> "", target |-> NoSrv, assigned |-> FALSE, direct |-> FALSE,
              slot |-> NoSrv, cur |-> FALSE, retries |-> 0, woken |-> FALSE, exp |-> FALSE,
              abrt |-> FALSE]
no_pend == [srv |-> NoSrv, linked |-> FALSE, target |-> NoSrv,
            assigned |-> FALSE, direct |-> FALSE]

QInit ==
  /\ strm = [s \in QStreams |-> no_stream]
  /\ pend = [s \in QStreams |-> no_pend]
  /\ pendconns = [q \in QServers \cup {NoSrv} |-> <<>>]
  /\ srv = [v \in QServers |-> [served |-> 0, cur_sess |-> 0, up |-> TRUE]]
  /\ nbthread \in QThreads
  /\ qpast = [created |-> 0, dropped |-> {}]

\* A stream is handled by one thread until its handler is done.
Running == {s \in QStreams : strm[s].pc # ""}
CanStart(s) == strm[s].pc = "" /\ Cardinality(Running) < nbthread
-----------------------------------------------------------------------------
\* The state of the backend, for the operators that change several parts of it.
Backend == [strm |-> strm, pend |-> pend, pendconns |-> pendconns, srv |-> srv]
SetBackend(b) ==
  strm' = b.strm /\ pend' = b.pend /\ pendconns' = b.pendconns /\ srv' = b.srv

beconn(b) == Cardinality({s \in QStreams : b.strm[s].st # "free"})

srv_dynamic_maxconn(b, v) ==
  IF beconn(b) >= Fullconn \/ Minconn[v] = Maxconn[v] THEN Maxconn[v]
  ELSE Max({Minconn[v], (beconn(b) * Maxconn[v]) \div Fullconn})

pendconn_unlink(b, s) ==
  [b EXCEPT !.pend[s].linked = FALSE,
            !.pendconns[b.pend[s].srv] = SelectSeq(@, LAMBDA t : t # s)]

pendconn_cond_unlink(b, s) == IF b.pend[s].linked THEN pendconn_unlink(b, s) ELSE b

\* sess_change_server(s, NULL)
sess_drop_slot(b, s) ==
  LET v == b.strm[s].slot
  IN  IF v = NoSrv THEN b ELSE [b EXCEPT !.srv[v].served = @ - 1, !.strm[s].slot = NoSrv]

\* sess_change_server(s, v), or __stream_add_srv_conn() for the stream of another thread
sess_take_slot(b, s, v) == [b EXCEPT !.srv[v].served = @ + 1, !.strm[s].slot = v]

drop_curr_sess(b, s) ==
  IF b.strm[s].cur
  THEN [b EXCEPT !.strm[s].cur = FALSE, !.srv[b.strm[s].target].cur_sess = @ - 1] ELSE b

\* The first stream of the queue of the server, or of the backend if it has none.
\* Both queues are in the order of arrival here: the oldest one is not compared.
process_next_strm(b, v) ==
  LET q == IF b.pendconns[v] # <<>> THEN v ELSE NoSrv
      s == Head(b.pendconns[q])
      c == sess_take_slot(pendconn_unlink(b, s), s, v)
  IN  [c EXCEPT !.pend[s].assigned = TRUE, !.pend[s].target = v, !.strm[s].woken = TRUE]

has_next_strm(b, v) == b.pendconns[v] # <<>> \/ (b.srv[v].up /\ b.pendconns[NoSrv] # <<>>)

process_srv_queue(b, v) ==
  FoldLeft(LAMBDA c, i : IF c.srv[v].served < srv_dynamic_maxconn(c, v) /\ has_next_strm(c, v)
                         THEN process_next_strm(c, v) ELSE c,
           b, [i \in 1 .. Cardinality(QStreams) |-> i])

may_dequeue_tasks(b, v) ==
  /\ v # NoSrv
  /\ has_next_strm(b, v)
  /\ b.srv[v].cur_sess < srv_dynamic_maxconn(b, v)

\* "if (may_dequeue_tasks(srv)) process_srv_queue(srv)"
offer_slots(b, v) == IF may_dequeue_tasks(b, v) THEN process_srv_queue(b, v) ELSE b

goto(b, s, st, pc) == [b EXCEPT !.strm[s].st = st, !.strm[s].pc = pc]
-----------------------------------------------------------------------------
\* A request arrives, with a server from its cookie or not.  See SI_ST_INI.
NewStream(s, v) ==
  /\ s = Min({t \in QStreams : strm[t].st = "free"} \cup {s}) /\ strm[s].st = "free"
  /\ CanStart(s) /\ qpast.created < MaxQStreams
  /\ strm' = [strm EXCEPT ![s] = [no_stream EXCEPT !.st = "req", !.target = v, !.assigned = v # NoSrv,
                                    !.direct = v # NoSrv, !.retries = ConnRetries, !.pc = "req"]]
  /\ qpast' = [qpast EXCEPT !.created = @ + 1]
  /\ UNCHANGED <<pend, pendconns, srv, nbthread>>

\* The client goes away, the timer of the stream expires.
ClientAbort(s) ==
  /\ strm[s].st \in {"que", "con", "tar"} /\ strm[s].pc = "" /\ ~strm[s].abrt
  /\ strm' = [strm EXCEPT ![s].abrt = TRUE, ![s].woken = TRUE]
  /\ UNCHANGED <<pend, pendconns, srv, nbthread, qpast>>

StreamTimeout(s) ==
  /\ strm[s].st \in {"que", "tar"} /\ strm[s].pc = "" /\ ~strm[s].exp
  /\ strm' = [strm EXCEPT ![s].exp = TRUE, ![s].woken = TRUE]
  /\ UNCHANGED <<pend, pendconns, srv, nbthread, qpast>>

-----------------------------------------------------------------------------
\* back_handle_st_req(), with assign_server_and_queue().

room(v) == pendconns[v] = <<>> /\ srv[v].served < srv_dynamic_maxconn(Backend, v)

\* assign_server(): the load balancing takes any server with room, and avoids the
\* previous one if it can.  The stream has no slot to release: see SlotHolders.
AssignServer(s) ==
  LET usable == {v \in QServers : srv[v].up}
      cand   == {v \in usable : room(v)}
      best   == IF cand \ {strm[s].target} # {} THEN cand \ {strm[s].target} ELSE cand
  IN  /\ strm[s].pc = "req" /\ ~strm[s].assigned
      /\ \/ /\ usable = {}
            /\ strm' = [strm EXCEPT ![s].st = "clo", ![s].pc = "", ![s].target = NoSrv]
         \/ /\ usable # {} /\ cand = {}
            /\ strm' = [strm EXCEPT ![s].pc = "add", ![s].target = NoSrv]
         \/ \E v \in best : strm' = [strm EXCEPT ![s].target = v, ![s].assigned = TRUE]
      /\ UNCHANGED <<pend, pendconns, srv, nbthread, qpast>>

\* The stream has a server: it takes a slot, or waits, or is sent elsewhere or refused.
CheckServer(s) ==
  LET v == strm[s].target
  IN  /\ strm[s].pc = "req" /\ strm[s].assigned
      /\ strm' =
           IF room(v) THEN [strm EXCEPT ![s].pc = "take"]
           ELSE IF Maxqueue = 0 \/ Len(pendconns[v]) < Maxqueue THEN [strm EXCEPT ![s].pc = "add"]
           ELSE IF strm[s].direct /\ Redisp
           THEN [strm EXCEPT ![s].direct = FALSE, ![s].assigned = FALSE]
           ELSE [strm EXCEPT ![s].pc = "", ![s].st = "clo"]
      /\ UNCHANGED <<pend, pendconns, srv, nbthread, qpast>>

TakeSlot(s) ==
  /\ strm[s].pc = "take"
  /\ SetBackend(goto(sess_take_slot(Backend, s, strm[s].target), s, "ass", "conn"))
  /\ UNCHANGED <<nbthread, qpast>>

pendconn_add(s) ==
  LET q == IF strm[s].assigned THEN strm[s].target ELSE NoSrv
  IN  /\ strm[s].pc = "add"
      /\ pend' = [pend EXCEPT ![s] = [no_pend EXCEPT !.srv = q, !.linked = TRUE,
                                        !.assigned = strm[s].assigned, !.direct = strm[s].direct]]
      /\ pendconns' = [pendconns EXCEPT ![q] = Append(@, s)]
      /\ strm' = [strm EXCEPT ![s].st = "que", ![s].pc = "", ![s].exp = FALSE]
      /\ UNCHANGED <<srv, nbthread, qpast>>
-----------------------------------------------------------------------------
\* back_try_conn_req() and the states of a connection attempt.

\* The stream goes on with the server it was given, or with the load balancing.
resume(b, s) ==
  IF b.strm[s].assigned THEN goto(b, s, "ass", "conn") ELSE goto(b, s, "req", "req")

pendconn_dequeue(b, s) ==
  LET p == b.pend[s]
  IN  [b EXCEPT !.strm[s].target = IF p.target # NoSrv THEN p.target ELSE @,
                !.strm[s].assigned = p.assigned, !.strm[s].direct = p.direct,
                !.strm[s].exp = FALSE, !.pend[s] = no_pend]

\* The stream was queued and wakes up.
TryQueued(s) ==
  LET b == [Backend EXCEPT !.strm[s].woken = FALSE]
  IN  /\ CanStart(s) /\ strm[s].st = "que" /\ strm[s].woken
      /\ SetBackend(IF ~pend[s].linked THEN resume(pendconn_dequeue(b, s), s)
                    ELSE IF strm[s].exp \/ strm[s].abrt THEN goto(b, s, "que", "giveup")
                    ELSE b)
      /\ UNCHANGED <<nbthread, qpast>>

GiveUp(s) ==
  /\ strm[s].pc = "giveup"
  /\ SetBackend(goto(pendconn_cond_unlink(Backend, s), s, "clo", ""))
  /\ UNCHANGED <<nbthread, qpast>>

redispatch_now(left) ==
  LET m == IF RedispAfter > 0 THEN RedispAfter ELSE ConnRetries + 1 + RedispAfter
  IN  RedispAfter # 0 /\ (ConnRetries - left) % m = 0

stream_choose_redispatch(s, left) ==
  /\ Redisp
  /\ \/ ~srv[strm[s].target].up
     \/ redispatch_now(left)
     \/ ~strm[s].direct /\ Cardinality({v \in QServers : srv[v].up}) > 1

\* back_handle_st_cer(): the stream gives up, or retries on another server or on the
\* same one, possibly after a delay (SI_ST_TAR).
back_handle_st_cer(s) ==
  LET b    == drop_curr_sess(Backend, s)
      left == strm[s].retries - 1
      c    == [b EXCEPT !.strm[s].retries = left, !.strm[s].exp = FALSE]
      free == [sess_drop_slot(c, s) EXCEPT !.strm[s].direct = FALSE, !.strm[s].assigned = FALSE]
  IN  IF left < 0 THEN {goto(sess_drop_slot(b, s), s, "clo", "offer")}
      ELSE IF stream_choose_redispatch(s, left)
      THEN {goto(free, s, st, "offer") : st \in {"req", "tar"}}
      ELSE {goto(c, s, "ass", "conn"), goto(c, s, "tar", "")}

\* An attempt, unless the client has aborted.  It is in progress, or fails at once; the
\* slot is released if it cannot be retried.  It is not released by an abort.
TryConnect(s) ==
  /\ strm[s].pc = "conn"
  /\ \E b \in IF strm[s].abrt THEN {goto(Backend, s, "clo", "")}
              ELSE {[goto(Backend, s, "con", "") EXCEPT !.strm[s].cur = TRUE,
                                                        !.srv[strm[s].target].cur_sess = @ + 1],
                    goto(sess_drop_slot(Backend, s), s, "clo", "offer")}
                   \cup back_handle_st_cer(s) :
       SetBackend(b)
  /\ UNCHANGED <<nbthread, qpast>>

\* SI_ST_DIS: the connection is released.
disconnect(b, s) == goto(sess_drop_slot(drop_curr_sess(b, s), s), s, "clo", "offer")

\* The end of an attempt: abort of the client, success or failure.
HandleCon(s) ==
  /\ CanStart(s) /\ strm[s].st = "con"
  /\ \E b \in IF strm[s].abrt THEN {disconnect(Backend, s)}
              ELSE {goto(Backend, s, "est", "")} \cup back_handle_st_cer(s) :
       SetBackend([b EXCEPT !.strm[s].woken = FALSE])
  /\ UNCHANGED <<nbthread, qpast>>

Finish(s) ==
  /\ CanStart(s) /\ strm[s].st = "est"
  /\ SetBackend(disconnect(Backend, s))
  /\ UNCHANGED <<nbthread, qpast>>

\* The turn-around delay.  As for an attempt, an abort does not release the slot.
TurnAround(s) ==
  LET b == [Backend EXCEPT !.strm[s].woken = FALSE]
  IN  /\ CanStart(s) /\ strm[s].st = "tar" /\ strm[s].woken
      /\ SetBackend(IF strm[s].abrt THEN goto(b, s, "clo", "")
                    ELSE IF strm[s].exp THEN resume(b, s)
                    ELSE b)
      /\ UNCHANGED <<nbthread, qpast>>


\* After the release of a slot, those who wait are offered it.
OfferSlots(s) ==
  /\ strm[s].pc = "offer"
  /\ SetBackend(goto(offer_slots(Backend, strm[s].target), s, strm[s].st,
                     IF strm[s].st = "req" THEN "req" ELSE ""))
  /\ qpast' = [qpast EXCEPT !.dropped = @ \ {strm[s].target}]
  /\ UNCHANGED nbthread

\* stream_free(): the pendconn is freed, the queue of the server is looked at, then
\* the slot is released if the stream still has one.
FreeStream(s) ==
  LET v == strm[s].target
      b == drop_curr_sess(pendconn_cond_unlink(Backend, s), s)
      c == IF v = NoSrv THEN b ELSE offer_slots(b, v)
  IN  /\ CanStart(s) /\ strm[s].st = "clo"
      /\ SetBackend([sess_drop_slot(c, s) EXCEPT !.strm[s] = no_stream, !.pend[s] = no_pend])
      /\ qpast' = [qpast EXCEPT !.dropped = @ \cup ({strm[s].slot} \ {NoSrv})]
      /\ UNCHANGED nbthread
-----------------------------------------------------------------------------
\* srv_update_status(): a server goes down, and its streams are sent elsewhere.
pendconn_redistribute(b, v) ==
  IF ~Redisp THEN b
  ELSE FoldLeft(LAMBDA c, s : [pendconn_unlink(c, s) EXCEPT !.pend[s].assigned = FALSE,
                                                            !.pend[s].direct = FALSE,
                                                            !.strm[s].woken = TRUE],
                b, b.pendconns[v])

SrvDown(v) ==
  /\ srv[v].up /\ Cardinality(Running) < nbthread
  /\ SetBackend(pendconn_redistribute([Backend EXCEPT !.srv[v].up = FALSE], v))
  /\ UNCHANGED <<nbthread, qpast>>

\* A server goes up, and takes as many streams of the backend as it has slots.  They
\* are not given the slots: they go through the load balancing again.
pendconn_grab_from_px(b, v) ==
  LET n == Max({0, srv_dynamic_maxconn(b, v) - b.srv[v].served})
      q == b.pendconns[NoSrv]
  IN  FoldLeft(LAMBDA c, s : [pendconn_unlink(c, s) EXCEPT !.pend[s].target = v, !.strm[s].woken = TRUE],
               b, SubSeq(q, 1, Min({n, Len(q)})))

SrvUp(v) ==
  /\ ~srv[v].up /\ Cardinality(Running) < nbthread
  /\ SetBackend(pendconn_grab_from_px([Backend EXCEPT !.srv[v].up = TRUE], v))
  /\ UNCHANGED <<nbthread, qpast>>

StreamStep(s) ==
  \/ AssignServer(s) \/ CheckServer(s) \/ TakeSlot(s) \/ pendconn_add(s)
  \/ TryQueued(s) \/ GiveUp(s) \/ TryConnect(s) \/ HandleCon(s) \/ TurnAround(s)
  \/ Finish(s) \/ OfferSlots(s) \/ FreeStream(s)

QNext ==
  \/ \E s \in QStreams : \/ \E v \in QServers \cup {NoSrv} : NewStream(s, v)
                         \/ ClientAbort(s) \/ StreamTimeout(s) \/ StreamStep(s)
  \/ \E v \in QServers : SrvDown(v) \/ SrvUp(v)

QSpec == QInit /\ [][QNext]_qVars
-----------------------------------------------------------------------------
\* The states of the streams, the queues of assign_server_and_queue() and the counters
\* of the servers keep their types.
QTypeOK ==
  /\ \A s \in QStreams : strm[s].st \in {"free", "req", "que", "ass", "con", "tar", "est", "clo"}
  /\ \A q \in DOMAIN pendconns : pendconns[q] \in Seq(QStreams)
  /\ \A v \in QServers : srv[v].served \in Nat /\ srv[v].cur_sess \in Nat

\* served and cur_sess of a server are exact, although sess_change_server() is called
\* from half a dozen places and pendconn_process_next_strm() takes a slot on behalf of
\* a stream which another thread may be handling.
SlotsExact ==
  \A v \in QServers :
    /\ srv[v].served = Cardinality({s \in QStreams : strm[s].slot = v})
    /\ srv[v].cur_sess = Cardinality({s \in QStreams : strm[s].cur /\ strm[s].target = v})

\* A stream that goes through the load balancing, or was released, has no slot.
SlotHolders ==
  \A s \in QStreams : strm[s].slot # NoSrv =>
    \/ strm[s].assigned /\ strm[s].slot = strm[s].target /\ strm[s].st \in {"ass", "con", "tar", "est", "clo"}
    \/ ~pend[s].linked /\ pend[s].target = strm[s].slot /\ strm[s].st \in {"que", "clo"}

\* A stream is in the queue its pendconn tells and nowhere else, once, as long as it is
\* linked; a stream that is released is in none.
QueuesExact ==
  \A s \in QStreams, q \in DOMAIN pendconns :
    Cardinality({i \in DOMAIN pendconns[q] : pendconns[q][i] = s})
      = IF pend[s].linked /\ pend[s].srv = q /\ strm[s].st \in {"que", "clo"} THEN 1 ELSE 0

\* A stream which pendconn_process_next_strm(), pendconn_redistribute() or
\* pendconn_grab_from_px() has removed from its queue is always about to run.
UnlinkedAwake ==
  \A s \in QStreams : strm[s].st = "que" /\ ~pend[s].linked => strm[s].woken \/ strm[s].pc # ""

\* assign_server_and_queue() tests "served" before it increments it, without a lock:
\* a server gets more connections than its maxconn only by as many as other threads
\* can be in between.
MaxconnKept == \A v \in QServers : srv[v].served <= Maxconn[v] + nbthread - 1

QQuiet == \A s \in QStreams : ~strm[s].woken /\ strm[s].pc = "" /\ strm[s].st # "clo"

LeftUnserved(v) ==
  /\ srv[v].up
  /\ srv[v].served < srv_dynamic_maxconn(Backend, v)
  /\ pendconns[v] # <<>> \/ pendconns[NoSrv] # <<>>

\* With one thread, a stream is left in a queue in front of a free slot for one reason
\* only: stream_free() has released the slot after it had looked at the queue.
UnservedReason ==
  QQuiet /\ nbthread = 1 => \A v \in QServers : LeftUnserved(v) => v \in qpast.dropped

=============================================================================
