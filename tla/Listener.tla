------------------------------- MODULE Listener -------------------------------
(***************************************************************************)
(* Listeners of src/src/listener.c and what src/src/proxy.c and            *)
(* src/src/session.c do to them: accepting under the connection limits of  *)
(* the listener, of its frontend and of the process, the queues of limited *)
(* listeners and the tasks that empty them, the release of a connection,   *)
(* and pausing, resuming and stopping a frontend, on several threads.      *)
(*                                                                         *)
(* A section under the listener's lock, a compare-and-swap loop and an     *)
(* MT_LIST operation are one step each.  What a thread does to the three   *)
(* connection counters when it gives a connection back is one step.        *)
(* Rate limits are a choice: they may be reached at any time.              *)
(***************************************************************************)
EXTENDS Naturals, FiniteSets, Sequences, SequencesExt

CONSTANTS
    LThreads,       \* threads
    Listeners,      \* listening sockets
    Proxies,        \* frontends
    LProxy,         \* the frontend of each listener
    BindThread,     \* the threads each listener is bound to
    LMaxconn,       \* per-listener maxconn, 0 for none
    PMaxconn,       \* maxconn of a frontend
    GMaxconn,       \* maxconn of the process
    RateLimits,     \* the rates that are limited, of {"global", "proxy"}
    MaxAccept,      \* connections accepted per call of listener_accept()
    RingSize,       \* connections an accept queue holds
    MaxEvents       \* bound: calls of listener_accept(), pauses, resumes and stops

VARIABLES
    lst,            \* per listener: state, recv (the FD is polled), nbconn
    feconn,         \* connections of each frontend
    actconn,        \* connections of the process
    gq,             \* global_listener_queue
    pq,             \* listener_queue of each frontend
    lq,             \* local_listener_queue of each thread
    gtask,          \* global_listener_queue_task
    ptask,          \* the task of each frontend
    pxstate,        \* the state of each frontend
    conns,          \* established connections of each listener
    accq,           \* accept queue of each thread
    lthr,           \* what each thread is doing
    events,         \* calls of listener_accept(), pauses, resumes and stops so far
    lpast           \* history: the races that happened

lVars == <<lst, feconn, actconn, gq, pq, lq, gtask, ptask, pxstate, conns, accq, lthr, events, lpast>>
counts == <<feconn, actconn>>
lqueues == <<gq, pq, lq>>
tasks == <<gtask, ptask>>

resting == [pc |-> "idle", l |-> <<>>, nc |-> FALSE, nf |-> FALSE, na |-> FALSE,
            budget |-> 0, pop |-> <<>>, back |-> "idle", px |-> <<>>, left |-> {}]

LInit ==
    /\ lst = [l \in Listeners |-> [state |-> "READY", recv |-> TRUE, nbconn |-> 0]]
    /\ feconn = [p \in Proxies |-> 0]
    /\ actconn = 0
    /\ gq = <<>>
    /\ pq = [p \in Proxies |-> <<>>]
    /\ lq = [t \in LThreads |-> <<>>]
    /\ gtask = "none"
    /\ ptask = [p \in Proxies |-> "none"]
    /\ pxstate = [p \in Proxies |-> "READY"]
    /\ conns = [l \in Listeners |-> 0]
    /\ accq = [t \in LThreads |-> <<>>]
    /\ lthr = [t \in LThreads |-> resting]
    /\ events = 0
    /\ lpast = {}

states == <<"INIT", "ASSIGNED", "PAUSED", "LISTEN", "READY", "FULL", "LIMITED">>
rank(l) == CHOOSE i \in DOMAIN states : states[i] = lst[l].state
above(l, s) == \E i \in DOMAIN states : states[i] = s /\ rank(l) > i

at(t, pc) == lthr[t].pc = pc
go(t, pc) == lthr' = [lthr EXCEPT ![t].pc = pc]
mine(t) == lthr[t].l
front(t) == LProxy[mine(t)]

without(q, l) == SelectSeq(q, LAMBDA e : e # l)
queued(l) == \/ Contains(gq, l)
             \/ \E p \in Proxies : Contains(pq[p], l)
             \/ \E t \in LThreads : Contains(lq[t], l)

(* MT_LIST_DEL(&l->wait_queue): the listener leaves whichever queue it is in. *)
dequeue(l) == /\ gq' = without(gq, l)
              /\ pq' = [p \in Proxies |-> without(pq[p], l)]
              /\ lq' = [t \in LThreads |-> without(lq[t], l)]

set_state(l, s, r) == lst' = [lst EXCEPT ![l].state = s, ![l].recv = r]

(***************************************************************************)
(* A task that is scheduled is armed.  One that waits in the run queue is  *)
(* left alone (task_schedule() returns); one that is running is armed      *)
(* again, until its handler overwrites the date.                           *)
(***************************************************************************)
task_schedule(x) == CASE x \in {"none", "armed"} -> "armed"
                      [] x \in {"running", "rearmed"} -> "rearmed"
                      [] OTHER -> x
pending_date(x) == x \in {"armed", "rearmed"}

(***************************************************************************)
(* resume_listener(l), called by thread t, under the lock of the listener: *)
(* it fails (returns 0), has nothing to do, or reopens the listener, which *)
(* a thread the listener is not bound to leaves to one that is.            *)
(***************************************************************************)
resume_fails(l) ==
    /\ ~queued(l)
    /\ lst[l].state \in {"INIT", "ASSIGNED", "PAUSED"}
    /\ UNCHANGED <<lst, lqueues, lpast>>

resume_ok(t, l) ==
    IF queued(l) \/ lst[l].state = "READY"
    THEN UNCHANGED <<lst, lqueues, lpast>>
    ELSE /\ lst[l].state # "INIT"
         /\ lpast' = lpast \cup (IF lst[l].state = "ASSIGNED" THEN {"rebound"} ELSE {})
                           \cup (IF lst[l].state = "PAUSED" /\ ~at(t, "resume_px") THEN {"unpaused"} ELSE {})
         /\ IF LMaxconn[l] # 0 /\ lst[l].nbconn >= LMaxconn[l]
            THEN dequeue(l) /\ set_state(l, "FULL", FALSE)
            ELSE IF t \notin BindThread[l]
            THEN /\ lq' = [lq EXCEPT ![CHOOSE x \in BindThread[l] : TRUE] = Append(@, l)]
                 /\ lst' = [lst EXCEPT ![l].state = IF @ = "ASSIGNED" THEN "LISTEN" ELSE @]
                 /\ UNCHANGED <<gq, pq>>
            ELSE dequeue(l) /\ set_state(l, "READY", TRUE)

resume_listener(t, l) == resume_fails(l) \/ resume_ok(t, l)

(* listener_full(l) *)
listener_full(l) ==
    IF lst[l].state \in {"READY", "FULL", "LIMITED"}
    THEN dequeue(l) /\ set_state(l, "FULL", FALSE)
    ELSE UNCHANGED <<lst, lqueues>>

(* limit_listener(l, list): only a ready listener is queued. *)
limit_listener(l) ==
    IF lst[l].state = "READY"
    THEN set_state(l, "LIMITED", FALSE)
    ELSE UNCHANGED lst
limited_into(q, l) == IF lst[l].state = "READY" THEN Append(q, l) ELSE q

--------------------------------------------------------------------------------
(* listener_accept(): the thread is called for an event on a polled socket. *)
AcceptEvent(t, l) ==
    /\ at(t, "idle")
    /\ lst[l].recv
    /\ t \in BindThread[l]
    /\ events < MaxEvents
    /\ events' = events + 1
    /\ \E pc \in {"listener"} \cup (IF "global" \in RateLimits THEN {"limit_global"} ELSE {})
                             \cup (IF "proxy" \in RateLimits THEN {"limit_rate"} ELSE {}) :
          lthr' = [lthr EXCEPT ![t] = [resting EXCEPT !.pc = pc, !.l = l, !.budget = MaxAccept]]
    /\ UNCHANGED <<lst, counts, lqueues, tasks, pxstate, conns, accq, lpast>>


(* The three counters are increased one after the other, never past a limit. *)
IncListener(t) ==
    /\ at(t, "listener")
    /\ LET l == mine(t) IN
       IF lthr[t].budget = 0
       THEN go(t, "end") /\ UNCHANGED lst
       ELSE IF LMaxconn[l] # 0 /\ lst[l].nbconn >= LMaxconn[l]
       THEN go(t, "full") /\ UNCHANGED lst
       ELSE /\ lst' = [lst EXCEPT ![l].nbconn = @ + 1]
            /\ lthr' = [lthr EXCEPT ![t].pc = "proxy", ![t].nc = TRUE]
    /\ UNCHANGED <<counts, lqueues, tasks, pxstate, conns, accq, events, lpast>>

IncProxy(t) ==
    /\ at(t, "proxy")
    /\ IF feconn[front(t)] >= PMaxconn
       THEN go(t, "limit_proxy") /\ UNCHANGED feconn
       ELSE /\ feconn' = [feconn EXCEPT ![front(t)] = @ + 1]
            /\ lthr' = [lthr EXCEPT ![t].pc = "process", ![t].nf = TRUE]
    /\ UNCHANGED <<lst, actconn, lqueues, tasks, pxstate, conns, accq, events, lpast>>

IncProcess(t) ==
    /\ at(t, "process")
    /\ IF actconn >= GMaxconn
       THEN go(t, "limit_global") /\ UNCHANGED actconn
       ELSE /\ actconn' = actconn + 1
            /\ lthr' = [lthr EXCEPT ![t].pc = "accept", ![t].na = TRUE]
    /\ UNCHANGED <<lst, feconn, lqueues, tasks, pxstate, conns, accq, events, lpast>>

(* Gives back what thread t took: the counters listed in its next_* flags. *)
unroll(t) ==
    /\ lst' = [lst EXCEPT ![mine(t)].nbconn = IF lthr[t].nc THEN @ - 1 ELSE @]
    /\ feconn' = [feconn EXCEPT ![front(t)] = IF lthr[t].nf THEN @ - 1 ELSE @]
    /\ actconn' = IF lthr[t].na THEN actconn - 1 ELSE actconn

taken(t, pc, b) == [lthr[t] EXCEPT !.pc = pc, !.nc = FALSE, !.nf = FALSE, !.na = FALSE, !.budget = b]

(* accept() has no connection, or fails for lack of a resource, or finds an aborted one. *)
AcceptFails(t) ==
    /\ at(t, "accept")
    /\ \/ /\ \E pc \in {"end", "limit_global"} : go(t, pc)
          /\ UNCHANGED <<lst, counts>>
       \/ /\ unroll(t)
          /\ lthr' = [lthr EXCEPT ![t] = taken(t, "listener", lthr[t].budget - 1)]
    /\ UNCHANGED <<lqueues, tasks, pxstate, conns, accq, events, lpast>>

(* accept() succeeds: to the accept queue of a thread of the listener, or served here. *)
AcceptOk(t) ==
    /\ at(t, "accept")
    /\ \/ \E u \in BindThread[mine(t)] :
             /\ Cardinality(BindThread[mine(t)]) > 1
             /\ Len(accq[u]) < RingSize
             /\ accq' = [accq EXCEPT ![u] = Append(@, mine(t))]
             /\ lthr' = [lthr EXCEPT ![t] = taken(t, "listener", lthr[t].budget - 1)]
       \/ /\ lthr' = [lthr EXCEPT ![t] = [taken(t, "session", lthr[t].budget - 1)
                                             EXCEPT !.back = "listener"]]
          /\ UNCHANGED accq
    /\ UNCHANGED <<lst, counts, lqueues, tasks, pxstate, conns, events, lpast>>

(* accept_queue_process(): the tasklet of the accept queue takes a connection. *)
AcceptQueued(t) ==
    /\ at(t, "idle")
    /\ accq[t] # <<>>
    /\ accq' = [accq EXCEPT ![t] = Tail(@)]
    /\ lthr' = [lthr EXCEPT ![t] = [resting EXCEPT !.pc = "session", !.l = Head(accq[t])]]
    /\ UNCHANGED <<lst, counts, lqueues, tasks, pxstate, conns, events, lpast>>

(* listener_release(): the three counters go down, then the queues are looked at. *)
given_back(l) ==
    /\ actconn' = actconn - 1
    /\ feconn' = [feconn EXCEPT ![LProxy[l]] = @ - 1]
    /\ lst' = [lst EXCEPT ![l].nbconn = @ - 1]

(* session_accept_fd(): a session is created, or the connection is released at once. *)
SessionAccept(t) ==
    /\ at(t, "session")
    /\ LET l == mine(t) IN
       \/ /\ conns' = [conns EXCEPT ![l] = @ + 1]
          /\ lthr' = [lthr EXCEPT ![t] = IF @.back = "idle" THEN resting
                                         ELSE [@ EXCEPT !.pc = lthr[t].back]]
          /\ UNCHANGED <<lst, counts>>
       \/ /\ given_back(l)
          /\ \E b \in IF lthr[t].back = "idle" THEN {"idle"} ELSE {"listener", "limit_global"} :
                lthr' = [lthr EXCEPT ![t].pc = "reltest", ![t].back = b]
          /\ UNCHANGED conns
    /\ UNCHANGED <<lqueues, tasks, pxstate, accq, events, lpast>>

Release(t, l) ==
    /\ at(t, "idle")
    /\ conns[l] > 0
    /\ conns' = [conns EXCEPT ![l] = @ - 1]
    /\ given_back(l)
    /\ lthr' = [lthr EXCEPT ![t] = [resting EXCEPT !.pc = "reltest", !.l = l]]
    /\ UNCHANGED <<lqueues, tasks, pxstate, accq, events, lpast>>

ReleaseTest(t) ==
    /\ at(t, "reltest")
    /\ go(t, IF lst[mine(t)].state \in {"FULL", "LIMITED"} THEN "resume" ELSE "dequeue_all")
    /\ UNCHANGED <<lst, counts, lqueues, tasks, pxstate, conns, accq, events, lpast>>

ResumeOwn(t) ==
    /\ at(t, "resume")
    /\ resume_listener(t, mine(t))
    /\ go(t, "dequeue_all")
    /\ UNCHANGED <<counts, tasks, pxstate, conns, accq, events>>

(* dequeue_all_listeners(): one listener is popped, then resumed, until none is left. *)
DequeueAll(t) ==
    /\ at(t, "dequeue_all")
    /\ IF gq # <<>>
       THEN /\ gq' = Tail(gq)
            /\ lthr' = [lthr EXCEPT ![t].pc = "popped_all", ![t].pop = <<Head(gq)>>]
       ELSE /\ go(t, IF lthr[t].back = "gdone" THEN "gdone" ELSE "dequeue_proxy")
            /\ UNCHANGED gq
    /\ UNCHANGED <<lst, counts, pq, lq, tasks, pxstate, conns, accq, events, lpast>>

(* dequeue_proxy_listeners(), unless the frontend is over its rate. *)
DequeueProxy(t) ==
    /\ at(t, "dequeue_proxy")
    /\ LET p == IF lthr[t].px # <<>> THEN lthr[t].px[1] ELSE front(t) IN
       \/ /\ pq[p] # <<>>
          /\ pq' = [pq EXCEPT ![p] = Tail(@)]
          /\ lthr' = [lthr EXCEPT ![t].pc = "popped_proxy", ![t].pop = <<Head(pq[p])>>]
          /\ UNCHANGED lpast
       \/ /\ pq[p] = <<>> \/ ("proxy" \in RateLimits /\ lthr[t].back # "pdone")
          /\ lthr' = [lthr EXCEPT ![t] = IF @.back = "idle" THEN resting
                                         ELSE [@ EXCEPT !.pc = lthr[t].back]]
          /\ lpast' = lpast \cup IF pq[p] # <<>> THEN {"rate"} ELSE {}
          /\ UNCHANGED pq
    /\ UNCHANGED <<lst, counts, gq, lq, tasks, pxstate, conns, accq, events>>

ResumePopped(t) ==
    /\ lthr[t].pc \in {"popped_all", "popped_proxy", "popped_local"}
    /\ resume_listener(t, lthr[t].pop[1])
    /\ lthr' = [lthr EXCEPT ![t] = CASE @.pc = "popped_local" -> resting
                                     [] @.pc = "popped_all" -> [@ EXCEPT !.pc = "dequeue_all", !.pop = <<>>]
                                     [] OTHER -> [@ EXCEPT !.pc = "dequeue_proxy", !.pop = <<>>]]
    /\ UNCHANGED <<counts, tasks, pxstate, conns, accq, events>>

(* listener_queue_process(): the task of a thread's local queue. *)
LocalQueue(t) ==
    /\ at(t, "idle")
    /\ lq[t] # <<>>
    /\ lq' = [lq EXCEPT ![t] = Tail(@)]
    /\ lthr' = [lthr EXCEPT ![t] = [resting EXCEPT !.pc = "popped_local", !.pop = <<Head(lq[t])>>]]
    /\ UNCHANGED <<lst, counts, gq, pq, tasks, pxstate, conns, accq, events, lpast>>

--------------------------------------------------------------------------------
(* The ways listener_accept() stops accepting. *)
Full(t) ==
    /\ at(t, "full")
    /\ listener_full(mine(t))
    /\ go(t, "end")
    /\ UNCHANGED <<counts, tasks, pxstate, conns, accq, events, lpast>>

LimitGlobal(t) ==
    /\ at(t, "limit_global")
    /\ limit_listener(mine(t))
    /\ gq' = limited_into(gq, mine(t))
    /\ gtask' = task_schedule(gtask)
    /\ go(t, "end")
    /\ UNCHANGED <<counts, pq, lq, ptask, pxstate, conns, accq, events, lpast>>

LimitProxy(t) ==
    /\ lthr[t].pc \in {"limit_proxy", "limit_rate"}
    /\ limit_listener(mine(t))
    /\ pq' = [pq EXCEPT ![front(t)] = limited_into(@, mine(t))]
    /\ ptask' = [ptask EXCEPT ![front(t)] = IF at(t, "limit_rate") THEN task_schedule(@) ELSE @]
    /\ go(t, "end")
    /\ UNCHANGED <<counts, gq, lq, gtask, pxstate, conns, accq, events, lpast>>

(* end: what was taken for a connection that did not come is given back. *)
EndUnroll(t) ==
    /\ at(t, "end")
    /\ unroll(t)
    /\ lthr' = [lthr EXCEPT ![t] = taken(t, "endtest", lthr[t].budget)]
    /\ UNCHANGED <<lqueues, tasks, pxstate, conns, accq, events, lpast>>

can_reopen(l) ==
    \/ lst[l].state = "FULL" /\ (LMaxconn[l] = 0 \/ lst[l].nbconn < LMaxconn[l])
    \/ /\ lst[l].state = "LIMITED"
       /\ feconn[LProxy[l]] < PMaxconn
       /\ actconn < GMaxconn
       /\ ~pending_date(gtask)


EndTest(t) ==
    /\ at(t, "endtest")
    /\ lthr' = [lthr EXCEPT ![t].pc = IF can_reopen(mine(t)) THEN "resume" ELSE "leave", ![t].back = "leave"]
    /\ lpast' = lpast \cup IF /\ lst[mine(t)].state = "LIMITED"
                              /\ feconn[front(t)] < PMaxconn
                              /\ ~can_reopen(mine(t)) THEN {"skipped"} ELSE {}
    /\ UNCHANGED <<lst, counts, lqueues, tasks, pxstate, conns, accq, events>>

(* The last locked section: the socket is no longer polled unless the listener is ready. *)
LeaveAccept(t) ==
    /\ at(t, "leave")
    /\ lst' = [lst EXCEPT ![mine(t)].recv = IF @ /\ above(mine(t), "ASSIGNED") THEN lst[mine(t)].state = "READY" ELSE @]
    /\ lthr' = [lthr EXCEPT ![t] = resting]
    /\ UNCHANGED <<counts, lqueues, tasks, pxstate, conns, accq, events, lpast>>

--------------------------------------------------------------------------------
(* manage_global_listener_queue() and manage_proxy(), woken when their date is reached. *)
Expires ==
    /\ \/ gtask = "armed" /\ gtask' = "queued" /\ UNCHANGED ptask
       \/ \E p \in Proxies : ptask[p] = "armed" /\ ptask' = [ptask EXCEPT ![p] = "queued"] /\ UNCHANGED gtask
    /\ UNCHANGED <<lst, counts, lqueues, pxstate, conns, accq, lthr, events, lpast>>

GlobalTask(t) ==
    /\ at(t, "idle")
    /\ gtask = "queued"
    /\ gtask' = "running"
    /\ lthr' = [lthr EXCEPT ![t] = [resting EXCEPT !.pc = IF actconn >= GMaxconn THEN "gdone" ELSE "dequeue_all",
                                                   !.back = "gdone"]]
    /\ lpast' = lpast \cup IF actconn >= GMaxconn /\ \E u \in LThreads : lthr[u].na THEN {"gaveup"} ELSE {}
    /\ UNCHANGED <<lst, counts, lqueues, ptask, pxstate, conns, accq, events>>

(* t->expire = TICK_ETERNITY, whatever was scheduled while the handler ran *)
GlobalTaskDone(t) ==
    /\ at(t, "gdone")
    /\ gtask' = "none"
    /\ lpast' = lpast \cup IF gtask = "rearmed" THEN {"erased"} ELSE {}
    /\ lthr' = [lthr EXCEPT ![t] = resting]
    /\ UNCHANGED <<lst, counts, lqueues, ptask, pxstate, conns, accq, events>>

ProxyTask(t, p) ==
    /\ at(t, "idle")
    /\ ptask[p] = "queued"
    /\ \/ \* still over its rate: a new date
          /\ "proxy" \in RateLimits /\ feconn[p] < PMaxconn
          /\ ptask' = [ptask EXCEPT ![p] = "armed"]
          /\ UNCHANGED lthr
       \/ /\ ptask' = [ptask EXCEPT ![p] = "running"]
          /\ lthr' = [lthr EXCEPT ![t] = [resting EXCEPT !.pc = IF feconn[p] >= PMaxconn THEN "pdone" ELSE "dequeue_proxy",
                                                         !.px = <<p>>, !.back = "pdone"]]
    /\ UNCHANGED <<lst, counts, lqueues, gtask, pxstate, conns, accq, events, lpast>>

ProxyTaskDone(t) ==
    /\ at(t, "pdone")
    /\ ptask' = [ptask EXCEPT ![lthr[t].px[1]] = "none"]
    /\ lpast' = lpast \cup IF ptask[lthr[t].px[1]] = "rearmed" THEN {"erased"} ELSE {}
    /\ lthr' = [lthr EXCEPT ![t] = resting]
    /\ UNCHANGED <<lst, counts, lqueues, gtask, pxstate, conns, accq, events>>

--------------------------------------------------------------------------------
(* pause_proxy(), resume_proxy() and stop_proxy(): the listeners one after the
   other.  The first two are called for signals, one signal at a time. *)
Admin(t, p, what) ==
    /\ at(t, "idle")
    /\ events < MaxEvents
    /\ what # "stop" => \A u \in LThreads : lthr[u].pc \notin {"pause", "resume_px"}
    /\ CASE what = "pause" -> pxstate[p] = "READY"
         [] what = "resume_px" -> pxstate[p] = "PAUSED"
         [] what = "stop" -> pxstate[p] # "STOPPED"
    /\ events' = events + 1
    /\ lthr' = [lthr EXCEPT ![t] = [resting EXCEPT !.pc = what, !.px = <<p>>,
                                      !.left = {l \in Listeners : LProxy[l] = p}]]
    /\ UNCHANGED <<lst, counts, lqueues, tasks, pxstate, conns, accq, lpast>>

(* pause_listener(l): its result is always "paused", the failure is lost in an inner variable. *)
PauseListener(t) ==
    /\ at(t, "pause")
    /\ \E l \in lthr[t].left :
          /\ lthr' = [lthr EXCEPT ![t].left = @ \ {l}]
          /\ \/ /\ ~above(l, "ASSIGNED")
                /\ UNCHANGED <<lst, lqueues, lpast>>
             \/ \* the protocol refuses to pause
                /\ above(l, "ASSIGNED")
                /\ lpast' = lpast \cup {"refused"}
                /\ UNCHANGED <<lst, lqueues>>
             \/ /\ above(l, "ASSIGNED")
                /\ dequeue(l)
                /\ set_state(l, "PAUSED", FALSE)
                /\ UNCHANGED lpast
    /\ UNCHANGED <<counts, tasks, pxstate, conns, accq, events>>

(* resume_listener(l) for each; after a failure they are all paused again. *)
ResumeListener(t) ==
    /\ at(t, "resume_px")
    /\ \E l \in lthr[t].left :
          \/ /\ resume_ok(t, l)
             /\ lthr' = [lthr EXCEPT ![t].left = @ \ {l}]
          \/ /\ resume_fails(l)
             /\ lthr' = [lthr EXCEPT ![t].pc = "pause", ![t].left = {x \in Listeners : LProxy[x] = lthr[t].px[1]}]
    /\ UNCHANGED <<counts, tasks, pxstate, conns, accq, events>>

(* unbind_listener() *)
Unbind(t) ==
    /\ at(t, "stop")
    /\ \E l \in lthr[t].left :
          /\ dequeue(l)
          /\ IF above(l, "ASSIGNED") THEN set_state(l, "ASSIGNED", FALSE) ELSE UNCHANGED lst
          /\ lthr' = [lthr EXCEPT ![t].pc = "delete", ![t].l = l, ![t].left = @ \ {l}]
    /\ UNCHANGED <<counts, tasks, pxstate, conns, accq, events, lpast>>

(* delete_listener(), which takes the lock again *)
DeleteListener(t) ==
    /\ at(t, "delete")
    /\ IF lst[mine(t)].state = "ASSIGNED" THEN set_state(mine(t), "INIT", FALSE) ELSE UNCHANGED lst
    /\ lthr' = [lthr EXCEPT ![t].pc = "stop", ![t].l = <<>>]
    /\ UNCHANGED <<counts, lqueues, tasks, pxstate, conns, accq, events, lpast>>

AdminDone(t) ==
    /\ lthr[t].pc \in {"pause", "resume_px", "stop"}
    /\ lthr[t].left = {}
    /\ pxstate' = [pxstate EXCEPT ![lthr[t].px[1]] = CASE at(t, "pause") -> "PAUSED"
                                                     [] at(t, "resume_px") -> "READY"
                                                     [] OTHER -> "STOPPED"]
    /\ lthr' = [lthr EXCEPT ![t] = resting]
    /\ UNCHANGED <<lst, counts, lqueues, tasks, conns, accq, events, lpast>>

LStep(t) ==
    \/ \E l \in Listeners : AcceptEvent(t, l) \/ Release(t, l)
    \/ IncListener(t) \/ IncProxy(t) \/ IncProcess(t) \/ AcceptFails(t) \/ AcceptOk(t)
    \/ AcceptQueued(t) \/ SessionAccept(t) \/ ReleaseTest(t) \/ ResumeOwn(t)
    \/ DequeueAll(t) \/ DequeueProxy(t) \/ ResumePopped(t) \/ LocalQueue(t)
    \/ Full(t) \/ LimitGlobal(t) \/ LimitProxy(t) \/ EndUnroll(t) \/ EndTest(t) \/ LeaveAccept(t)
    \/ GlobalTask(t) \/ GlobalTaskDone(t) \/ ProxyTaskDone(t)
    \/ \E p \in Proxies : ProxyTask(t, p) \/ \E w \in {"pause", "resume_px", "stop"} : Admin(t, p, w)
    \/ PauseListener(t) \/ ResumeListener(t) \/ Unbind(t) \/ DeleteListener(t) \/ AdminDone(t)

LNext == Expires \/ \E t \in LThreads : LStep(t)

LSpec == LInit /\ [][LNext]_lVars

--------------------------------------------------------------------------------
CountIf(S, P(_)) == Cardinality({x \in S : P(x)})
in_rings(l) == LET n[S \in SUBSET LThreads] ==
                     IF S = {} THEN 0
                     ELSE LET t == CHOOSE x \in S : TRUE
                          IN Len(SelectSeq(accq[t], LAMBDA e : e = l)) + n[S \ {t}]
               IN n[LThreads]
held(l) == conns[l] + in_rings(l) + CountIf(LThreads, LAMBDA t : at(t, "session") /\ mine(t) = l)

(* The connection counter of a listener is the number of its connections, in an
   accept queue, being set up or established, and of the attempts of
   listener_accept() to get one: nothing is counted twice or forgotten. *)
ConnsCounted ==
    \A l \in Listeners :
        lst[l].nbconn = held(l) + CountIf(LThreads, LAMBDA t : lthr[t].nc /\ mine(t) = l)

(* No limit is ever exceeded, of a listener, a frontend or the process, however
   many threads accept at once. *)
MaxconnRespected ==
    /\ \A l \in Listeners : LMaxconn[l] # 0 => lst[l].nbconn <= LMaxconn[l]
    /\ \A p \in Proxies : feconn[p] <= PMaxconn
    /\ actconn <= GMaxconn

(* A socket is polled exactly while its listener is ready: "We must be certain
   to keep the FD enabled when in the READY state but we must also stop it for
   other states". *)
PolledWhenReady ==
    \A l \in Listeners : lst[l].recv <=> lst[l].state = "READY"

(* A listener waits in one queue at most, and never while it is ready, paused
   by its owner, or gone. *)
QueuedOnce ==
    \A l \in Listeners :
        LET places == CountIf({1}, LAMBDA x : Contains(gq, l))
                      + CountIf(Proxies, LAMBDA p : Contains(pq[p], l))
                      + CountIf(LThreads, LAMBDA t : Contains(lq[t], l))
        IN /\ places <= 1
           /\ lst[l].state \in {"INIT", "ASSIGNED", "READY"} => places = 0

quiet == \A t \in LThreads : at(t, "idle") /\ accq[t] = <<>>
will_run(x) == x \in {"armed", "queued"}
(* Nothing that is going to happen by itself, and no connection whose end would
   be noticed, can reopen listener l of a frontend that is running. *)
stuck(l) ==
    /\ pxstate[LProxy[l]] = "READY"
    /\ \/ lst[l].state = "FULL" /\ ~queued(l) /\ (LMaxconn[l] = 0 \/ lst[l].nbconn < LMaxconn[l])
       \/ lst[l].state = "LIMITED" /\ ~queued(l)
       \/ /\ lst[l].state = "LIMITED" /\ Contains(gq, l)
          /\ ~will_run(gtask) /\ \A k \in Listeners : conns[k] = 0
       \/ /\ lst[l].state = "LIMITED" /\ Contains(pq[LProxy[l]], l)
          /\ ~will_run(ptask[LProxy[l]])
          /\ \A k \in Listeners : LProxy[k] = LProxy[l] => conns[k] = 0

(* A listener that was closed for lack of room is reopened: the connection or
   the timer it waits for exists, unless a date was erased by the handler of
   the task ("erased"), the test at the end of listener_accept() kept
   the listener waiting for its frontend although that one had room, because of
   the process or of an unrelated date ("skipped"), the frontend was over its rate when
   its last connection ended ("rate"), or the task of the queue found the process
   full of an attempt that brought no connection ("gaveup"). *)
ReopenReason ==
    quiet => \A l \in Listeners : stuck(l) => lpast \cap {"erased", "skipped", "rate", "gaveup"} # {}

(* A frontend that was stopped or paused has no listener that is being polled,
   unless a thread that had already decided to resume the listener came after
   ("rebound", "unpaused"), or the protocol had refused to pause ("refused"). *)
ClosedReason ==
    \A l \in Listeners :
        /\ pxstate[LProxy[l]] = "STOPPED" /\ lst[l].recv => "rebound" \in lpast
        /\ pxstate[LProxy[l]] = "PAUSED" /\ lst[l].recv /\ (\A t \in LThreads : ~at(t, "resume_px"))
              => lpast \cap {"unpaused", "refused", "rebound"} # {}


================================================================================
