----------------------------- MODULE FdPolling -----------------------------
(***************************************************************************)
(* One file descriptor, the threads that poll it and the connections that  *)
(* own it in turn: its state, its masks and its updates (src/fd.c and      *)
(* include/proto/fd.h), and the epoll sets of the threads                  *)
(* (src/ev_epoll.c).  The list of the updates for several threads is the   *)
(* one of module FdList, here a set.  A step is what a thread does between *)
(* two accesses to the state other threads change.                         *)
(***************************************************************************)
EXTENDS Integers, FiniteSets, TLAPS

CONSTANTS PThreads,
          CasDw,     \* HA_HAVE_CAS_DW: is there a double-word compare-and-swap
          MaxOwners  \* bound on the number of successive owners

VARIABLES state,       \* SUBSET {"AR", "RR", "AW", "RW"}: active and ready
          owner,       \* 0 or the number of the connection
          idle_conn,   \* "no", "idle", "taken": is it in a list of idle connections
          thread_mask, running_mask, upd_mask,  \* SUBSET PThreads
          fd_updt,     \* SUBSET PThreads: threads which have it in their own updates
          upd_list,    \* BOOLEAN: is it in the global list of updates
          polled_mask, \* [PThreads -> SUBSET {"R", "W"}]
          epoll_set,   \* [PThreads -> SUBSET {"R", "W"}]: what the kernel reports
          pth,         \* [PThreads -> [pc, must_stop, conn]]
          owners       \* number of owners so far

pend_upd == <<upd_mask, fd_updt, upd_list>>
polled == <<polled_mask, epoll_set>>
pVars == <<state, owner, idle_conn, thread_mask, running_mask, pend_upd, polled, pth, owners>>

Dirs == {"R", "W"}
A(d) == IF d = "R" THEN "AR" ELSE "AW"
Ready(d) == IF d = "R" THEN "RR" ELSE "RW"
Active == {d \in Dirs : A(d) \in state}

PInit ==
  /\ state = {} /\ owner = 0 /\ idle_conn = "no" /\ thread_mask = {} /\ running_mask = {}
  /\ upd_mask = {} /\ fd_updt = {} /\ upd_list = FALSE
  /\ polled_mask = [i \in PThreads |-> {}] /\ epoll_set = [i \in PThreads |-> {}]
  /\ pth = [i \in PThreads |-> [pc |-> "idle", must_stop |-> {}, conn |-> 0]]
  /\ owners = 0

Pc(i, pc) == pth' = [pth EXCEPT ![i].pc = pc]
\* A thread may use the descriptor: its owner belongs to the thread and is not idle; the
\* callback of an idle connection only stops receiving.
Uses(i) == owner # 0 /\ i \in thread_mask /\ pth[i].pc \in {"idle", "iocb"} /\ idle_conn = "no"
Runs(i) == owner # 0 /\ pth[i].pc = "iocb"
-----------------------------------------------------------------------------
\* A mutation of updt_fd_polling: the caller alone will look at it.
updt_caller(i) ==
  /\ upd_mask' = upd_mask \cup {i}
  /\ fd_updt' = fd_updt \cup {i}
  /\ UNCHANGED upd_list

updt_fd_polling(i) ==
  IF thread_mask = {i}
  THEN /\ upd_mask' = upd_mask \cup {i}
       /\ fd_updt' = IF i \in upd_mask THEN fd_updt ELSE fd_updt \cup {i}
       /\ UNCHANGED upd_list
  ELSE /\ upd_mask' = thread_mask
       /\ upd_list' = (upd_list \/ upd_mask # thread_mask)
       /\ UNCHANGED fd_updt

\* fd_want_recv(), fd_want_send()
Want(i, d) ==
  /\ Uses(i) /\ d \notin Active
  /\ state' = state \cup {A(d)}
  /\ updt_fd_polling(i)
  /\ UNCHANGED <<owner, idle_conn, thread_mask, running_mask, polled, pth, owners>>

\* fd_stop_recv(), fd_stop_send(): the pollers find out later
Stop(i, d) ==
  /\ Uses(i) \/ (Runs(i) /\ d = "R")
  /\ d \in Active
  /\ state' = state \ {A(d)}
  /\ UNCHANGED <<owner, idle_conn, thread_mask, running_mask, pend_upd, polled, pth, owners>>

\* fd_cant_recv(), fd_cant_send(), fd_done_recv()
Cant(i, d) ==
  /\ Uses(i) \/ Runs(i)
  /\ Ready(d) \in state
  /\ state' = state \ {Ready(d)}
  /\ UNCHANGED <<owner, idle_conn, thread_mask, running_mask, pend_upd, polled, pth, owners>>
-----------------------------------------------------------------------------
\* fd_insert(), by a connection of one thread or a listener of all of them
Insert(i, m) ==
  /\ pth[i].pc = "idle" /\ owner = 0 /\ owners < MaxOwners
  /\ running_mask \in {{}, {i}}
  /\ owner' = owners + 1 /\ owners' = owners + 1
  /\ thread_mask' = m
  /\ state' = state \cup {"RR", "RW"}
  /\ UNCHANGED <<idle_conn, running_mask, pend_upd, polled, pth>>

\* fd_dodelete(); close() takes the descriptor out of the sets of the kernel
fd_dodelete(i) ==
  /\ owner' = 0 /\ thread_mask' = {} /\ state' = {}
  /\ polled_mask' = [j \in PThreads |-> {}]
  /\ epoll_set' = [j \in PThreads |-> {}]

\* Of one thread: from its callback, or from a task once no callback runs.
Delete(i) ==
  /\ Uses(i) \/ (pth[i].pc = "idle" /\ idle_conn = "idle")
  /\ thread_mask = {i} /\ running_mask \in {{}, {i}}
  /\ fd_dodelete(i)
  /\ idle_conn' = "no"
  /\ UNCHANGED <<running_mask, pend_upd, pth, owners>>

\* A connection which never waits to send is put among the idle ones, and reused.
PutIdle(i) ==
  /\ Uses(i) /\ pth[i].pc = "idle" /\ thread_mask = {i} /\ "AW" \notin state
  /\ idle_conn' = "idle"
  /\ UNCHANGED <<state, owner, thread_mask, running_mask, pend_upd, polled, pth, owners>>

Reuse(i) ==
  /\ pth[i].pc = "idle" /\ thread_mask = {i} /\ idle_conn = "idle"
  /\ idle_conn' = "no"
  /\ UNCHANGED <<state, owner, thread_mask, running_mask, pend_upd, polled, pth, owners>>

\* fd_takeover() by another thread; the connection is not destroyed meanwhile.
TakeoverStart(i) ==
  /\ pth[i].pc = "idle" /\ idle_conn = "idle" /\ i \notin thread_mask
  /\ running_mask' = running_mask \cup {i}
  /\ pth' = [pth EXCEPT ![i].pc = "take", ![i].conn = owner]
  /\ idle_conn' = "taken"
  /\ UNCHANGED <<state, owner, thread_mask, pend_upd, polled, owners>>

takes_over(i) == owner = pth[i].conn /\ running_mask = {i} /\ thread_mask # {}

TakeoverEnd(i) ==
  /\ pth[i].pc = "take"
  /\ running_mask' = running_mask \ {i}
  /\ thread_mask' = IF takes_over(i) THEN {i} ELSE thread_mask
  /\ state' = IF CasDw THEN state ELSE state \ {"AR"}
  /\ pth' = [pth EXCEPT ![i].pc = "idle", ![i].conn = 0]
  /\ idle_conn' = IF takes_over(i) THEN "no" ELSE "idle"
  /\ UNCHANGED <<owner, pend_upd, polled, owners>>
-----------------------------------------------------------------------------
\* What the poller should watch: a direction which was polled and saw EAGAIN is kept.
watched(i) ==
  IF "RR" \notin state /\ ("AW" \in state \/ polled_mask[i] # {})
  THEN Active \cup {"R"} ELSE Active

\* _update_fd() of src/ev_epoll.c
_update_fd(i) ==
  LET w == IF i \in thread_mask THEN watched(i) ELSE {}
  IN  /\ polled_mask' = [polled_mask EXCEPT ![i] = w]
      /\ epoll_set' = [epoll_set EXCEPT ![i] = w]

\* The poller looks at its updates, then at the global ones.
PollUpdates(i) ==
  /\ pth[i].pc = "idle" /\ (i \in fd_updt \/ (upd_list /\ i \in upd_mask))
  /\ upd_mask' = upd_mask \ {i} /\ fd_updt' = fd_updt \ {i}
  /\ upd_list' = (upd_list /\ (upd_mask \ {i} # {} \/ i \notin upd_mask))
  /\ IF owner = 0 THEN UNCHANGED polled ELSE _update_fd(i)
  /\ UNCHANGED <<state, owner, idle_conn, thread_mask, running_mask, pth, owners>>

\* The kernel reports an event, and the poller finds that the descriptor has gone:
PollMigrated(i) ==
  /\ pth[i].pc = "idle" /\ epoll_set[i] # {}
  /\ owner # 0 /\ i \notin thread_mask
  /\ polled_mask' = [polled_mask EXCEPT ![i] = {}]
  /\ epoll_set' = [epoll_set EXCEPT ![i] = {}]
  /\ UNCHANGED <<state, owner, idle_conn, thread_mask, running_mask, pend_upd, pth, owners>>

\* or calls fd_update_events().
PollEvent(i, d) ==
  /\ pth[i].pc = "idle" /\ d \in epoll_set[i]
  /\ owner # 0 /\ i \in thread_mask
  /\ state' = state \cup {Ready(d)}
  /\ pth' = [pth EXCEPT ![i].pc = "ev", ![i].must_stop =
                CASE Active = {} -> Dirs [] d \notin Active /\ Active # {} -> {d} [] OTHER -> {}]
  /\ UNCHANGED <<owner, idle_conn, thread_mask, running_mask, pend_upd, polled, owners>>

fd_set_running(i) == i \in thread_mask

\* The callback is called if the descriptor is active and still belongs to the thread.
StartIocb(i) ==
  /\ pth[i].pc = "ev"
  /\ CASE Active = {} -> Pc(i, "stop") /\ UNCHANGED running_mask
       [] Active # {} /\ fd_set_running(i) ->
            Pc(i, "iocb") /\ running_mask' = running_mask \cup {i}
       [] OTHER -> Pc(i, "idle") /\ UNCHANGED running_mask
  /\ UNCHANGED <<state, owner, idle_conn, thread_mask, pend_upd, polled, owners>>

EndIocb(i) ==
  /\ pth[i].pc = "iocb"
  /\ running_mask' = running_mask \ {i}
  /\ Pc(i, "stop")
  /\ UNCHANGED <<state, owner, idle_conn, thread_mask, pend_upd, polled, owners>>

\* An event that was not wanted and still is not: look at the polling again.
StopUnwanted(i) ==
  /\ pth[i].pc = "stop"
  /\ IF pth[i].must_stop \ Active # {} /\ i \notin upd_mask
     THEN upd_mask' = upd_mask \cup {i} /\ fd_updt' = fd_updt \cup {i}
     ELSE UNCHANGED <<upd_mask, fd_updt>>
  /\ pth' = [pth EXCEPT ![i].pc = "idle", ![i].must_stop = {}]
  /\ UNCHANGED <<state, owner, idle_conn, thread_mask, running_mask, upd_list, polled, owners>>

PNext ==
  \E i \in PThreads :
    \/ \E d \in Dirs : Want(i, d) \/ Stop(i, d) \/ Cant(i, d) \/ PollEvent(i, d)
    \/ \E m \in {{i}, PThreads} : Insert(i, m)
    \/ Delete(i) \/ PutIdle(i) \/ Reuse(i) \/ TakeoverStart(i) \/ TakeoverEnd(i)
    \/ PollUpdates(i) \/ PollMigrated(i) \/ StartIocb(i) \/ EndIocb(i) \/ StopUnwanted(i)

PSpec == PInit /\ [][PNext]_pVars
-----------------------------------------------------------------------------
\* The masks of the pollers say what the kernel watches, whatever closes, reuses and
\* migrations of the descriptor happen: an update is never skipped for a stale mask.
PolledExact == \A i \in PThreads : polled_mask[i] = epoll_set[i]

\* A direction which is wanted is watched by the pollers of the threads of the descriptor, or
\* these threads have an update to look at: no event is waited for in vain.
WantedWatched ==
  owner # 0 =>
    \A i \in thread_mask : Active \subseteq epoll_set[i] \/ i \in fd_updt \/ (upd_list /\ i \in upd_mask)

\* The callback of a descriptor of one thread runs on this thread only, and on no other
\* during a migration (fd_takeover() against fd_set_running()).
OneIocb ==
  \A i, j \in PThreads : pth[i].pc = "iocb" /\ owner # 0 =>
    i \in thread_mask /\ (pth[j].pc = "iocb" /\ thread_mask # PThreads => i = j)

\* A thread marked as having an update finds it in one of the lists: a mark left alone would
\* make every later update of the descriptor be skipped (updt_fd_polling() tests it first).
UpdateQueued == \A i \in upd_mask : i \in fd_updt \/ upd_list

\* What a descriptor waits for is watched by the pollers of its threads, and handled by them
\* alone, through updates, closes, reuses and fd_takeover().
EventsWatched == PolledExact /\ WantedWatched /\ OneIocb /\ UpdateQueued
-----------------------------------------------------------------------------
(***************************************************************************)
(* The proof, for any number of threads and of owners.  The inductive      *)
(* invariant adds to the property that the running mask has the threads    *)
(* in a callback or in fd_takeover(), that a callback runs on a thread of  *)
(* the descriptor, that a closed descriptor is not active, and that an     *)
(* idle connection, which one thread at most takes over, does not send:    *)
(* its new thread has nothing to watch once reading is stopped.            *)
(***************************************************************************)
PthPcs == {"idle", "ev", "iocb", "stop", "take"}

FdInv ==
  /\ pth \in [PThreads -> [pc : PthPcs, must_stop : SUBSET Dirs, conn : Nat]]
  /\ polled_mask \in [PThreads -> SUBSET Dirs] /\ epoll_set \in [PThreads -> SUBSET Dirs]
  /\ owner \in Nat /\ owners \in Nat
  /\ PolledExact /\ WantedWatched /\ UpdateQueued
  /\ running_mask = {i \in PThreads : pth[i].pc \in {"iocb", "take"}}
  /\ thread_mask \in {{}, PThreads} \cup {{i} : i \in PThreads}
  /\ owner = 0 => Active = {}
  /\ owner # 0 => \A i \in PThreads : pth[i].pc = "iocb" => i \in thread_mask
  /\ idle_conn # "no" => "AW" \notin state
  /\ \A i \in PThreads : pth[i].pc = "take" =>
       idle_conn = "taken" /\ \A j \in PThreads : pth[j].pc = "take" => i = j

LEMMA FdInvInit == PInit => FdInv
BY DEF PInit, FdInv, PthPcs, Dirs, PolledExact, WantedWatched, UpdateQueued, Active, A

\* Whoever makes a direction active has the threads of the descriptor look at it, now or by
\* an update that is already queued.
LEMMA UpdtQueued ==
  ASSUME NEW i \in PThreads, i \in thread_mask, UpdateQueued, updt_fd_polling(i),
         thread_mask \in {{}, PThreads} \cup {{j} : j \in PThreads}
  PROVE  /\ UpdateQueued'
         /\ \A j \in thread_mask : j \in fd_updt' \/ (upd_list' /\ j \in upd_mask')
<1>1. CASE thread_mask = {i}
  BY <1>1 DEF UpdateQueued, updt_fd_polling
<1>2. CASE thread_mask # {i}
  BY <1>2 DEF UpdateQueued, updt_fd_polling
<1> QED
  BY <1>1, <1>2

LEMMA FdInvNext ==
  ASSUME ~CasDw, FdInv, [PNext]_pVars
  PROVE  FdInv'
<1> USE DEF FdInv
<1>1. ASSUME NEW i \in PThreads, NEW d \in Dirs, Want(i, d) PROVE FdInv'
  <2>1. /\ UpdateQueued'
        /\ \A j \in thread_mask : j \in fd_updt' \/ (upd_list' /\ j \in upd_mask')
    BY <1>1, UpdtQueued DEF Want, Uses
  <2>2. WantedWatched'
    BY <1>1, <2>1 DEF Want, WantedWatched
  <2>3. owner # 0 /\ idle_conn = "no" /\ UNCHANGED <<owner, idle_conn>>
    BY <1>1 DEF Want, Uses
  <2> QED
    BY <1>1, <2>1, <2>2, <2>3 DEF Want, polled, PolledExact
<1>2. ASSUME NEW i \in PThreads, NEW d \in Dirs, Stop(i, d) \/ Cant(i, d) PROVE FdInv'
  <2>1. Active' \subseteq Active /\ state' \subseteq state
    BY <1>2 DEF Stop, Cant, Active, A, Ready, Dirs
  <2>2. UNCHANGED <<owner, idle_conn, thread_mask, running_mask, upd_mask, fd_updt, upd_list,
                    polled_mask, epoll_set, pth, owners>>
    BY <1>2 DEF Stop, Cant, pend_upd, polled
  <2> QED
    BY <2>1, <2>2 DEF PolledExact, WantedWatched, UpdateQueued
<1>3. ASSUME NEW i \in PThreads, NEW d \in Dirs, PollEvent(i, d) PROVE FdInv'
  <2>1. Active' = Active /\ ("AW" \in state' <=> "AW" \in state) /\ owner # 0
    BY <1>3 DEF PollEvent, Active, A, Ready, Dirs
  <2>2. UNCHANGED <<owner, idle_conn, thread_mask, running_mask, upd_mask, fd_updt, upd_list,
                    polled_mask, epoll_set, owners>>
    BY <1>3 DEF PollEvent, pend_upd, polled
  <2>3. PICK m \in SUBSET Dirs :
          pth[i].pc = "idle" /\ pth' = [pth EXCEPT ![i].pc = "ev", ![i].must_stop = m]
    BY <1>3 DEF PollEvent, Dirs
  <2>4. /\ pth' \in [PThreads -> [pc : PthPcs, must_stop : SUBSET Dirs, conn : Nat]]
        /\ pth[i].pc = "idle" /\ pth'[i].pc = "ev"
        /\ \A j \in PThreads \ {i} : pth'[j] = pth[j]
    BY <2>3 DEF PthPcs
  <2> QED
    BY <2>1, <2>2, <2>4 DEF PolledExact, WantedWatched, UpdateQueued
<1>4. ASSUME NEW i \in PThreads, NEW m \in {{i}, PThreads}, Insert(i, m) PROVE FdInv'
  <2>1. Active' = Active /\ Active = {} /\ ("AW" \in state' <=> "AW" \in state)
    BY <1>4 DEF Insert, Active, A, Dirs
  <2>2. \A j \in PThreads : pth[j].pc # "iocb"
    BY <1>4 DEF Insert
  <2> QED
    BY <1>4, <2>1, <2>2 DEF Insert, pend_upd, polled, PolledExact, WantedWatched, UpdateQueued
<1>5. ASSUME NEW i \in PThreads, Delete(i) PROVE FdInv'
  <2>1. Active' = {} /\ owner' = 0 /\ "AW" \notin state'
    BY <1>5 DEF Delete, fd_dodelete, Active, A
  <2>2. \A j \in PThreads : pth[j].pc # "take"
    BY <1>5 DEF Delete, Uses
  <2> QED
    BY <1>5, <2>1, <2>2 DEF Delete, fd_dodelete, pend_upd, PolledExact, WantedWatched, UpdateQueued, Dirs
<1>6. ASSUME NEW i \in PThreads, PutIdle(i) \/ Reuse(i) PROVE FdInv'
  <2>1. \A j \in PThreads : pth[j].pc # "take"
    BY <1>6 DEF PutIdle, Reuse, Uses
  <2>2. UNCHANGED <<state, owner, thread_mask, running_mask, upd_mask, fd_updt, upd_list,
                    polled_mask, epoll_set, pth, owners>>
    BY <1>6 DEF PutIdle, Reuse, pend_upd, polled
  <2>3. idle_conn' # "no" => "AW" \notin state
    BY <1>6 DEF PutIdle, Reuse
  <2> QED
    BY <2>1, <2>2, <2>3 DEF PolledExact, WantedWatched, UpdateQueued, Active
<1>7. ASSUME NEW i \in PThreads, TakeoverStart(i) PROVE FdInv'
  <2>1. \A j \in PThreads : pth[j].pc # "take"
    BY <1>7 DEF TakeoverStart
  <2>2. UNCHANGED <<state, owner, thread_mask, upd_mask, fd_updt, upd_list, polled_mask, epoll_set, owners>>
    BY <1>7 DEF TakeoverStart, pend_upd, polled
  <2>3. /\ pth' \in [PThreads -> [pc : PthPcs, must_stop : SUBSET Dirs, conn : Nat]]
        /\ pth[i].pc = "idle" /\ pth'[i].pc = "take"
        /\ \A j \in PThreads \ {i} : pth'[j] = pth[j]
    BY <1>7 DEF TakeoverStart, PthPcs
  <2>4. idle_conn # "no" /\ idle_conn' = "taken" /\ running_mask' = running_mask \cup {i}
    BY <1>7 DEF TakeoverStart
  <2> QED
    BY <2>1, <2>2, <2>3, <2>4 DEF PolledExact, WantedWatched, UpdateQueued, Active
<1>8. ASSUME NEW i \in PThreads, TakeoverEnd(i) PROVE FdInv'
  <2>1. pth[i].pc = "take" /\ idle_conn = "taken" /\ \A j \in PThreads : pth[j].pc = "take" => i = j
    BY <1>8 DEF TakeoverEnd
  <2>2. UNCHANGED <<owner, upd_mask, fd_updt, upd_list, polled_mask, epoll_set, owners>>
    BY <1>8 DEF TakeoverEnd, pend_upd, polled
  <2>3. /\ pth' \in [PThreads -> [pc : PthPcs, must_stop : SUBSET Dirs, conn : Nat]]
        /\ pth'[i].pc = "idle" /\ \A j \in PThreads \ {i} : pth'[j] = pth[j]
    BY <1>8 DEF TakeoverEnd, PthPcs
  <2>4. Active' = {} /\ "AW" \notin state'
    BY <1>8, <2>1 DEF TakeoverEnd, Active, A, Dirs
  <2>5. thread_mask' \in {{}, PThreads} \cup {{j} : j \in PThreads}
    BY <1>8 DEF TakeoverEnd
  <2>6. owner # 0 => \A j \in PThreads : pth'[j].pc = "iocb" => j \in thread_mask'
    BY <1>8, <2>3 DEF TakeoverEnd, takes_over
  <2> QED
    BY <1>8, <2>1, <2>2, <2>3, <2>4, <2>5, <2>6
       DEF TakeoverEnd, PolledExact, WantedWatched, UpdateQueued
<1>9. ASSUME NEW i \in PThreads, PollUpdates(i) PROVE FdInv'
  <2>1. UNCHANGED <<state, owner, idle_conn, thread_mask, running_mask, pth, owners>> /\ UNCHANGED Active
    BY <1>9 DEF PollUpdates, Active
  <2>2. UpdateQueued'
    BY <1>9 DEF PollUpdates, UpdateQueued
  <2>3. /\ polled_mask' = epoll_set' /\ epoll_set' \in [PThreads -> SUBSET Dirs]
        /\ owner # 0 /\ i \in thread_mask => Active \subseteq epoll_set'[i]
        /\ \A j \in PThreads \ {i} : epoll_set'[j] = epoll_set[j]
    <3>1. polled_mask = epoll_set
      BY DEF PolledExact
    <3>2. CASE owner = 0
      BY <1>9, <3>1, <3>2 DEF PollUpdates, polled
    <3>3. CASE owner # 0
      <4>1. PICK w \in SUBSET Dirs : /\ i \in thread_mask => Active \subseteq w
                                     /\ polled_mask' = [polled_mask EXCEPT ![i] = w]
                                     /\ epoll_set' = [epoll_set EXCEPT ![i] = w]
        BY <1>9, <3>3 DEF PollUpdates, _update_fd, watched, Active, Dirs
      <4> QED
        BY <3>1, <4>1
    <3> QED
      BY <3>2, <3>3
  <2>4. WantedWatched'
    BY <1>9, <2>1, <2>3 DEF PollUpdates, WantedWatched
  <2> QED
    BY <2>1, <2>2, <2>3, <2>4 DEF PolledExact
<1>10. ASSUME NEW i \in PThreads, PollMigrated(i) PROVE FdInv'
  <2>1. /\ UNCHANGED <<state, owner, idle_conn, thread_mask, running_mask, pth, owners>>
        /\ UNCHANGED <<upd_mask, fd_updt, upd_list>> /\ UNCHANGED Active
    BY <1>10 DEF PollMigrated, Active, pend_upd
  <2> QED
    BY <1>10, <2>1 DEF PollMigrated, PolledExact, WantedWatched, UpdateQueued
<1>11. ASSUME NEW i \in PThreads, StartIocb(i) \/ EndIocb(i) PROVE FdInv'
  <2>1. /\ UNCHANGED <<state, owner, idle_conn, thread_mask, owners>> /\ UNCHANGED Active
        /\ UNCHANGED <<upd_mask, fd_updt, upd_list, polled_mask, epoll_set>>
    BY <1>11 DEF StartIocb, EndIocb, Active, pend_upd, polled
  <2>2. PICK pc \in {"idle", "iocb", "stop"} :
          /\ pth' = [pth EXCEPT ![i].pc = pc] /\ (pc = "iocb" => i \in thread_mask)
          /\ running_mask' = IF pc = "iocb" THEN running_mask \cup {i} ELSE running_mask \ {i}
    BY <1>11 DEF StartIocb, EndIocb, Pc, fd_set_running
  <2>3. /\ pth' \in [PThreads -> [pc : PthPcs, must_stop : SUBSET Dirs, conn : Nat]]
        /\ pth[i].pc # "take" /\ pth'[i].pc = pc
        /\ \A j \in PThreads \ {i} : pth'[j] = pth[j]
    BY <1>11, <2>2 DEF StartIocb, EndIocb, PthPcs
  <2> QED
    BY <2>1, <2>2, <2>3 DEF PolledExact, WantedWatched, UpdateQueued
<1>12. ASSUME NEW i \in PThreads, StopUnwanted(i) PROVE FdInv'
  <2>1. /\ UNCHANGED <<state, owner, idle_conn, thread_mask, running_mask, owners>> /\ UNCHANGED Active
        /\ UNCHANGED <<upd_list, polled_mask, epoll_set>>
    BY <1>12 DEF StopUnwanted, Active, polled
  <2>2. UpdateQueued' /\ fd_updt \subseteq fd_updt' /\ upd_mask \subseteq upd_mask'
    BY <1>12 DEF StopUnwanted, UpdateQueued
  <2>3. /\ pth' \in [PThreads -> [pc : PthPcs, must_stop : SUBSET Dirs, conn : Nat]]
        /\ pth[i].pc = "stop" /\ pth'[i].pc = "idle"
        /\ \A j \in PThreads \ {i} : pth'[j] = pth[j]
    BY <1>12 DEF StopUnwanted, PthPcs
  <2> QED
    BY <2>1, <2>2, <2>3 DEF PolledExact, WantedWatched
<1>13. CASE UNCHANGED pVars
  BY <1>13 DEF pVars, pend_upd, polled, PolledExact, WantedWatched, UpdateQueued, Active
<1> QED
  BY <1>1, <1>2, <1>3, <1>4, <1>5, <1>6, <1>7, <1>8, <1>9, <1>10, <1>11, <1>12, <1>13 DEF PNext

LEMMA FdInvWatched == FdInv => EventsWatched
BY DEF FdInv, EventsWatched, OneIocb

\* For any number of threads and of owners, a direction that is wanted is watched or about to
\* be, and a callback runs on the thread of its descriptor alone, when there is no double-word
\* compare-and-swap: with one, fd_takeover() does not stop reading and the new thread of the
\* descriptor may not watch it.
THEOREM EventsStayWatched == ~CasDw => (PSpec => []EventsWatched)
<1> SUFFICES ASSUME ~CasDw PROVE PSpec => []EventsWatched
  OBVIOUS
<1>1. PInit => FdInv
  BY FdInvInit
<1>2. FdInv /\ [PNext]_pVars => FdInv'
  BY FdInvNext
<1>3. FdInv => EventsWatched
  BY FdInvWatched
<1> QED
  BY <1>1, <1>2, <1>3, PTL DEF PSpec
=============================================================================
