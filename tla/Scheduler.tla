----------------------------- MODULE Scheduler -----------------------------
(***************************************************************************)
(* The scheduler of tasks on several threads: the run queues, the wait     *)
(* queues and the wake-ups of src/task.c and include/proto/task.h, and the *)
(* way a thread goes to sleep in run_poll_loop() (src/haproxy.c) and       *)
(* leaves the poller (src/ev_epoll.c).                                     *)
(*                                                                         *)
(* A step is one atomic operation, one section under a lock, or accesses   *)
(* to what belongs to one thread.  The handlers of tasks and tasklets are  *)
(* external: they may move the date of their task, wake, schedule or       *)
(* destroy a task, wake a tasklet.  All tasks have the nice value 0.       *)
(***************************************************************************)
EXTENDS Ticks, Sequences, FiniteSetsExt

CONSTANTS SThreads,   \* threads, which are numbers
          STasks,
          STasklets,
          SMask,      \* [STasks -> SUBSET SThreads]: thread_mask
          SDestroyed, \* SUBSET STasks: tasks which may be destroyed
          STid,       \* [STasklets -> SThreads]: tid
          PickMax,    \* (3 * max_processed + 3) / 4
          MaxClock,   \* bound on the clock
          MaxCalls    \* bound on the calls made by handlers

\* A task has a thread to run on, and one that may be destroyed has only one ("the task has
\* to run on the current thread", task_destroy()).
ASSUME SchedAssumption ==
  /\ SThreads \subseteq Nat
  /\ SMask \in [STasks -> SUBSET SThreads] /\ \A t \in STasks : SMask[t] # {}
  /\ \A t \in SDestroyed : \E i \in SThreads : SMask[t] = {i}
  /\ STid \in [STasklets -> SThreads] /\ STasks \cap STasklets = {}
  /\ MaxClock \in Nat \ {0} /\ MaxCalls \in Nat

VARIABLES task,       \* [STasks -> [st, expire, wq, life]]; wq is a key or NotInWq
          tasklet,    \* [STasklets -> {"no", "shared", "urgent"}]: the list it is in
          rqueue,     \* Seq(STasks): the run queues, in the order of the keys; a task with
                      \* TASK_GLOBAL is in the global one, else in that of its thread
          tasklist,   \* [SThreads -> Seq(STasks)]: tasklets[TL_NORMAL]
          global_tasks_mask, sleeping_thread_mask,  \* SUBSET SThreads
          wakepipe,   \* SUBSET SThreads: threads with a byte in their pipe
          thr,        \* [SThreads -> [pc, cur, wt, back, now, until]]
          clock,
          calls

queues == <<rqueue, tasklist, global_tasks_mask>>
sleep == <<sleeping_thread_mask, wakepipe>>
sVars == <<task, tasklet, queues, sleep, thr, clock, calls>>

NotInWq == -1
Idle == <<>>
atleast2(mask) == \E i, j \in mask : i # j
Shared(t) == atleast2(SMask[t])

SInit ==
  /\ task = [t \in STasks |-> [st |-> {}, expire |-> TICK_ETERNITY, wq |-> NotInWq, life |-> "live"]]
  /\ tasklet = [k \in STasklets |-> "no"]
  /\ rqueue = <<>>
  /\ tasklist = [i \in SThreads |-> <<>>]
  /\ global_tasks_mask = {} /\ sleeping_thread_mask = {} /\ wakepipe = {}
  /\ thr = [i \in SThreads |-> [pc |-> "events", cur |-> Idle, wt |-> Idle, back |-> "none",
                                now |-> 1, until |-> TICK_ETERNITY]]
  /\ clock = 1 /\ calls = 0

At(i, pc) == thr[i].pc = pc
Goto(i, pc) == thr' = [thr EXCEPT ![i].pc = pc, ![i].wt = Idle, ![i].back = "none"]
-----------------------------------------------------------------------------
\* A mutation of wakeup_flags: a running task is queued at once.
wakeup_running(r, f) ==
  IF r.st \cap {"QUEUED"} = {} THEN [r EXCEPT !.st = @ \cup f \cup {"QUEUED"}]
  ELSE [r EXCEPT !.st = @ \cup f]

\* The state of a task after the atomic operations of task_wakeup().
wakeup_flags(r, f) ==
  IF r.st \cap {"RUNNING", "QUEUED"} = {} THEN [r EXCEPT !.st = @ \cup f \cup {"QUEUED"}]
  ELSE [r EXCEPT !.st = @ \cup f]

\* The task is then put in a run queue if this call has queued it.
Wakeup(i, tk, t, f, back) ==
  LET r == wakeup_flags(tk[t], f)
  IN  /\ task' = [tk EXCEPT ![t] = r]
      /\ IF "QUEUED" \in r.st /\ ("QUEUED" \notin tk[t].st)
         THEN thr' = [thr EXCEPT ![i].pc = "insert", ![i].wt = <<t>>, ![i].back = back]
         ELSE Goto(i, back)

\* __task_wakeup(), the insertion.
Insert(i) ==
  LET t == thr[i].wt[1]
  IN  /\ At(i, "insert")
      /\ rqueue' = Append(rqueue, t)
      /\ IF SMask[t] = {i} \/ ~atleast2(SThreads)
         THEN UNCHANGED <<task, global_tasks_mask>>
         ELSE /\ global_tasks_mask' = global_tasks_mask \cup SMask[t]
              /\ task' = [task EXCEPT ![t].st = @ \cup {"GLOBAL"}]
      /\ thr' = [thr EXCEPT ![i].pc = "kick"]
      /\ UNCHANGED <<tasklet, tasklist, sleep, clock, calls>>

\* The threads which may handle what was just queued.
kicked(i) == LET t == thr[i].wt[1] IN IF t \in STasks THEN SMask[t] ELSE {STid[t]}

\* If they all sleep the first one is woken up.
Kick(i) ==
  LET m == kicked(i) \ {i}
  IN  /\ At(i, "kick")
      /\ IF kicked(i) \subseteq sleeping_thread_mask
         THEN /\ sleeping_thread_mask' = sleeping_thread_mask \ {Min(m)}
              /\ wakepipe' = wakepipe \cup {Min(m)}
         ELSE UNCHANGED sleep
      /\ Goto(i, thr[i].back)
      /\ UNCHANGED <<task, tasklet, queues, clock, calls>>

\* tasklet_wakeup() for a tasklet which belongs to a thread.
TaskletWakeup(i, k, back) ==
  /\ IF tasklet[k] = "no"
     THEN /\ tasklet' = [tasklet EXCEPT ![k] = "shared"]
          /\ thr' = [thr EXCEPT ![i].pc = "kick", ![i].wt = <<k>>, ![i].back = back]
     ELSE Goto(i, back) /\ UNCHANGED tasklet
  /\ UNCHANGED <<task, queues, sleep, clock>>
-----------------------------------------------------------------------------
\* __task_queue() when the task is not in the queue or is there for later.
queue_sooner(r) ==
  IF r.wq = NotInWq \/ tick_is_lt(r.expire, r.wq) THEN [r EXCEPT !.wq = r.expire] ELSE r

\* The timers a thread looks at: its own, then the shared ones.
timers_of(i, shared) ==
  {t \in STasks : task[t].wq # NotInWq /\ Shared(t) = shared /\ (shared \/ i \in SMask[t])}

expired_of(i, shared) == {t \in timers_of(i, shared) : ~tick_is_lt(thr[i].now, task[t].wq)}

\* One turn of the loops of wake_expired_tasks().
ExpireOne(i, t, back) ==
  LET u == [task EXCEPT ![t].wq = NotInWq]
  IN  /\ CASE tick_is_expired(u[t].expire, thr[i].now) -> Wakeup(i, u, t, {"WOKEN"}, back)
           [] ~tick_isset(u[t].expire) -> task' = u /\ UNCHANGED thr
           [] OTHER -> task' = [u EXCEPT ![t] = queue_sooner(@)] /\ UNCHANGED thr
      /\ UNCHANGED <<tasklet, queues, sleep, clock, calls>>

WakeExpired(i, shared, pc, next) ==
  /\ At(i, pc)
  /\ \/ \E t \in expired_of(i, shared) :
          /\ \A u \in expired_of(i, shared) : task[t].wq <= task[u].wq
          /\ ExpireOne(i, t, pc)
     \/ /\ expired_of(i, shared) = {}
        /\ Goto(i, next)
        /\ UNCHANGED <<task, tasklet, queues, sleep, clock, calls>>

WakeExpiredLocal(i) == WakeExpired(i, FALSE, "local", "shared")
WakeExpiredShared(i) == WakeExpired(i, TRUE, "shared", "pick")
-----------------------------------------------------------------------------
\* process_runnable_tasks()
local_of(i) == {t \in STasks : SMask[t] = {i} /\ "GLOBAL" \notin task[t].st}
global_of(i) == {t \in STasks : i \in SMask[t] /\ "GLOBAL" \in task[t].st}

\* Is one of the tasks S in the run queues?
some_queued(S) == \E n \in DOMAIN rqueue : rqueue[n] \in S

thread_has_tasks(i) ==
  \/ i \in global_tasks_mask
  \/ some_queued(local_of(i))
  \/ tasklist[i] # <<>>
  \/ \E k \in STasklets : STid[k] = i /\ tasklet[k] # "no"

StartRound(i) ==
  /\ At(i, "pick")
  /\ IF thread_has_tasks(i)
     THEN /\ tasklet' = [k \in STasklets |-> IF STid[k] = i /\ tasklet[k] = "shared"
                                             THEN "urgent" ELSE tasklet[k]]
          /\ Goto(i, "urgent")
     ELSE Goto(i, "idle") /\ UNCHANGED tasklet
  /\ UNCHANGED <<task, queues, sleep, clock, calls>>

RunTasklet(i) ==
  LET mine == {k \in STasklets : STid[k] = i /\ tasklet[k] = "urgent"}
  IN  /\ At(i, "urgent")
      /\ \/ \E k \in mine : /\ tasklet' = [tasklet EXCEPT ![k] = "no"]
                            /\ thr' = [thr EXCEPT ![i].pc = "act", ![i].cur = <<k>>]
         \/ mine = {} /\ Goto(i, "fill") /\ UNCHANGED tasklet
      /\ UNCHANGED <<task, queues, sleep, clock, calls>>

\* A mutation of mask_after: the mask is cleared while tasks remain.
mask_after_clears(i, t) == global_tasks_mask \ {i}

\* The thread leaves the mask when the global run queue has nothing more for it.
mask_after(i, t) ==
  IF some_queued(global_of(i) \ {t}) THEN global_tasks_mask ELSE global_tasks_mask \ {i}

\* __task_unlink_rq() of the n-th task of q.
task_unlink_rq(q, n) == [m \in 1 .. Len(q) - 1 |-> IF m < n THEN q[m] ELSE q[m + 1]]

\* One task moves from a run queue to the list of the thread: the older head of the two.
Pick(i) ==
  LET may == local_of(i) \cup IF i \in global_tasks_mask THEN global_of(i) ELSE {}
  IN  /\ At(i, "fill") /\ Len(tasklist[i]) < PickMax
      /\ \E n \in DOMAIN rqueue : LET t == rqueue[n] IN
           /\ t \in may /\ \A m \in 1 .. n - 1 : rqueue[m] \notin may
           /\ rqueue' = task_unlink_rq(rqueue, n)
           /\ global_tasks_mask' = IF t \in global_of(i) THEN mask_after(i, t) ELSE global_tasks_mask
           /\ task' = [task EXCEPT ![t].st = @ \ {"GLOBAL"}]
           /\ tasklist' = [tasklist EXCEPT ![i] = Append(@, t)]
      /\ UNCHANGED <<tasklet, sleep, thr, clock, calls>>

\* The thread is in the mask but another one has taken the tasks.
PickNone(i) ==
  /\ At(i, "fill") /\ Len(tasklist[i]) < PickMax
  /\ i \in global_tasks_mask /\ ~some_queued(global_of(i))
  /\ global_tasks_mask' = global_tasks_mask \ {i}
  /\ UNCHANGED <<task, tasklet, rqueue, tasklist, sleep, thr, clock, calls>>

PickDone(i) ==
  /\ At(i, "fill")
  /\ \/ Len(tasklist[i]) >= PickMax
     \/ ~some_queued(local_of(i)) /\ i \notin global_tasks_mask
  /\ Goto(i, "list")
  /\ UNCHANGED <<task, tasklet, queues, sleep, clock, calls>>

\* run_tasks_from_list()
RunTask(i) ==
  LET t == Head(tasklist[i])
      r == [task[t] EXCEPT !.st = {"RUNNING"}]
  IN  /\ At(i, "list") /\ tasklist[i] # <<>>
      /\ tasklist' = [tasklist EXCEPT ![i] = Tail(@)]
      /\ IF r.life = "doomed"
         THEN task' = [task EXCEPT ![t] = [r EXCEPT !.life = "freed", !.st = {}]] /\ UNCHANGED thr
         ELSE /\ task' = [task EXCEPT ![t] = r]
              /\ thr' = [thr EXCEPT ![i].pc = "run", ![i].cur = <<t>>]
      /\ UNCHANGED <<tasklet, rqueue, global_tasks_mask, sleep, clock, calls>>

EndRound(i) ==
  /\ At(i, "list") /\ tasklist[i] = <<>>
  /\ Goto(i, "idle")
  /\ UNCHANGED <<task, tasklet, queues, sleep, clock, calls>>
-----------------------------------------------------------------------------
\* What handlers do: t->expire of their own task,
HandlerExpire(i) ==
  /\ At(i, "run")
  /\ \E e \in {TICK_ETERNITY, thr[i].now + 1} : task' = [task EXCEPT ![thr[i].cur[1]].expire = e]
  /\ Goto(i, "act")
  /\ UNCHANGED <<tasklet, queues, sleep, clock, calls>>

HandlerReturns(i) ==
  /\ At(i, "act")
  /\ Goto(i, "ret")
  /\ UNCHANGED <<task, tasklet, queues, sleep, clock, calls>>

\* task_wakeup() of another task, from a handler or from the handler of a descriptor.
CallWakeup(i, t) ==
  /\ At(i, "act") \/ At(i, "events")
  /\ calls < MaxCalls /\ task[t].life = "live" /\ thr[i].cur # <<t>>
  /\ Wakeup(i, task, t, {"WOKEN"}, IF At(i, "act") THEN "ret" ELSE "local")
  /\ calls' = calls + 1
  /\ UNCHANGED <<tasklet, queues, sleep, clock>>

CallTasklet(i, k) ==
  /\ At(i, "act") \/ At(i, "events")
  /\ calls < MaxCalls
  /\ TaskletWakeup(i, k, IF At(i, "act") THEN "ret" ELSE "local")
  /\ calls' = calls + 1

task_in_rq(t) == some_queued({t})

\* task_schedule(); a task which is not shared is only scheduled by its thread.
CallSchedule(i, t, when) ==
  LET r == task[t]
      w == IF r.wq # NotInWq THEN tick_first(when, r.expire) ELSE when
  IN  /\ At(i, "act") \/ At(i, "events")
      /\ calls < MaxCalls /\ r.life = "live" /\ i \in SMask[t] /\ thr[i].cur # <<t>>
      /\ task' = IF task_in_rq(t) THEN task
                 ELSE [task EXCEPT ![t] = queue_sooner([r EXCEPT !.expire = w])]
      /\ Goto(i, IF At(i, "act") THEN "ret" ELSE "local")
      /\ calls' = calls + 1
      /\ UNCHANGED <<tasklet, queues, sleep, clock>>

destroyed(i, t) ==
  IF thr[i].cur = <<t>> \/ task[t].st \cap {"QUEUED", "RUNNING"} = {}
  THEN [task[t] EXCEPT !.wq = NotInWq, !.life = "freed", !.st = {}]
  ELSE [task[t] EXCEPT !.wq = NotInWq, !.life = "doomed"]

\* task_destroy(): "the task has to run on the current thread".
CallDestroy(i, t) ==
  /\ At(i, "act") /\ task[t].life = "live" /\ t \in SDestroyed
  /\ SMask[t] = {i} \/ thr[i].cur = <<t>>
  /\ task' = [task EXCEPT ![t] = destroyed(i, t)]
  /\ thr' = [thr EXCEPT ![i].pc = IF thr[i].cur = <<t>> THEN "list" ELSE "ret",
                        ![i].cur = IF @ = <<t>> THEN Idle ELSE @]
  /\ UNCHANGED <<tasklet, queues, sleep, clock, calls>>
-----------------------------------------------------------------------------
\* run_tasks_from_list(), after the handler.
Return(i) ==
  LET t == thr[i].cur[1]
  IN  /\ At(i, "ret")
      /\ IF t \in STasklets
         THEN thr' = [thr EXCEPT ![i].pc = "urgent", ![i].cur = Idle] /\ UNCHANGED task
         ELSE /\ task' = [task EXCEPT ![t].st = @ \ {"RUNNING"}]
              /\ thr' = [thr EXCEPT ![i].cur = Idle, ![i].wt = <<t>>,
                                    ![i].pc = IF "WOKEN" \in task[t].st THEN "again" ELSE "requeue"]
      /\ UNCHANGED <<tasklet, queues, sleep, clock, calls>>

\* task_wakeup(t, 0)
Again(i) ==
  /\ At(i, "again")
  /\ Wakeup(i, task, thr[i].wt[1], {}, "list")
  /\ UNCHANGED <<tasklet, queues, sleep, clock, calls>>

\* task_queue(): the date is tested before the lock is taken,
Requeue(i) ==
  /\ At(i, "requeue")
  /\ IF tick_isset(task[thr[i].wt[1]].expire) THEN thr' = [thr EXCEPT ![i].pc = "locked"]
     ELSE Goto(i, "list")
  /\ UNCHANGED <<task, tasklet, queues, sleep, clock, calls>>

\* and read again with the lock held.
RequeueLocked(i) ==
  /\ At(i, "locked")
  /\ task' = [task EXCEPT ![thr[i].wt[1]] = queue_sooner(@)]
  /\ Goto(i, "list")
  /\ UNCHANGED <<tasklet, queues, sleep, clock, calls>>
-----------------------------------------------------------------------------
\* The poller is called with a delay of zero.
NoWait(i) == thr' = [thr EXCEPT ![i].pc = "poll", ![i].until = thr[i].now]

\* run_poll_loop(): the thread announces that it will sleep, and looks again.
GoIdle(i) ==
  /\ At(i, "idle")
  /\ IF thread_has_tasks(i) THEN NoWait(i) ELSE Goto(i, "mark")
  /\ UNCHANGED <<task, tasklet, queues, sleep, clock, calls>>

MarkSleeping(i) ==
  /\ At(i, "mark")
  /\ sleeping_thread_mask' = sleeping_thread_mask \cup {i}
  /\ Goto(i, "look")
  /\ UNCHANGED <<task, tasklet, queues, wakepipe, clock, calls>>

\* A mutation of LookAgain: the thread does not look again.
LookAgainNot(i) ==
  /\ At(i, "look")
  /\ Goto(i, "timers")
  /\ UNCHANGED <<sleeping_thread_mask, task, tasklet, queues, wakepipe, clock, calls>>

LookAgain(i) ==
  /\ At(i, "look")
  /\ IF thread_has_tasks(i)
     THEN NoWait(i) /\ sleeping_thread_mask' = sleeping_thread_mask \ {i}
     ELSE Goto(i, "timers") /\ UNCHANGED sleeping_thread_mask
  /\ UNCHANGED <<task, tasklet, queues, wakepipe, clock, calls>>

first_timer(i, shared) ==
  LET keys == {task[t].wq : t \in timers_of(i, shared)}
  IN  IF keys = {} THEN TICK_ETERNITY ELSE Min(keys)

\* A mutation of next_timer_expiry: the shared timers are not looked at.
next_timer_local(i) == first_timer(i, FALSE)

next_timer_expiry(i) == tick_first(first_timer(i, FALSE), first_timer(i, TRUE))

Sleep(i) ==
  /\ At(i, "timers")
  /\ thr' = [thr EXCEPT ![i].pc = "poll", ![i].until = next_timer_expiry(i)]
  /\ UNCHANGED <<task, tasklet, queues, sleep, clock, calls>>

\* The poller returns: a byte in the pipe, the end of the delay, or another event.
PollEnds(i) == i \in wakepipe \/ tick_is_expired(thr[i].until, clock)

LeavePoll(i) ==
  /\ At(i, "poll")
  /\ thr' = [thr EXCEPT ![i].pc = "events", ![i].now = clock, ![i].until = TICK_ETERNITY]
  /\ sleeping_thread_mask' = sleeping_thread_mask \ {i}
  /\ wakepipe' = wakepipe \ {i}
  /\ UNCHANGED <<task, tasklet, queues, clock, calls>>

PollReturns(i) == PollEnds(i) /\ LeavePoll(i)
PollEvent(i) == ~PollEnds(i) /\ calls < MaxCalls /\ LeavePoll(i)

EventsDone(i) ==
  /\ At(i, "events")
  /\ Goto(i, "local")
  /\ UNCHANGED <<task, tasklet, queues, sleep, clock, calls>>

Tick ==
  /\ clock < MaxClock
  /\ clock' = clock + 1
  /\ UNCHANGED <<task, tasklet, queues, sleep, thr, calls>>

\* The steps a thread takes by itself.
Loop(i) ==
  \/ Insert(i) \/ Kick(i)
  \/ WakeExpiredLocal(i) \/ WakeExpiredShared(i)
  \/ StartRound(i) \/ RunTasklet(i) \/ Pick(i) \/ PickNone(i) \/ PickDone(i)
  \/ RunTask(i) \/ EndRound(i)
  \/ HandlerExpire(i) \/ HandlerReturns(i)
  \/ Return(i) \/ Again(i) \/ Requeue(i) \/ RequeueLocked(i)
  \/ GoIdle(i) \/ MarkSleeping(i) \/ LookAgain(i) \/ Sleep(i) \/ PollReturns(i) \/ EventsDone(i)

Calls(i) ==
  \/ \E t \in STasks : CallWakeup(i, t) \/ CallDestroy(i, t)
  \/ \E t \in STasks : CallSchedule(i, t, clock + 1)
  \/ \E k \in STasklets : CallTasklet(i, k)
  \/ PollEvent(i)

SNext == Tick \/ \E i \in SThreads : Loop(i) \/ Calls(i)

SSpec == SInit /\ [][SNext]_sVars
-----------------------------------------------------------------------------
Pcs == {"events", "local", "shared", "pick", "urgent", "fill", "list", "run", "act", "ret",
        "again", "requeue", "locked", "insert", "kick", "idle", "mark", "look", "timers", "poll"}

\* The types of the variables of the scheduler.
SchedTypeOK ==
  /\ \A t \in STasks : /\ task[t].st \subseteq {"RUNNING", "QUEUED", "GLOBAL", "WOKEN"}
                       /\ task[t].expire \in 0 .. MaxClock + 1
                       /\ task[t].wq \in -1 .. MaxClock + 1
                       /\ task[t].life \in {"live", "doomed", "freed"}
  /\ tasklet \in [STasklets -> {"no", "shared", "urgent"}]
  /\ \A i \in SThreads : thr[i].pc \in Pcs
  /\ global_tasks_mask \cup sleeping_thread_mask \cup wakepipe \subseteq SThreads
  /\ calls \in 0 .. MaxCalls

\* The places a task is in: a run queue, the list of a thread, the hands of a thread.
places(t) ==
  LET in(q) == {n \in DOMAIN q : q[n] = t}
  IN  {<<"queue", 0, n>> : n \in in(rqueue)}
      \cup (UNION {{<<"list", i, n>> : n \in in(tasklist[i])} : i \in SThreads})
      \cup {<<"insert", i, 0>> : i \in {j \in SThreads : At(j, "insert") /\ thr[j].wt = <<t>>}}
      \cup {<<"run", i, 0>> : i \in {j \in SThreads : thr[j].cur = <<t>>}}

\* A task is in one place at most: it never runs on two threads at once, nor is it
\* queued while it runs (task_wakeup() against run_tasks_from_list()).  Its flags say
\* where it is, and a task that was freed is in none.
OnePlace ==
  \A t \in STasks :
    /\ \A p, q \in places(t) : p = q
    /\ places(t) # {} <=> task[t].st \cap {"QUEUED", "RUNNING"} # {}
    /\ "GLOBAL" \in task[t].st => task_in_rq(t)
    /\ "RUNNING" \in task[t].st <=> \E i \in SThreads : thr[i].cur = <<t>>
    /\ task[t].life = "doomed" => "QUEUED" \in task[t].st
    /\ task[t].life = "freed" => places(t) = {}

\* A thread in the poller which nothing will make return at this time.
Asleep(i) == At(i, "poll") /\ ~PollEnds(i)

\* No wake-up is lost between a thread that queues work and one that goes to sleep: work
\* that is queued has a thread to do it that is not asleep (__task_wakeup() and
\* tasklet_wakeup() against run_poll_loop()), and a thread that works is not marked asleep.
NoLostWakeup ==
  /\ \A n \in DOMAIN rqueue : LET t == rqueue[n] IN
        /\ "GLOBAL" \in task[t].st => SMask[t] \subseteq global_tasks_mask
        /\ \/ \E i \in SMask[t] : ~Asleep(i)
           \/ \E i \in SThreads : At(i, "kick") /\ thr[i].wt = <<t>>
  /\ \A k \in STasklets : tasklet[k] # "no" =>
        \/ ~Asleep(STid[k])
        \/ \E i \in SThreads : At(i, "kick") /\ thr[i].wt = <<k>>
  /\ \A i \in SThreads : Asleep(i) => tasklist[i] = <<>>
  /\ \A i \in sleeping_thread_mask : thr[i].pc \in {"look", "timers", "poll"}

\* A task with a date that is neither queued nor running is in the wait queue no later
\* than its date, whatever its handler, task_schedule() of another thread and
\* wake_expired_tasks() do to them.
TimerArmed ==
  \A t \in STasks :
    (/\ task[t].life = "live" /\ tick_isset(task[t].expire)
     /\ task[t].st \cap {"QUEUED", "RUNNING"} = {}
     /\ ~\E i \in SThreads : thr[i].pc \in {"again", "requeue", "locked"} /\ thr[i].wt = <<t>>)
    => task[t].wq # NotInWq /\ task[t].wq <= task[t].expire

\* No timer is slept past: the thread of a timer is awake, or sleeps no later than its key
\* (next_timer_expiry()); for a timer that is shared one of the threads does.  A shared task
\* may be queued without a date (its handler runs again on another thread while task_queue()
\* waits for the lock) and then hides the other shared ones.
watches(i, t) == Asleep(i) => tick_isset(thr[i].until) /\ thr[i].until <= task[t].wq

TimerWatched ==
  \A t \in STasks : task[t].wq # NotInWq =>
    IF Shared(t)
    THEN \/ \E u \in STasks : Shared(u) /\ task[u].wq = TICK_ETERNITY
         \/ \E i \in SThreads : watches(i, t)
    ELSE \A i \in SMask[t] : watches(i, t)

\* "Destroys a task : it's unlinked from the wait queues" (task_destroy()): a task that was
\* destroyed is in no wait queue, and no thread is about to put it there.
FreedForgotten ==
  \A t \in STasks : task[t].life # "live" =>
    /\ task[t].wq = NotInWq
    /\ ~\E i \in SThreads : thr[i].pc \in {"again", "requeue", "locked"} /\ thr[i].wt = <<t>>

SFairness == \A i \in SThreads : WF_sVars(Loop(i))

\* A task that was woken up runs (or is freed): its flags are consumed by a thread, as long
\* as every thread keeps running its loop.
WokenRuns ==
  \A t \in STasks : ("WOKEN" \in task[t].st) ~> ("WOKEN" \notin task[t].st)

\* A task is where its flags say and nowhere else, from its creation to its end: neither a
\* wake-up, nor another thread, nor task_destroy() puts it in two places or leaves it in one.
TasksPlaced == SchedTypeOK /\ OnePlace /\ FreedForgotten

\* No timer is lost: a date that was given to a task is in a wait queue until the task runs
\* (task_queue(), task_schedule()), and a thread wakes up for it (next_timer_expiry()).
TimersKept == TimerArmed /\ TimerWatched

=============================================================================
