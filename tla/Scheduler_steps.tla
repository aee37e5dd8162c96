--------------------------- MODULE Scheduler_steps ---------------------------
(***************************************************************************)
(* The inductive invariant of the scheduler, and the lemmas which say that *)
(* the steps of a thread that leave the run queues alone preserve it.  The *)
(* others, and the theorems, are in Scheduler_proofs.                      *)
(***************************************************************************)
EXTENDS Scheduler, TLAPS

(***************************************************************************)
(* The scheduler, for any set of threads, tasks, tasklets and masks.       *)
(*                                                                         *)
(* None of NoLostWakeup, TasksPlaced and TimersKept is inductive.  The     *)
(* inductive invariant SInv says of a thread what its program counter and  *)
(* its two pointers tell of each other (Locals), of a task that its flags  *)
(* tell the place it is in and its date the key it is queued with (Tasks), *)
(* of the queues that a task is in them once (Lists), of the masks that    *)
(* they cover the tasks queued (Masks), and of the sleep of the threads    *)
(* that work is never queued behind the back of all those it is for        *)
(* (Watched).  There is a lemma for each action.  What most actions leave  *)
(* alone is gathered in frame lemmas, and a task is looked at through a    *)
(* few predicates (Handles, Inserting, Returning, InList), so that a frame *)
(* is stated once for all the places where a task may be.                  *)
(***************************************************************************)
TaskFlags == {"RUNNING", "QUEUED", "GLOBAL", "WOKEN"}
LifeSet == {"live", "doomed", "freed"}
TaskRec == [st : SUBSET TaskFlags, expire : 0 .. MaxClock + 1, wq : -1 .. MaxClock + 1, life : LifeSet]
Slots == {Idle} \cup {<<x>> : x \in STasks \cup STasklets}
Backs == {"ret", "local", "shared", "list"}
ThrRec == [pc : Pcs, cur : Slots, wt : Slots, back : Backs \cup {"none"},
           now : 1 .. MaxClock, until : 0 .. MaxClock + 1]

SchedTypes ==
  /\ task \in [STasks -> TaskRec]
  /\ tasklet \in [STasklets -> {"no", "shared", "urgent"}]
  /\ rqueue \in Seq(STasks) /\ tasklist \in [SThreads -> Seq(STasks)]
  /\ global_tasks_mask \subseteq SThreads /\ sleeping_thread_mask \subseteq SThreads
  /\ wakepipe \subseteq SThreads /\ clock \in 1 .. MaxClock /\ calls \in 0 .. MaxCalls
  /\ thr \in [SThreads -> ThrRec]

\* A thread holds a task or a tasklet in task_wakeup() or task_queue(), and runs one: whether
\* it is about to queue it, to have it run again or wait, or to wake up a thread for it.
Holds(i, x) == thr[i].wt = <<x>>
Handles(i, x) == thr[i].cur = <<x>>
Inserting(i, t) == thr[i].pc = "insert" /\ Holds(i, t)
Returning(i, t) == thr[i].pc \in {"again", "requeue", "locked"} /\ Holds(i, t)
KicksFor(i, x) == thr[i].pc = "kick" /\ Holds(i, x)
InList(i, t) == \E n \in DOMAIN tasklist[i] : tasklist[i][n] = t

\* What the place of a thread in its loop says of its pointers.
LocalsAt(i) ==
  /\ thr[i].now <= clock
  /\ thr[i].pc \in {"insert", "again", "requeue", "locked"} => \E t \in STasks : Holds(i, t)
  /\ thr[i].pc = "kick" => \E x \in STasks \cup STasklets : Holds(i, x)
  /\ thr[i].pc \in {"insert", "kick"} => thr[i].back \in Backs
  /\ thr[i].pc = "run" => \E t \in STasks : Handles(i, t)
  /\ (\E x \in STasks \cup STasklets : Handles(i, x))
     <=> \/ thr[i].pc \in {"run", "act", "ret"}
         \/ thr[i].pc \in {"insert", "kick"} /\ thr[i].back = "ret"
Locals == \A i \in SThreads : LocalsAt(i)

\* No element is twice in a sequence.
Distinct(q) == \A m, n \in DOMAIN q : q[m] = q[n] => m = n

\* The flags of a task say where it is; the places where it may be exclude each other, and a
\* thread only has the tasks whose mask it is in.
PlacesOf(t) ==
  /\ "QUEUED" \in task[t].st
     <=> task_in_rq(t) \/ \E i \in SThreads : InList(i, t) \/ Inserting(i, t)
  /\ "RUNNING" \in task[t].st <=> \E i \in SThreads : Handles(i, t)
  /\ "RUNNING" \in task[t].st => "QUEUED" \notin task[t].st
  /\ "GLOBAL" \in task[t].st => task_in_rq(t)
  /\ \A i \in SThreads :
       /\ InList(i, t) \/ Inserting(i, t) => ~task_in_rq(t)
       /\ InList(i, t) \/ Handles(i, t) \/ Returning(i, t) => i \in SMask[t]
       /\ \A j \in SThreads : /\ InList(i, t) => ~Inserting(j, t)
                              /\ InList(i, t) /\ InList(j, t) => i = j
                              /\ Inserting(i, t) /\ Inserting(j, t) => i = j
                              /\ Handles(i, t) /\ Handles(j, t) => i = j

\* No task is twice in the run queues, nor in the list of a thread.
Lists == Distinct(rqueue) /\ \A i \in SThreads : Distinct(tasklist[i])

\* A task that was destroyed waits in a queue to be freed, or is nowhere; no thread runs it.
Alive(t) ==
  /\ task[t].life = "doomed" => "QUEUED" \in task[t].st
  /\ task[t].life = "freed" => "QUEUED" \notin task[t].st /\ "RUNNING" \notin task[t].st
  /\ task[t].life # "live" => task[t].wq = NotInWq
  /\ \A i \in SThreads : Handles(i, t) \/ Returning(i, t) => task[t].life = "live"

\* A task that is not shared is never queued without a date: only its thread writes the date.
Dated(t) ==
  /\ task[t].wq # TICK_ETERNITY
  /\ \A i \in SThreads : Returning(i, t) /\ thr[i].pc = "locked" => task[t].expire # TICK_ETERNITY

\* A task with a date that no thread has in hand is in the wait queue, no later than its date.
Armed(t) ==
  (/\ task[t].life = "live" /\ tick_isset(task[t].expire)
   /\ "QUEUED" \notin task[t].st /\ "RUNNING" \notin task[t].st
   /\ \A i \in SThreads : ~Returning(i, t))
  => task[t].wq # NotInWq /\ task[t].wq <= task[t].expire
TaskInv(t) == PlacesOf(t) /\ Alive(t) /\ Armed(t) /\ (~Shared(t) => Dated(t))
Tasks == \A t \in STasks : TaskInv(t)

\* The mask of the global queue covers the tasks it has; the other tasks have one thread.
Masked(t) == task_in_rq(t) =>
  IF "GLOBAL" \in task[t].st THEN SMask[t] \subseteq global_tasks_mask
                             ELSE \E i \in SThreads : SMask[t] = {i}
Masks == \A t \in STasks : Masked(t)

\* A thread that will look for work before it sleeps, or not sleep.
Alert(i) == \/ i \in wakepipe \/ thr[i].pc \notin {"timers", "poll"}
            \/ thr[i].pc = "poll" /\ thr[i].until = thr[i].now

\* A thread is about to wake up another one for x.
Kicking(x) == \E i \in SThreads : KicksFor(i, x)

\* A thread with tasks in its list will not sleep, and one that goes to sleep is marked, or
\* was seen by a thread that wakes it up.
Ready(i) ==
  /\ tasklist[i] # <<>> => thr[i].pc # "timers" /\ (thr[i].pc = "poll" => thr[i].until = thr[i].now)
  /\ i \in sleeping_thread_mask => thr[i].pc \in {"look", "timers", "poll"}
  /\ thr[i].pc \in {"look", "timers", "poll"} =>
       \/ i \in sleeping_thread_mask \/ i \in wakepipe
       \/ thr[i].pc = "poll" /\ thr[i].until = thr[i].now

\* Work that is queued is known to a thread it is for, or is about to be.
Watched ==
  /\ \A t \in STasks : task_in_rq(t) => Kicking(t) \/ \E i \in SMask[t] : Alert(i)
  /\ \A k \in STasklets : tasklet[k] # "no" => Kicking(k) \/ Alert(STid[k])
  /\ \A i \in SThreads : Ready(i)

SInv == SchedTypes /\ Locals /\ Tasks /\ TimerWatched /\ Lists /\ Masks /\ Watched

\* A task that is not shared has one thread, and so has any task when there is one thread.
LEMMA Alone ==
  ASSUME NEW t \in STasks, ~Shared(t) \/ ~atleast2(SThreads)
  PROVE  \E i \in SThreads : SMask[t] = {i}
<1>1. SMask[t] # {} /\ SMask[t] \subseteq SThreads
  BY SchedAssumption
<1>2. \A i, j \in SMask[t] : i = j
  BY <1>1 DEF Shared, atleast2
<1> QED
  BY <1>1, <1>2

\* __task_queue() changes the key only, which is then no later than the date of the task.
LEMMA QueueSooner ==
  ASSUME NEW r \in TaskRec
  PROVE  /\ queue_sooner(r) \in TaskRec
         /\ queue_sooner(r).st = r.st /\ queue_sooner(r).expire = r.expire
         /\ queue_sooner(r).life = r.life
         /\ queue_sooner(r).wq # NotInWq /\ queue_sooner(r).wq <= r.expire
         /\ queue_sooner(r).wq \in {r.wq, r.expire}
BY SchedAssumption DEF TaskRec, queue_sooner, tick_is_lt, NotInWq

\* The atomic operations of task_wakeup() mark as queued a task that does not run.
LEMMA WakeupFlags ==
  ASSUME NEW r \in TaskRec, NEW f \in SUBSET {"WOKEN"}
  PROVE  /\ wakeup_flags(r, f) \in TaskRec
         /\ wakeup_flags(r, f).expire = r.expire /\ wakeup_flags(r, f).wq = r.wq
         /\ wakeup_flags(r, f).life = r.life
         /\ \A x \in {"RUNNING", "GLOBAL"} : x \in wakeup_flags(r, f).st <=> x \in r.st
         /\ "QUEUED" \in wakeup_flags(r, f).st <=> "QUEUED" \in r.st \/ "RUNNING" \notin r.st
BY DEF TaskRec, wakeup_flags, TaskFlags

\* A step of wake_expired_tasks() on a task found in a wait queue: the task is dropped from
\* it, is queued again for its later date, or is woken up.
ExpireCase(i, t, pc) ==
  LET u == [task EXCEPT ![t].wq = NotInWq]
  IN  /\ u \in [STasks -> TaskRec]
      /\ \/ tick_isset(u[t].expire) /\ Wakeup(i, u, t, {"WOKEN"}, pc)
         \/ ~tick_isset(u[t].expire) /\ task' = u /\ UNCHANGED thr
         \/ tick_isset(u[t].expire) /\ task' = [u EXCEPT ![t] = queue_sooner(u[t])] /\ UNCHANGED thr

\* wake_expired_tasks() looks at the first task of the wait queue, or goes on.
LEMMA WakeExpiredCases ==
  ASSUME SchedTypes, NEW i \in SThreads, NEW shared \in BOOLEAN, NEW pc \in {"local", "shared"},
         NEW next \in {"shared", "pick"}, WakeExpired(i, shared, pc, next)
  PROVE  /\ thr[i].pc = pc /\ UNCHANGED <<tasklet, queues, sleep, clock, calls>>
         /\ \/ Goto(i, next) /\ UNCHANGED task
            \/ \E t \in timers_of(i, shared) : ExpireCase(i, t, pc)
<1>1. thr[i].pc = pc
  BY DEF WakeExpired, At
<1>2. CASE Goto(i, next) /\ UNCHANGED <<task, tasklet, queues, sleep, clock, calls>>
  BY <1>1, <1>2
<1>3. ASSUME NEW t \in expired_of(i, shared), ExpireOne(i, t, pc)
      PROVE  /\ UNCHANGED <<tasklet, queues, sleep, clock, calls>>
             /\ t \in timers_of(i, shared)
             /\ ExpireCase(i, t, pc)
  <2> DEFINE u == [task EXCEPT ![t].wq = NotInWq]
  <2>1. t \in STasks
    BY <1>3 DEF expired_of, timers_of
  <2>2. u \in [STasks -> TaskRec]
    <3>1. NotInWq \in -1 .. MaxClock + 1
      BY SchedAssumption DEF NotInWq
    <3> QED
      BY <2>1, <3>1, Zenon DEF SchedTypes, TaskRec
  <2> HIDE DEF u
  <2>3. CASE tick_is_expired(u[t].expire, thr[i].now)
    <3>1. Wakeup(i, u, t, {"WOKEN"}, pc)
      BY <1>3, <2>3 DEF ExpireOne, u, tick_is_expired
    <3>2. tick_isset(u[t].expire)
      BY <2>3 DEF tick_is_expired
    <3>3. ExpireCase(i, t, pc)
      BY <2>2, <3>1, <3>2 DEF ExpireCase, u
    <3> QED
      BY <1>3, <3>3 DEF ExpireOne, expired_of
  <2>4. CASE ~tick_is_expired(u[t].expire, thr[i].now)
    BY <1>3, <2>2, <2>4 DEF ExpireOne, ExpireCase, u, expired_of
  <2> QED
    BY <2>3, <2>4
<1> QED
  BY <1>1, <1>2, <1>3 DEF WakeExpired

\* The record of one thread changes, to the values given.
ThrTo(i, pc, cur, wt, back, date, until) ==
  /\ thr' \in [SThreads -> ThrRec] /\ \A j \in SThreads \ {i} : thr'[j] = thr[j]
  /\ thr'[i].pc = pc /\ thr'[i].cur = cur /\ thr'[i].wt = wt /\ thr'[i].back = back
  /\ thr'[i].now = date /\ thr'[i].until = until

\* A pointer is NULL or tells what it points to.
LEMMA Slot ==
  /\ \A x : ~(Idle = <<x>>)
  /\ \A x, y : (<<x>> = <<y>>) <=> (x = y)
  /\ \A x : <<x>>[1] = x
  /\ \A x \in STasks \cup STasklets : <<x>> \in Slots
  /\ Idle \in Slots
  /\ \A s \in Slots : s = Idle \/ \E x \in STasks \cup STasklets : s = <<x>>
BY DEF Slots, Idle

\* The updates of the record of a thread found in the actions.
LEMMA ThrPc ==
  ASSUME NEW i \in SThreads, NEW pc \in Pcs, thr \in [SThreads -> ThrRec],
         thr' = [thr EXCEPT ![i].pc = pc]
  PROVE  ThrTo(i, pc, thr[i].cur, thr[i].wt, thr[i].back, thr[i].now, thr[i].until)
BY DEF ThrTo, ThrRec

LEMMA ThrCur ==
  ASSUME NEW i \in SThreads, NEW pc \in Pcs, NEW cur \in Slots, thr \in [SThreads -> ThrRec],
         thr' = [thr EXCEPT ![i].pc = pc, ![i].cur = cur]
  PROVE  ThrTo(i, pc, cur, thr[i].wt, thr[i].back, thr[i].now, thr[i].until)
BY Zenon DEF ThrTo, ThrRec

LEMMA ThrUntil ==
  ASSUME NEW i \in SThreads, NEW pc \in Pcs, NEW until \in 0 .. MaxClock + 1,
         thr \in [SThreads -> ThrRec], thr' = [thr EXCEPT ![i].pc = pc, ![i].until = until]
  PROVE  ThrTo(i, pc, thr[i].cur, thr[i].wt, thr[i].back, thr[i].now, until)
BY Zenon DEF ThrTo, ThrRec

LEMMA ThrLeave ==
  ASSUME NEW i \in SThreads, NEW pc \in Pcs, NEW date \in 1 .. MaxClock, NEW until \in 0 .. MaxClock + 1,
         thr \in [SThreads -> ThrRec],
         thr' = [thr EXCEPT ![i].pc = pc, ![i].now = date, ![i].until = until]
  PROVE  ThrTo(i, pc, thr[i].cur, thr[i].wt, thr[i].back, date, until)
BY Zenon DEF ThrTo, ThrRec

LEMMA ThrReturn ==
  ASSUME NEW i \in SThreads, NEW pc \in Pcs, NEW cur \in Slots, NEW wt \in Slots,
         thr \in [SThreads -> ThrRec],
         thr' = [thr EXCEPT ![i].cur = cur, ![i].wt = wt, ![i].pc = pc]
  PROVE  ThrTo(i, pc, cur, wt, thr[i].back, thr[i].now, thr[i].until)
BY Zenon DEF ThrTo, ThrRec

LEMMA ThrSlot ==
  ASSUME NEW i \in SThreads, NEW pc \in Pcs, NEW wt \in Slots, NEW back \in Backs \cup {"none"},
         thr \in [SThreads -> ThrRec],
         thr' = [thr EXCEPT ![i].pc = pc, ![i].wt = wt, ![i].back = back]
  PROVE  ThrTo(i, pc, thr[i].cur, wt, back, thr[i].now, thr[i].until)
BY ZenonT(30) DEF ThrTo, ThrRec

LEMMA ThrGoto ==
  ASSUME NEW i \in SThreads, NEW pc \in Pcs, thr \in [SThreads -> ThrRec], Goto(i, pc)
  PROVE  ThrTo(i, pc, thr[i].cur, Idle, "none", thr[i].now, thr[i].until)
BY ThrSlot, Slot, Zenon DEF Goto

\* What a step of a thread changes in the way the threads have tasks in hand.
SeenAs(i, pc, cur, wt) ==
  /\ \A j \in SThreads \ {i} : \A x :
        /\ Inserting(j, x)' <=> Inserting(j, x)
        /\ Returning(j, x)' <=> Returning(j, x)
        /\ KicksFor(j, x)' <=> KicksFor(j, x)
        /\ Handles(j, x)' <=> Handles(j, x)
  /\ \A x : /\ Inserting(i, x)' <=> pc = "insert" /\ wt = <<x>>
            /\ Returning(i, x)' <=> pc \in {"again", "requeue", "locked"} /\ wt = <<x>>
            /\ KicksFor(i, x)' <=> pc = "kick" /\ wt = <<x>>
            /\ Handles(i, x)' <=> cur = <<x>>
  /\ cur = thr[i].cur => \A x : Handles(i, x)' <=> Handles(i, x)

LEMMA Seen ==
  ASSUME NEW i \in SThreads, NEW pc, NEW cur, NEW wt, NEW back, NEW date, NEW until,
         ThrTo(i, pc, cur, wt, back, date, until)
  PROVE  /\ SeenAs(i, pc, cur, wt)
         /\ \A j \in SThreads \ {i} : thr'[j] = thr[j]
BY SMTT(30) DEF SeenAs, ThrTo, Inserting, Returning, KicksFor, Handles, Holds

\* What a step of a thread changes in the way the threads have tasks in hand.
LEMMA Views ==
  ASSUME NEW i \in SThreads, NEW pc, NEW cur, NEW wt, NEW back, NEW date, NEW until,
         ThrTo(i, pc, cur, wt, back, date, until)
  PROVE  /\ \A j \in SThreads \ {i} : \A x :
              /\ Inserting(j, x)' <=> Inserting(j, x)
              /\ Returning(j, x)' <=> Returning(j, x)
              /\ KicksFor(j, x)' <=> KicksFor(j, x)
              /\ Handles(j, x)' <=> Handles(j, x)
         /\ \A x : /\ Inserting(i, x)' <=> pc = "insert" /\ wt = <<x>>
                   /\ Returning(i, x)' <=> pc \in {"again", "requeue", "locked"} /\ wt = <<x>>
                   /\ KicksFor(i, x)' <=> pc = "kick" /\ wt = <<x>>
                   /\ Handles(i, x)' <=> cur = <<x>>
         /\ cur = thr[i].cur => \A x : Handles(i, x)' <=> Handles(i, x)
BY DEF ThrTo, Inserting, Returning, KicksFor, Handles, Holds

\* The other threads keep their pointers.
LEMMA LocalsStep ==
  ASSUME Locals, clock' = clock, NEW i \in SThreads, NEW pc, NEW cur, NEW wt, NEW back, NEW date,
         NEW until, ThrTo(i, pc, cur, wt, back, date, until), LocalsAt(i)'
  PROVE  Locals'
<1> SUFFICES ASSUME NEW j \in SThreads PROVE LocalsAt(j)'
  BY DEF Locals
<1>1. CASE j = i
  BY <1>1
<1>2. CASE j # i
  <2>1. thr'[j] = thr[j] /\ LocalsAt(j)
    BY <1>2 DEF ThrTo, Locals
  <2> QED
    BY <2>1 DEF LocalsAt, Holds, Handles
<1> QED
  BY <1>1, <1>2

QueuesKept == UNCHANGED <<rqueue, tasklist>>

\* Queues that do not change have the same tasks.
LEMMA InQueues ==
  ASSUME QueuesKept
  PROVE  /\ \A t : task_in_rq(t)' <=> task_in_rq(t)
         /\ \A i, t : InList(i, t)' <=> InList(i, t)
BY DEF QueuesKept, task_in_rq, some_queued, InList

\* A step leaves a task where it was, with its date and its key.
TaskKept(i, t) ==
  /\ \A f \in {"QUEUED", "RUNNING", "GLOBAL"} : f \in task'[t].st <=> f \in task[t].st
  /\ task'[t].life = task[t].life /\ task'[t].expire = task[t].expire /\ task'[t].wq = task[t].wq
  /\ Inserting(i, t)' <=> Inserting(i, t)
  /\ Handles(i, t)' <=> Handles(i, t)
  /\ Returning(i, t)' <=> Returning(i, t)
  /\ Returning(i, t)' /\ thr'[i].pc = "locked" => thr[i].pc = "locked"
  /\ task_in_rq(t)' <=> task_in_rq(t)
  /\ \A j \in SThreads : InList(j, t)' <=> InList(j, t)

\* What a step leaves where it was stays well placed.
LEMMA TaskFrame ==
  ASSUME NEW t \in STasks, TaskInv(t),
         NEW i \in SThreads, NEW pc, NEW cur, NEW wt, NEW back, NEW date, NEW until,
         ThrTo(i, pc, cur, wt, back, date, until), TaskKept(i, t)
  PROVE  TaskInv(t)'
<1>1. \A j \in SThreads : /\ Inserting(j, t)' <=> Inserting(j, t)
                          /\ Handles(j, t)' <=> Handles(j, t)
                          /\ Returning(j, t)' <=> Returning(j, t)
                          /\ Returning(j, t)' /\ thr'[j].pc = "locked" => thr[j].pc = "locked"
  BY Views, ZenonT(30) DEF TaskKept, ThrTo
<1>2. PlacesOf(t)'
  BY <1>1, Zenon DEF TaskKept, TaskInv, PlacesOf
<1>3. Alive(t)'
  BY <1>1, Zenon DEF TaskKept, TaskInv, Alive
<1>4. Armed(t)'
  BY <1>1, Zenon DEF TaskKept, TaskInv, Armed
<1>5. ~Shared(t) => Dated(t)'
  BY <1>1, Zenon DEF TaskKept, TaskInv, Dated
<1>6. Shared(t)' <=> Shared(t)
  BY DEF Shared
<1> QED
  BY <1>2, <1>3, <1>4, <1>5, <1>6 DEF TaskInv

\* A step of a thread that does not sleep after it keeps the timers watched: it takes keys out,
\* or changes those of tasks that are its own, or shared.
LEMMA TimersStep ==
  ASSUME TimerWatched, clock' = clock,
         NEW i \in SThreads, NEW pc, NEW cur, NEW wt, NEW back, NEW date, NEW until,
         ThrTo(i, pc, cur, wt, back, date, until), wakepipe \ {i} \subseteq wakepipe', ~Asleep(i)',
         \A t \in STasks : task'[t].wq \in {task[t].wq, NotInWq} \/ SMask[t] = {i} \/ Shared(t)
  PROVE  TimerWatched'
<1>1. \A t \in STasks : watches(i, t)'
  BY DEF watches
<1>2. ASSUME NEW j \in SThreads, j # i, NEW t \in STasks, task'[t].wq = task[t].wq, watches(j, t)
      PROVE  watches(j, t)'
  <2>1. thr'[j] = thr[j]
    BY <1>2 DEF ThrTo
  <2>2. Asleep(j)' => Asleep(j)
    BY <1>2, <2>1 DEF Asleep, At, PollEnds
  <2> QED
    BY <1>2, <2>1, <2>2 DEF watches
<1> SUFFICES ASSUME NEW t \in STasks, task'[t].wq # NotInWq, ~Shared(t), NEW j \in SMask[t]
             PROVE  watches(j, t)'
  BY <1>1 DEF TimerWatched, Shared, NotInWq
<1>3. CASE j = i
  BY <1>1, <1>3
<1>4. CASE j # i
  <2>1. task'[t].wq = task[t].wq
    BY <1>4
  <2>2. watches(j, t)
    BY <2>1 DEF TimerWatched
  <2> QED
    BY <1>2, <1>4, <2>1, <2>2, SchedAssumption
<1> QED
  BY <1>3, <1>4

\* The frames of the other parts of the invariant.
LEMMA ListsFrame ==
  ASSUME Lists, QueuesKept PROVE Lists'
BY DEF Lists, QueuesKept, Distinct

LEMMA MasksFrame ==
  ASSUME Masks, QueuesKept, UNCHANGED global_tasks_mask,
         \A t \in STasks : "GLOBAL" \in task'[t].st <=> "GLOBAL" \in task[t].st
  PROVE  Masks'
BY InQueues DEF Masks, Masked

LEMMA WatchedFrame ==
  ASSUME Watched, NEW i \in SThreads, NEW pc, NEW cur, NEW wt, NEW back, NEW date, NEW until,
         ThrTo(i, pc, cur, wt, back, date, until), UNCHANGED <<rqueue, tasklist, sleep>>,
         \A k \in STasklets : tasklet'[k] # "no" => tasklet[k] # "no" \/ Kicking(k)',
         thr[i].pc \notin {"look", "timers", "poll", "kick"}, pc \notin {"look", "timers", "poll"}
  PROVE  Watched'
<1>1. \A j \in SThreads : Alert(j) => Alert(j)'
  BY DEF Alert, ThrTo, sleep
<1>2. \A x : Kicking(x) => Kicking(x)'
  BY Views DEF Kicking, KicksFor
<1>3. \A j \in SThreads : Ready(j)'
  BY DEF Watched, Ready, ThrTo, sleep
<1>4. \A t : task_in_rq(t)' <=> task_in_rq(t)
  BY DEF task_in_rq, some_queued
<1>5. \A t \in STasks : \A j \in SMask[t] : j \in SThreads
  BY SchedAssumption, Zenon
<1>6. \A k \in STasklets : STid[k] \in SThreads
  BY SchedAssumption
<1> QED
  BY <1>1, <1>2, <1>3, <1>4, <1>5, <1>6 DEF Watched

\* The places in the loop where a thread holds no task and is not on its way to sleep.
Calm == {"events", "local", "shared", "pick", "urgent", "fill", "list", "act", "ret", "idle", "mark"}

\* A thread that only moves from one of these places to another keeps the invariant.
LEMMA CalmStep ==
  ASSUME SInv, NEW i \in SThreads, NEW pc \in Calm, Goto(i, pc), thr[i].pc \in Calm,
         thr[i].pc \in {"act", "ret"} <=> pc \in {"act", "ret"},
         UNCHANGED <<task, queues, sleep, clock>>, calls' \in 0 .. MaxCalls,
         tasklet' \in [STasklets -> {"no", "shared", "urgent"}],
         \A k \in STasklets : tasklet'[k] # "no" => tasklet[k] # "no"
  PROVE  SInv'
<1>1. ThrTo(i, pc, thr[i].cur, Idle, "none", thr[i].now, thr[i].until)
  BY ThrGoto DEF SInv, SchedTypes, Calm, Pcs
<1>2. SchedTypes'
  BY <1>1 DEF SInv, SchedTypes, ThrTo, queues, sleep
<1>3. Locals'
  <2>1. LocalsAt(i)
    BY DEF SInv, Locals
  <2>2. \A x : Handles(i, x)' <=> Handles(i, x)
    BY <1>1, Views, Zenon
  <2>3. LocalsAt(i)'
    BY <1>1, <2>1, <2>2, Zenon DEF LocalsAt, ThrTo, Calm
  <2> QED
    BY <1>1, <2>3, LocalsStep DEF SInv
<1>4. Tasks'
  <2> SUFFICES ASSUME NEW t \in STasks PROVE TaskInv(t)'
    BY DEF Tasks
  <2>1. /\ ~Inserting(i, t)' /\ ~Inserting(i, t) /\ ~Returning(i, t)' /\ ~Returning(i, t)
        /\ Handles(i, t)' <=> Handles(i, t)
    <3>1. \A x : Handles(i, x)' <=> Handles(i, x)
      BY <1>1, Views, Zenon
    <3>2. /\ ~Inserting(i, t) /\ ~Returning(i, t)
          /\ pc # "insert" /\ pc \notin {"again", "requeue", "locked"}
      BY DEF Calm, Inserting, Returning
    <3> QED
      BY <1>1, <3>1, <3>2, Views, Zenon
  <2>2. TaskKept(i, t)
    BY <2>1, InQueues DEF TaskKept, QueuesKept, queues
  <2> QED
    BY <1>1, <2>2, TaskFrame, Zenon DEF SInv, Tasks
<1>5. TimerWatched'
  <2>1. ~Asleep(i)'
    BY <1>1 DEF Asleep, At, ThrTo, Calm
  <2> QED
    BY <1>1, <2>1, TimersStep DEF SInv, sleep
<1>6. Lists' /\ Masks'
  BY ListsFrame, MasksFrame DEF SInv, queues, QueuesKept
<1>7. Watched'
  BY <1>1, WatchedFrame DEF SInv, queues, Calm
<1> QED
  BY <1>2, <1>3, <1>4, <1>5, <1>6, <1>7 DEF SInv

\* task_wakeup(t, f) by thread i, on the tasks tk that the same step may have changed.
WakeupCase(i, t, tk, f, back) ==
  /\ tk \in [STasks -> TaskRec] /\ \A u \in STasks \ {t} : tk[u] = task[u]
  /\ tk[t].st = task[t].st /\ tk[t].expire = task[t].expire /\ tk[t].wq \in {task[t].wq, NotInWq}
  /\ tk[t].life = "live" /\ task[t].life = "live"
  /\ f \subseteq {"WOKEN"} /\ back \in Backs /\ Wakeup(i, tk, t, f, back)
  /\ thr[i].pc \in Calm \cup {"again"} /\ (thr[i].pc = "again" => Holds(i, t))
  /\ back = "ret" <=> thr[i].pc \in {"act", "ret"}
  /\ UNCHANGED <<tasklet, queues, sleep, clock>> /\ calls' \in 0 .. MaxCalls

\* task_wakeup() keeps the invariant: a task that is neither queued nor running is taken in
\* hand by the caller, which queues it; the one that runs is queued again when it returns.
LEMMA WakeupKeeps ==
  ASSUME SInv, NEW i \in SThreads, NEW t \in STasks, NEW tk, NEW f, NEW back,
         WakeupCase(i, t, tk, f, back)
  PROVE  SInv'
<1> USE DEF WakeupCase
<1> DEFINE idle == tk[t].st \cap {"RUNNING", "QUEUED"} = {}
           pc == IF idle THEN "insert" ELSE back
           wt == IF idle THEN <<t>> ELSE Idle
           bk == IF idle THEN back ELSE "none"
<1>1. /\ task' \in [STasks -> TaskRec] /\ task'[t] = wakeup_flags(tk[t], f)
      /\ \A u \in STasks \ {t} : task'[u] = task[u]
      /\ ThrTo(i, pc, thr[i].cur, wt, bk, thr[i].now, thr[i].until)
  <2> DEFINE r == wakeup_flags(tk[t], f)
  <2>1. r \in TaskRec /\ ("QUEUED" \in r.st <=> "QUEUED" \in tk[t].st \/ "RUNNING" \notin tk[t].st)
    <3>1. tk[t] \in TaskRec /\ f \in SUBSET {"WOKEN"}
      OBVIOUS
    <3> QED
      BY <3>1, WakeupFlags
  <2>2. task' = [tk EXCEPT ![t] = r]
    BY DEF Wakeup
  <2>3. "insert" \in Pcs /\ back \in Pcs /\ <<t>> \in Slots /\ thr \in [SThreads -> ThrRec]
    BY Slot DEF Backs, Pcs, SInv, SchedTypes
  <2>4. CASE idle
    <3>1. "QUEUED" \in r.st /\ "QUEUED" \notin tk[t].st
      BY <2>1, <2>4
    <3>2. thr' = [thr EXCEPT ![i].pc = "insert", ![i].wt = <<t>>, ![i].back = back]
      BY <3>1 DEF Wakeup
    <3>3. ThrTo(i, "insert", thr[i].cur, <<t>>, back, thr[i].now, thr[i].until)
      BY <2>3, <3>2, ThrSlot, Zenon
    <3> HIDE DEF idle
    <3> QED
      BY <2>1, <2>2, <2>4, <3>3
  <2>5. CASE ~idle
    <3>1. ~("QUEUED" \in r.st /\ "QUEUED" \notin tk[t].st)
      BY <2>1, <2>5
    <3>2. Goto(i, back)
      BY <3>1 DEF Wakeup
    <3>3. ThrTo(i, back, thr[i].cur, Idle, "none", thr[i].now, thr[i].until)
      BY <2>3, <3>2, ThrGoto, Zenon
    <3> HIDE DEF idle
    <3> QED
      BY <2>1, <2>2, <2>5, <3>3
  <2> QED
    BY <2>4, <2>5, Zenon
<1>2. /\ task'[t].expire = task[t].expire /\ task'[t].wq \in {task[t].wq, NotInWq}
      /\ task'[t].life = "live"
      /\ \A x \in {"RUNNING", "GLOBAL"} : x \in task'[t].st <=> x \in task[t].st
      /\ "QUEUED" \in task'[t].st <=> "QUEUED" \in task[t].st \/ "RUNNING" \notin task[t].st
  <2>1. tk[t] \in TaskRec
    BY Zenon
  <2>2. /\ wakeup_flags(tk[t], f).expire = tk[t].expire /\ wakeup_flags(tk[t], f).wq = tk[t].wq
        /\ wakeup_flags(tk[t], f).life = tk[t].life
        /\ \A x \in {"RUNNING", "GLOBAL"} : x \in wakeup_flags(tk[t], f).st <=> x \in tk[t].st
        /\ "QUEUED" \in wakeup_flags(tk[t], f).st <=> "QUEUED" \in tk[t].st \/ "RUNNING" \notin tk[t].st
    BY <2>1, WakeupFlags
  <2> QED
    BY <1>1, <2>2, Zenon
<1>3. idle <=> "RUNNING" \notin task[t].st /\ "QUEUED" \notin task[t].st
  OBVIOUS
<1>4. /\ pc \notin {"kick", "again", "requeue", "locked", "look", "timers", "poll", "run", "act"}
      /\ pc = "insert" <=> idle
      /\ ~idle => pc = back
  BY DEF Backs
<1>5. /\ \A x : Inserting(i, x)' <=> idle /\ x = t
      /\ \A x : ~Returning(i, x)' /\ ~Inserting(i, x)
      /\ \A x : Handles(i, x)' <=> Handles(i, x)
      /\ \A x : Returning(i, x) => x = t
  <2>1. \A x : wt = <<x>> <=> idle /\ x = t
    BY Slot
  <2> HIDE DEF idle, pc, wt, bk
  <2>2. /\ \A x : Inserting(i, x)' <=> idle /\ x = t
        /\ \A x : ~Returning(i, x)'
        /\ \A x : Handles(i, x)' <=> Handles(i, x)
    BY <1>1, <1>4, <2>1, Views
  <2>3. \A x : ~Inserting(i, x)
    BY Zenon DEF Inserting, Calm
  <2>4. \A x : Returning(i, x) => x = t
    BY Slot DEF Returning, Calm, Holds
  <2> QED
    BY <2>2, <2>3, <2>4, Zenon
<1>6. SchedTypes'
  BY <1>1, Zenon DEF SInv, SchedTypes, ThrTo, queues, sleep
<1>7. QueuesKept
  BY DEF QueuesKept, queues
<1>8. Locals'
  <2>1. LocalsAt(i)
    BY Zenon DEF SInv, Locals
  <2>2. idle => Holds(i, t)'
    BY <1>5, Zenon DEF Inserting
  <2> HIDE DEF idle
  <2>3. thr'[i].pc = (IF idle THEN "insert" ELSE back) /\ (idle => thr'[i].back = back) /\ thr'[i].now = thr[i].now
    BY <1>1 DEF ThrTo
  <2>4. LocalsAt(i)'
    BY <1>5, <2>1, <2>2, <2>3, Zenon DEF LocalsAt, Calm, Backs
  <2> QED
    BY <1>1, <2>4, LocalsStep, Zenon DEF SInv
<1> HIDE DEF idle, pc, wt, bk
<1>9. Tasks'
  <2> SUFFICES ASSUME NEW u \in STasks PROVE TaskInv(u)'
    BY DEF Tasks
  <2>1. TaskInv(u)
    BY DEF SInv, Tasks
  <2>2. CASE u # t
    <3>1. TaskKept(i, u)
      BY <1>1, <1>5, <1>7, <2>2, InQueues, Zenon DEF TaskKept
    <3> QED
      BY <1>1, <2>1, <3>1, TaskFrame, Zenon
  <2>3. CASE u = t
    <3>1. /\ \A j \in SThreads : /\ Inserting(j, t)' <=> Inserting(j, t) \/ (idle /\ j = i)
                                 /\ Handles(j, t)' <=> Handles(j, t)
                                 /\ Returning(j, t)' => Returning(j, t) /\ thr'[j] = thr[j]
      BY <1>1, <1>5, Views DEF ThrTo
    <3>2. PlacesOf(t)'
      BY <1>2, <1>3, <1>7, <2>1, <2>3, <3>1, InQueues, ZenonT(30) DEF TaskInv, PlacesOf
    <3>3. Alive(t)'
      BY <1>2, Zenon DEF Alive
    <3>4. Armed(t)'
      BY <1>2, Zenon DEF Armed
    <3>5. Dated(t) => Dated(t)'
      BY <1>2, <3>1 DEF Dated, NotInWq, TICK_ETERNITY
    <3> QED
      BY <2>1, <2>3, <3>2, <3>3, <3>4, <3>5, ZenonT(30) DEF TaskInv, Shared
  <2> QED
    BY <2>2, <2>3, Zenon
<1>10. TimerWatched'
  <2>1. ~Asleep(i)'
    BY <1>1, <1>4, Zenon DEF Asleep, At, ThrTo
  <2>2. \A u \in STasks : task'[u].wq \in {task[u].wq, NotInWq}
    BY <1>1, <1>2, Zenon
  <2> QED
    BY <1>1, <2>1, <2>2, TimersStep, Zenon DEF SInv, sleep
<1>11. Lists' /\ Masks'
  BY <1>1, <1>2, <1>7, ListsFrame, MasksFrame, Zenon DEF SInv, queues
<1>12. Watched'
  BY <1>1, <1>4, WatchedFrame, Zenon DEF SInv, queues, Calm
<1> QED
  BY <1>6, <1>8, <1>9, <1>10, <1>11, <1>12 DEF SInv

\* A thread that does not change is a case of ThrTo.
LEMMA ThrSame ==
  ASSUME NEW i \in SThreads, thr \in [SThreads -> ThrRec], UNCHANGED thr
  PROVE  ThrTo(i, thr[i].pc, thr[i].cur, thr[i].wt, thr[i].back, thr[i].now, thr[i].until)
BY DEF ThrTo

\* A step of thread i that gives task t another date or another key.
DateCase(i, t, r, pc, wt, back) ==
  /\ r \in TaskRec /\ task' = [task EXCEPT ![t] = r]
  /\ r.st = task[t].st /\ r.life = "live" /\ task[t].life = "live"
  /\ \/ "RUNNING" \in task[t].st
     \/ tick_isset(r.expire) => r.wq # NotInWq /\ r.wq <= r.expire
  /\ ~Shared(t) => r.wq # TICK_ETERNITY /\ i \in SMask[t]
  /\ ThrTo(i, pc, thr[i].cur, wt, back, thr[i].now, thr[i].until)
  /\ pc \in Calm /\ thr[i].pc \in Calm \cup {"locked", "run"} /\ (thr[i].pc = "locked" => Holds(i, t))
  /\ thr[i].pc \in {"run", "act", "ret"} <=> pc \in {"act", "ret"}
  /\ UNCHANGED <<tasklet, queues, sleep, clock>> /\ calls' \in 0 .. MaxCalls

\* Dates and keys change without losing a timer: the task is in the hands of the thread, or
\* is its own, or is queued no later than its new date.
LEMMA DateKeeps ==
  ASSUME SInv, NEW i \in SThreads, NEW t \in STasks, NEW r, NEW pc, NEW wt, NEW back,
         DateCase(i, t, r, pc, wt, back)
  PROVE  SInv'
<1> USE DEF DateCase
<1>1. task' \in [STasks -> TaskRec] /\ task'[t] = r /\ \A u \in STasks \ {t} : task'[u] = task[u]
  BY ZenonT(30) DEF SInv, SchedTypes
<1>2. QueuesKept
  BY DEF QueuesKept, queues
<1>3. /\ \A x : ~Inserting(i, x)' /\ ~Inserting(i, x) /\ ~Returning(i, x)'
      /\ \A x : Handles(i, x)' <=> Handles(i, x)
      /\ \A x : Returning(i, x) => x = t
  <2>1. \A x : ~Inserting(i, x)
    BY Zenon DEF Inserting, Calm
  <2>2. \A x : Returning(i, x) => x = t
    BY Slot DEF Returning, Calm, Holds
  <2>3. pc \notin {"insert", "again", "requeue", "locked"}
    BY Zenon DEF Calm
  <2> QED
    BY <2>1, <2>2, <2>3, Views, Zenon
<1>4. SchedTypes'
  BY <1>1, Zenon DEF SInv, SchedTypes, ThrTo, queues, sleep
<1>5. Locals'
  <2>1. LocalsAt(i)
    BY Zenon DEF SInv, Locals
  <2>2. LocalsAt(i)'
    BY <1>3, <2>1, Zenon DEF LocalsAt, ThrTo, Calm
  <2> QED
    BY <2>2, LocalsStep, Zenon DEF SInv
<1>6. Tasks'
  <2> SUFFICES ASSUME NEW u \in STasks PROVE TaskInv(u)'
    BY Zenon DEF Tasks
  <2>1. TaskInv(u)
    BY Zenon DEF SInv, Tasks
  <2>2. CASE u # t
    <3>1. TaskKept(i, u)
      BY <1>1, <1>2, <1>3, <2>2, InQueues, Zenon DEF TaskKept
    <3> QED
      BY <2>1, <3>1, TaskFrame, Zenon
  <2>3. CASE u = t
    <3>1. \A j \in SThreads : /\ Inserting(j, t)' <=> Inserting(j, t)
                              /\ Handles(j, t)' <=> Handles(j, t)
                              /\ Returning(j, t)' => Returning(j, t) /\ j # i
      BY <1>3, Views
    <3>2. PlacesOf(t)'
      BY <1>1, <1>2, <2>1, <2>3, <3>1, InQueues, Zenon DEF TaskInv, PlacesOf
    <3>3. Alive(t)'
      BY <1>1, Zenon DEF Alive
    <3>4. Armed(t)'
      BY <1>1, Zenon DEF Armed
    <3>5. ASSUME ~Shared(t) PROVE Dated(t)'
      <4>1. SMask[t] = {i}
        BY <3>5, Alone, Zenon
      <4>2. \A j \in SThreads : ~Returning(j, t)'
        BY <2>1, <2>3, <3>1, <4>1, Zenon DEF TaskInv, PlacesOf
      <4> QED
        BY <1>1, <3>5, <4>2, Zenon DEF Dated
    <3> QED
      BY <2>3, <3>2, <3>3, <3>4, <3>5, ZenonT(30) DEF TaskInv, Shared
  <2> QED
    BY <2>2, <2>3, Zenon
<1>7. TimerWatched'
  <2>1. ~Asleep(i)'
    BY Zenon DEF Asleep, At, ThrTo, Calm
  <2>2. \A u \in STasks : task'[u].wq = task[u].wq \/ SMask[u] = {i} \/ Shared(u)
    BY <1>1, Alone, Zenon
  <2> QED
    BY <2>1, <2>2, TimersStep, Zenon DEF SInv, sleep
<1>8. Lists' /\ Masks'
  BY <1>1, <1>2, ListsFrame, MasksFrame, Zenon DEF SInv, queues
<1>9. Watched'
  BY WatchedFrame, Zenon DEF SInv, queues, Calm
<1> QED
  BY <1>4, <1>5, <1>6, <1>7, <1>8, <1>9, Zenon DEF SInv

\* wake_expired_tasks() keeps the invariant, in the queue of a thread and in the shared one.
LEMMA ExpireKeeps ==
  ASSUME SInv, NEW i \in SThreads, NEW shared \in BOOLEAN, NEW pc \in {"local", "shared"},
         NEW next \in {"shared", "pick"}, WakeExpired(i, shared, pc, next)
  PROVE  SInv'
<1>1. SchedTypes /\ thr \in [SThreads -> ThrRec] /\ calls \in 0 .. MaxCalls
  BY DEF SInv, SchedTypes
<1>2. thr[i].pc = pc /\ UNCHANGED <<tasklet, queues, sleep, clock, calls>>
  BY <1>1, WakeExpiredCases
<1>3. CASE Goto(i, next) /\ UNCHANGED task
  BY <1>1, <1>2, <1>3, CalmStep, Zenon DEF Calm, SchedTypes
<1>4. ASSUME NEW t \in timers_of(i, shared), ExpireCase(i, t, pc)
      PROVE  SInv'
  <2> DEFINE u == [task EXCEPT ![t].wq = NotInWq]
  <2>1. t \in STasks /\ task[t].wq # NotInWq /\ (~Shared(t) => i \in SMask[t])
    BY <1>4 DEF timers_of
  <2>2. task[t].life = "live"
    BY <2>1, Zenon DEF SInv, Tasks, TaskInv, Alive
  <2>3. /\ \A v \in STasks \ {t} : u[v] = task[v]
        /\ u[t].st = task[t].st /\ u[t].expire = task[t].expire /\ u[t].life = "live"
        /\ u \in [STasks -> TaskRec] /\ u[t].wq = NotInWq /\ u[t] \in TaskRec
        /\ u = [task EXCEPT ![t] = u[t]]
    BY <1>1, <1>4, <2>1, <2>2, Zenon DEF SchedTypes, TaskRec, ExpireCase
  <2> HIDE DEF u
  <2>4. CASE Wakeup(i, u, t, {"WOKEN"}, pc)
    <3>1. /\ pc \in Backs /\ thr[i].pc \in Calm \cup {"again"} /\ thr[i].pc # "again"
          /\ pc = "ret" <=> thr[i].pc \in {"act", "ret"}
          /\ {"WOKEN"} \in SUBSET {"WOKEN"} /\ calls' \in 0 .. MaxCalls
      BY <1>1, <1>2 DEF Backs, Calm
    <3>2. WakeupCase(i, t, u, {"WOKEN"}, pc)
      BY <1>2, <2>2, <2>3, <2>4, <3>1, Zenon DEF WakeupCase
    <3> QED
      BY <2>1, <3>2, WakeupKeeps, Zenon
  <2>5. ASSUME UNCHANGED thr, NEW r \in TaskRec, task' = [task EXCEPT ![t] = r],
               r.st = task[t].st, r.life = "live", r.wq # TICK_ETERNITY,
               tick_isset(r.expire) => r.wq # NotInWq /\ r.wq <= r.expire
        PROVE  SInv'
    <3>1. ThrTo(i, pc, thr[i].cur, thr[i].wt, thr[i].back, thr[i].now, thr[i].until)
      BY <1>1, <1>2, <2>5, ThrSame
    <3>2. /\ pc \in Calm /\ thr[i].pc \in Calm \cup {"locked", "run"} /\ thr[i].pc # "locked"
          /\ thr[i].pc \in {"run", "act", "ret"} <=> pc \in {"act", "ret"}
          /\ calls' \in 0 .. MaxCalls
      BY <1>1, <1>2 DEF Calm
    <3>3. DateCase(i, t, r, pc, thr[i].wt, thr[i].back)
      BY <1>2, <2>1, <2>2, <2>5, <3>1, <3>2, Zenon DEF DateCase
    <3> QED
      BY <2>1, <3>3, DateKeeps, Zenon
  <2>6. CASE ~tick_isset(u[t].expire) /\ task' = u /\ UNCHANGED thr
    <3>1. NotInWq # TICK_ETERNITY
      BY DEF NotInWq, TICK_ETERNITY
    <3> QED
      BY <2>3, <2>5, <2>6, <3>1, Zenon
  <2>7. CASE tick_isset(u[t].expire) /\ UNCHANGED thr /\ task' = [u EXCEPT ![t] = queue_sooner(u[t])]
    <3> DEFINE r == queue_sooner(u[t])
    <3>1. /\ r \in TaskRec /\ r.st = u[t].st /\ r.expire = u[t].expire /\ r.life = u[t].life
          /\ r.wq # NotInWq /\ r.wq <= r.expire
      BY <2>3, QueueSooner
    <3>2. r.wq = u[t].expire
      BY <2>3, QueueSooner DEF NotInWq
    <3>3. r.wq # TICK_ETERNITY
      BY <2>7, <3>2 DEF tick_isset
    <3>4. task' = [u EXCEPT ![t] = r]
      BY <2>7
    <3> HIDE DEF r
    <3>5. task' = [task EXCEPT ![t] = r]
      BY <1>4, <3>4, Zenon DEF u
    <3> QED
      BY <2>3, <2>5, <2>7, <3>1, <3>3, <3>5, Zenon
  <2> QED
    BY <1>4, <2>4, <2>6, <2>7 DEF ExpireCase, u
<1>5. \/ Goto(i, next) /\ UNCHANGED task
      \/ \E t \in timers_of(i, shared) : ExpireCase(i, t, pc)
  BY <1>1, WakeExpiredCases
<1> QED
  BY <1>3, <1>4, <1>5

\* The steps that only go on with the loop.
LEMMA CalmActions ==
  ASSUME SInv, NEW i \in SThreads,
         \/ EventsDone(i) \/ HandlerReturns(i) \/ PickDone(i) \/ EndRound(i) \/ StartRound(i)
  PROVE  SInv'
<1> USE DEF At, Calm
<1>1. calls \in 0 .. MaxCalls /\ tasklet \in [STasklets -> {"no", "shared", "urgent"}]
  BY DEF SInv, SchedTypes
<1>2. CASE EventsDone(i)
  BY <1>1, <1>2, CalmStep DEF EventsDone
<1>3. CASE HandlerReturns(i)
  BY <1>1, <1>3, CalmStep DEF HandlerReturns
<1>4. CASE PickDone(i)
  BY <1>1, <1>4, CalmStep, Zenon DEF PickDone
<1>5. CASE EndRound(i)
  BY <1>1, <1>5, CalmStep DEF EndRound
<1>6. CASE StartRound(i)
  <2>1. tasklet' \in [STasklets -> {"no", "shared", "urgent"}]
    BY <1>1, <1>6, Zenon DEF StartRound
  <2>2. \A k \in STasklets : tasklet'[k] # "no" => tasklet[k] # "no"
    BY <1>1, <1>6 DEF StartRound
  <2>3. PICK pc \in {"urgent", "idle"} : Goto(i, pc)
    BY <1>6 DEF StartRound
  <2> QED
    BY <1>1, <1>6, <2>1, <2>2, <2>3, CalmStep, Zenon DEF StartRound
<1> QED
  BY <1>2, <1>3, <1>4, <1>5, <1>6

\* The task that was woken up while it ran is queued again.
LEMMA AgainKeeps ==
  ASSUME SInv, NEW i \in SThreads, Again(i)
  PROVE  SInv'
<1>1. /\ task \in [STasks -> TaskRec] /\ calls \in 0 .. MaxCalls
      /\ thr[i].pc = "again" /\ UNCHANGED <<tasklet, queues, sleep, clock, calls>>
  BY DEF SInv, SchedTypes, Again, At
<1>2. PICK t \in STasks : Holds(i, t)
  BY <1>1 DEF SInv, Locals, LocalsAt
<1>3. thr[i].wt[1] = t
  BY <1>2, Slot DEF Holds
<1>4. task[t].life = "live"
  BY <1>1, <1>2, Zenon DEF SInv, Tasks, TaskInv, Alive, Returning
<1>5. Wakeup(i, task, t, {}, "list")
  BY <1>3, Zenon DEF Again
<1>6. WakeupCase(i, t, task, {}, "list")
  BY <1>1, <1>2, <1>4, <1>5 DEF WakeupCase, Backs
<1> QED
  BY <1>6, WakeupKeeps

\* A handler, or an event, wakes up a task.
LEMMA CallWakeupKeeps ==
  ASSUME SInv, NEW i \in SThreads, NEW t \in STasks, CallWakeup(i, t)
  PROVE  SInv'
<1> DEFINE back == IF At(i, "act") THEN "ret" ELSE "local"
<1>1. /\ task \in [STasks -> TaskRec] /\ calls' \in 0 .. MaxCalls
      /\ thr[i].pc \in {"act", "events"} /\ UNCHANGED <<tasklet, queues, sleep, clock>>
  BY SchedAssumption DEF SInv, SchedTypes, CallWakeup, At
<1>2. task[t].life = "live" /\ Wakeup(i, task, t, {"WOKEN"}, back)
  BY DEF CallWakeup
<1>3. back \in Backs /\ (back = "ret" <=> thr[i].pc \in {"act", "ret"})
  BY <1>1 DEF At, Backs
<1> HIDE DEF back
<1>4. WakeupCase(i, t, task, {"WOKEN"}, back)
  BY <1>1, <1>2, <1>3 DEF WakeupCase, Calm
<1> QED
  BY <1>4, WakeupKeeps

\* task_queue() under the lock of the wait queue.
LEMMA RequeueLockedKeeps ==
  ASSUME SInv, NEW i \in SThreads, RequeueLocked(i)
  PROVE  SInv'
<1>1. /\ task \in [STasks -> TaskRec] /\ calls \in 0 .. MaxCalls /\ thr \in [SThreads -> ThrRec]
      /\ thr[i].pc = "locked" /\ UNCHANGED <<tasklet, queues, sleep, clock, calls>>
      /\ Goto(i, "list")
  BY Zenon DEF SInv, SchedTypes, RequeueLocked, At
<1>2. PICK t \in STasks : Holds(i, t)
  BY <1>1 DEF SInv, Locals, LocalsAt
<1>3. thr[i].wt[1] = t /\ Returning(i, t) /\ TaskInv(t)
  BY <1>1, <1>2, Slot DEF Holds, Returning, SInv, Tasks
<1>4. task[t].life = "live" /\ i \in SMask[t] /\ task[t] \in TaskRec
  BY <1>1, <1>3, Zenon DEF TaskInv, Alive, PlacesOf
<1> DEFINE r == queue_sooner(task[t])
<1>5. task' = [task EXCEPT ![t] = r]
  BY <1>3, Zenon DEF RequeueLocked
<1>6. /\ r \in TaskRec /\ r.st = task[t].st /\ r.expire = task[t].expire /\ r.life = task[t].life
      /\ r.wq # NotInWq /\ r.wq <= r.expire /\ r.wq \in {task[t].wq, task[t].expire}
  BY <1>4, QueueSooner
<1>7. ~Shared(t) => r.wq # TICK_ETERNITY
  BY <1>1, <1>3, <1>6, Zenon DEF TaskInv, Dated
<1>8. ThrTo(i, "list", thr[i].cur, Idle, "none", thr[i].now, thr[i].until)
  BY <1>1, ThrGoto DEF Pcs
<1> HIDE DEF r
<1>9. DateCase(i, t, r, "list", Idle, "none")
  BY <1>1, <1>2, <1>4, <1>5, <1>6, <1>7, <1>8, Zenon DEF DateCase, Calm
<1> QED
  BY <1>9, DateKeeps

\* The handler of a task changes the date of its own task.
LEMMA HandlerExpireKeeps ==
  ASSUME SInv, NEW i \in SThreads, HandlerExpire(i)
  PROVE  SInv'
<1>1. /\ task \in [STasks -> TaskRec] /\ calls \in 0 .. MaxCalls /\ thr \in [SThreads -> ThrRec]
      /\ thr[i].pc = "run" /\ UNCHANGED <<tasklet, queues, sleep, clock, calls>>
      /\ Goto(i, "act")
  BY DEF SInv, SchedTypes, HandlerExpire, At
<1>2. PICK t \in STasks : Handles(i, t)
  BY <1>1 DEF SInv, Locals, LocalsAt
<1>3. thr[i].cur[1] = t /\ TaskInv(t) /\ task[t] \in TaskRec
  BY <1>1, <1>2, Slot DEF Handles, SInv, Tasks
<1>4. task[t].life = "live" /\ i \in SMask[t] /\ "RUNNING" \in task[t].st
  BY <1>2, <1>3, Zenon DEF TaskInv, Alive, PlacesOf
<1>5. PICK e \in {TICK_ETERNITY, thr[i].now + 1} : task' = [task EXCEPT ![t].expire = e]
  BY <1>3, Zenon DEF HandlerExpire
<1>6. e \in 0 .. MaxClock + 1
  <2>1. thr[i].now \in 1 .. MaxClock
    BY <1>1 DEF ThrRec
  <2> QED
    BY <1>5, <2>1, SchedAssumption DEF TICK_ETERNITY
<1> DEFINE r == [task[t] EXCEPT !.expire = e]
<1>7. task' = [task EXCEPT ![t] = r]
  BY <1>5
<1>8. r \in TaskRec /\ r.st = task[t].st /\ r.life = "live" /\ r.wq = task[t].wq
  BY <1>3, <1>4, <1>6 DEF TaskRec
<1>9. ~Shared(t) => r.wq # TICK_ETERNITY
  BY <1>3, <1>8 DEF TaskInv, Dated
<1>10. ThrTo(i, "act", thr[i].cur, Idle, "none", thr[i].now, thr[i].until)
  BY <1>1, ThrGoto DEF Pcs
<1> HIDE DEF r
<1>11. DateCase(i, t, r, "act", Idle, "none")
  BY <1>1, <1>4, <1>7, <1>8, <1>9, <1>10, Zenon DEF DateCase, Calm
<1> QED
  BY <1>11, DateKeeps

\* task_schedule() gives a task a date no later than it had.
LEMMA CallScheduleKeeps ==
  ASSUME SInv, NEW i \in SThreads, NEW t \in STasks, CallSchedule(i, t, clock + 1)
  PROVE  SInv'
<1> DEFINE pc == IF At(i, "act") THEN "ret" ELSE "local"
           w == IF task[t].wq # NotInWq THEN tick_first(clock + 1, task[t].expire) ELSE clock + 1
           r == queue_sooner([task[t] EXCEPT !.expire = w])
<1>1. /\ task \in [STasks -> TaskRec] /\ calls' \in 0 .. MaxCalls /\ thr \in [SThreads -> ThrRec]
      /\ thr[i].pc \in {"act", "events"} /\ UNCHANGED <<tasklet, queues, sleep, clock>>
      /\ Goto(i, pc) /\ task[t].life = "live" /\ i \in SMask[t]
      /\ tasklet \in [STasklets -> {"no", "shared", "urgent"}]
  BY SchedAssumption DEF SInv, SchedTypes, CallSchedule, At
<1>2. /\ pc \in Calm /\ pc \in Pcs /\ pc \in {"ret", "local"}
      /\ thr[i].pc \in {"act", "ret"} <=> pc \in {"act", "ret"}
  BY <1>1, Zenon DEF At, Calm, Pcs
<1>3. CASE task_in_rq(t)
  <2>1. task' = task
    BY <1>3 DEF CallSchedule
  <2> HIDE DEF pc
  <2> QED
    BY <1>1, <1>2, <2>1, CalmStep, Zenon DEF Calm
<1>4. CASE ~task_in_rq(t)
  <2>1. task' = [task EXCEPT ![t] = r]
    BY <1>4 DEF CallSchedule
  <2>2. task[t] \in TaskRec /\ clock \in 1 .. MaxClock
    BY <1>1 DEF SInv, SchedTypes
  <2>3. task[t].expire \in 0 .. MaxClock + 1
    BY <2>2 DEF TaskRec
  <2>4. w \in 1 .. MaxClock + 1
    <3>1. \A e \in 0 .. MaxClock + 1 : tick_first(clock + 1, e) \in 1 .. MaxClock + 1
      BY <2>2, SchedAssumption DEF tick_first, tick_isset, tick_is_le, TICK_ETERNITY
    <3> QED
      BY <2>2, <2>3, <3>1, SchedAssumption
  <2> DEFINE q == [task[t] EXCEPT !.expire = w]
  <2> HIDE DEF w
  <2>5. q \in TaskRec /\ q.st = task[t].st /\ q.life = "live" /\ q.wq = task[t].wq /\ q.expire = w
    BY <1>1, <2>2, <2>4 DEF TaskRec
  <2> HIDE DEF q
  <2>6. /\ r \in TaskRec /\ r.st = task[t].st /\ r.life = "live" /\ r.wq # NotInWq /\ r.wq <= r.expire
        /\ r.wq \in {task[t].wq, w}
    BY <2>5, QueueSooner, Zenon DEF q
  <2> HIDE DEF r
  <2>7. ~Shared(t) => r.wq # TICK_ETERNITY
    BY <2>4, <2>6 DEF SInv, Tasks, TaskInv, Dated, TICK_ETERNITY
  <2> HIDE DEF pc
  <2>8. ThrTo(i, pc, thr[i].cur, Idle, "none", thr[i].now, thr[i].until)
    BY <1>1, <1>2, ThrGoto, Zenon
  <2>9. DateCase(i, t, r, pc, Idle, "none")
    BY <1>1, <1>2, <2>1, <2>6, <2>7, <2>8, Zenon DEF DateCase, Calm
  <2> QED
    BY <2>9, DateKeeps
<1> QED
  BY <1>3, <1>4

\* The same places, and those of a thread on its way to sleep.
Quiet == Calm \cup {"look", "timers", "poll"}

QuietMove(i, pc, wt, back, date, until) ==
  /\ ThrTo(i, pc, thr[i].cur, wt, back, date, until) /\ date <= clock
  /\ thr[i].pc \in Quiet \cup {"kick"} /\ pc \in Quiet
  /\ thr[i].pc \in {"act", "ret"} \/ (thr[i].pc = "kick" /\ thr[i].back = "ret") <=> pc \in {"act", "ret"}
  /\ UNCHANGED <<task, tasklet, queues, clock, calls>>
  /\ sleeping_thread_mask' \subseteq SThreads /\ wakepipe' \subseteq SThreads

\* A thread that goes to sleep or comes back keeps what is not about sleep.
LEMMA QuietStep ==
  ASSUME SInv, NEW i \in SThreads, NEW pc, NEW wt, NEW back, NEW date, NEW until,
         QuietMove(i, pc, wt, back, date, until)
  PROVE  SchedTypes' /\ Locals' /\ Tasks' /\ Lists' /\ Masks'
<1> USE DEF QuietMove
<1>1. ThrTo(i, pc, thr[i].cur, wt, back, date, until)
  OBVIOUS
<1>2. SchedTypes'
  BY <1>1 DEF SInv, SchedTypes, ThrTo, queues
<1>3. Locals'
  <2>1. LocalsAt(i)
    BY Zenon DEF SInv, Locals
  <2>2. \A x : Handles(i, x)' <=> Handles(i, x)
    BY <1>1, Views, Zenon
  <2>3. LocalsAt(i)'
    BY <1>1, <2>1, <2>2, Zenon DEF LocalsAt, ThrTo, Calm, Quiet
  <2> QED
    BY <1>1, <2>3, LocalsStep, Zenon DEF SInv
<1>4. Tasks'
  <2> SUFFICES ASSUME NEW t \in STasks PROVE TaskInv(t)'
    BY DEF Tasks
  <2>1. /\ ~Inserting(i, t)' /\ ~Inserting(i, t) /\ ~Returning(i, t)' /\ ~Returning(i, t)
        /\ Handles(i, t)' <=> Handles(i, t)
    <3>1. \A x : Handles(i, x)' <=> Handles(i, x)
      BY <1>1, Views, Zenon
    <3>2. /\ ~Inserting(i, t) /\ ~Returning(i, t)
          /\ pc # "insert" /\ pc \notin {"again", "requeue", "locked"}
      BY Zenon DEF Calm, Quiet, Inserting, Returning
    <3> QED
      BY <1>1, <3>1, <3>2, Views, Zenon
  <2>2. TaskKept(i, t)
    BY <2>1, InQueues, Zenon DEF TaskKept, QueuesKept, queues
  <2> QED
    BY <1>1, <2>2, TaskFrame, ZenonT(30) DEF SInv, Tasks
<1>5. Lists' /\ Masks'
  BY ListsFrame, MasksFrame, Zenon DEF SInv, queues, QueuesKept
<1> QED
  BY <1>2, <1>3, <1>4, <1>5, Zenon

\* The date of a thread is one, and is past.
LEMMA NowSet ==
  ASSUME SInv, NEW i \in SThreads
  PROVE  thr[i].now \in 1 .. MaxClock /\ thr[i].now <= clock /\ clock \in 1 .. MaxClock
<1>1. thr[i].now \in 1 .. MaxClock /\ clock \in 1 .. MaxClock
  BY DEF SInv, SchedTypes, ThrRec
<1>2. thr[i].now <= clock
  BY DEF SInv, Locals, LocalsAt
<1> QED
  BY <1>1, <1>2

\* A thread that polls without waiting is not asleep: its delay has expired.
LEMMA Awake ==
  ASSUME SInv, NEW i \in SThreads, clock' = clock,
         NEW pc, NEW cur, NEW wt, NEW back, NEW date \in 1 .. MaxClock, NEW until,
         ThrTo(i, pc, cur, wt, back, date, until), date <= clock, pc = "poll" => until = date
  PROVE  ~Asleep(i)'
<1>1. clock \in 1 .. MaxClock
  BY DEF SInv, SchedTypes
<1>2. tick_is_expired(date, clock)
  BY <1>1, SchedAssumption DEF tick_is_expired, tick_isset, TICK_ETERNITY
<1>3. thr'[i].pc = pc /\ thr'[i].until = until
  BY DEF ThrTo
<1>4. pc = "poll" => tick_is_expired(thr'[i].until, clock')
  BY <1>2, <1>3
<1> QED
  BY <1>3, <1>4 DEF Asleep, At, PollEnds

\* A thread finds the work that is queued for it (thread_has_tasks()).
LEMMA WorkSeen ==
  ASSUME SInv, NEW i \in SThreads, ~thread_has_tasks(i)
  PROVE  /\ \A t \in STasks : task_in_rq(t) => i \notin SMask[t]
         /\ \A k \in STasklets : tasklet[k] # "no" => STid[k] # i
         /\ tasklist[i] = <<>>
<1>1. /\ i \notin global_tasks_mask /\ ~some_queued(local_of(i)) /\ tasklist[i] = <<>>
      /\ \A k \in STasklets : ~(STid[k] = i /\ tasklet[k] # "no")
  BY DEF thread_has_tasks
<1>2. ASSUME NEW t \in STasks, task_in_rq(t), i \in SMask[t] PROVE FALSE
  <2>1. Masked(t)
    BY DEF SInv, Masks
  <2>2. "GLOBAL" \notin task[t].st
    BY <1>1, <1>2, <2>1 DEF Masked
  <2>3. SMask[t] = {i}
    BY <1>2, <2>1, <2>2 DEF Masked
  <2>4. t \in local_of(i)
    BY <2>2, <2>3 DEF local_of
  <2> QED
    BY <1>1, <1>2, <2>4 DEF task_in_rq, some_queued
<1> QED
  BY <1>1, <1>2

\* Work stays known when nobody who knows of it goes to sleep.
LEMMA WatchedStep ==
  ASSUME SInv, UNCHANGED <<rqueue, tasklet>>, \A j \in SThreads : Ready(j)',
         \A t \in STasks : task_in_rq(t) =>
            /\ Kicking(t) => Kicking(t)' \/ \E j \in SMask[t] : Alert(j)'
            /\ \A j \in SMask[t] : Alert(j) => Alert(j)',
         \A k \in STasklets : tasklet[k] # "no" =>
            /\ Kicking(k) => Kicking(k)' \/ Alert(STid[k])'
            /\ Alert(STid[k]) => Alert(STid[k])'
  PROVE  Watched'
<1>1. \A t : task_in_rq(t)' <=> task_in_rq(t)
  BY Zenon DEF task_in_rq, some_queued
<1> QED
  BY <1>1 DEF SInv, Watched

\* A thread that found work polls without waiting.
LEMMA GoIdleKeeps ==
  ASSUME SInv, NEW i \in SThreads, GoIdle(i)
  PROVE  SInv'
<1>1. /\ thr[i].pc = "idle" /\ UNCHANGED <<task, tasklet, queues, sleep, clock, calls>>
      /\ thr \in [SThreads -> ThrRec] /\ calls \in 0 .. MaxCalls
      /\ sleeping_thread_mask \subseteq SThreads /\ wakepipe \subseteq SThreads
      /\ tasklet \in [STasklets -> {"no", "shared", "urgent"}]
  BY DEF SInv, SchedTypes, GoIdle, At
<1>2. CASE Goto(i, "mark")
  BY <1>1, <1>2, CalmStep DEF Calm
<1>3. CASE NoWait(i)
  <2>1. thr[i].now \in 1 .. MaxClock /\ thr[i].now <= clock
    BY NowSet, Zenon
  <2>2. thr[i].now \in 0 .. MaxClock + 1 /\ "poll" \in Pcs
    BY <2>1, SchedAssumption DEF Pcs
  <2>3. ThrTo(i, "poll", thr[i].cur, thr[i].wt, thr[i].back, thr[i].now, thr[i].now)
    BY <1>1, <1>3, <2>2, ThrUntil, Zenon DEF NoWait
  <2>4. QuietMove(i, "poll", thr[i].wt, thr[i].back, thr[i].now, thr[i].now)
    BY <1>1, <2>1, <2>3 DEF QuietMove, Quiet, Calm, sleep
  <2>5. TimerWatched'
    <3>1. ~Asleep(i)'
      BY <1>1, <2>1, <2>3, Awake
    <3> QED
      BY <1>1, <2>3, <3>1, TimersStep DEF SInv, sleep
  <2>6. Watched'
    <3>1. \A j \in SThreads : (Alert(j) => Alert(j)') /\ Ready(j)'
      BY <1>1, <2>3, ZenonT(30) DEF SInv, Watched, Alert, Ready, ThrTo, sleep, queues
    <3>2. \A x : Kicking(x) => Kicking(x)'
      BY <1>1, <2>3, Views, Zenon DEF Kicking, KicksFor
    <3> QED
      BY <1>1, <3>1, <3>2, WatchedStep, SchedAssumption, Zenon DEF queues
  <2> QED
    BY <2>4, <2>5, <2>6, QuietStep DEF SInv
<1> QED
  BY <1>2, <1>3 DEF GoIdle

\* The thread marks itself asleep, before it looks for work again.
LEMMA MarkSleepingKeeps ==
  ASSUME SInv, NEW i \in SThreads, MarkSleeping(i)
  PROVE  SInv'
<1>1. /\ thr[i].pc = "mark" /\ UNCHANGED <<task, tasklet, queues, wakepipe, clock, calls>>
      /\ thr \in [SThreads -> ThrRec] /\ Goto(i, "look")
      /\ sleeping_thread_mask' = sleeping_thread_mask \cup {i}
      /\ sleeping_thread_mask \subseteq SThreads /\ wakepipe \subseteq SThreads
  BY DEF SInv, SchedTypes, MarkSleeping, At
<1>2. thr[i].now \in 1 .. MaxClock /\ thr[i].now <= clock
  BY NowSet
<1>3. ThrTo(i, "look", thr[i].cur, Idle, "none", thr[i].now, thr[i].until)
  BY <1>1, ThrGoto DEF Pcs
<1>4. QuietMove(i, "look", Idle, "none", thr[i].now, thr[i].until)
  BY <1>1, <1>2, <1>3 DEF QuietMove, Quiet, Calm
<1>5. TimerWatched'
  <2>1. ~Asleep(i)'
    BY <1>3 DEF Asleep, At, ThrTo
  <2> QED
    BY <1>1, <1>3, <2>1, TimersStep, Zenon DEF SInv
<1>6. Watched'
  <2>1. \A j \in SThreads : (Alert(j) => Alert(j)') /\ Ready(j)'
    BY <1>1, <1>3, ZenonT(30) DEF SInv, Watched, Alert, Ready, ThrTo, queues
  <2>2. \A x : Kicking(x) => Kicking(x)'
    BY <1>1, <1>3, Views, Zenon DEF Kicking, KicksFor
  <2> QED
    BY <1>1, <2>1, <2>2, WatchedStep, SchedAssumption, Zenon DEF queues
<1> QED
  BY <1>4, <1>5, <1>6, QuietStep DEF SInv

\* The poller returns.
LEMMA LeavePollKeeps ==
  ASSUME SInv, NEW i \in SThreads, LeavePoll(i)
  PROVE  SInv'
<1>1. /\ thr[i].pc = "poll" /\ UNCHANGED <<task, tasklet, queues, clock, calls>>
      /\ thr \in [SThreads -> ThrRec] /\ clock \in 1 .. MaxClock
      /\ thr' = [thr EXCEPT ![i].pc = "events", ![i].now = clock, ![i].until = TICK_ETERNITY]
      /\ sleeping_thread_mask' = sleeping_thread_mask \ {i} /\ wakepipe' = wakepipe \ {i}
      /\ sleeping_thread_mask \subseteq SThreads /\ wakepipe \subseteq SThreads
  BY DEF SInv, SchedTypes, LeavePoll, At
<1>2. TICK_ETERNITY \in 0 .. MaxClock + 1 /\ "events" \in Pcs
  BY SchedAssumption DEF TICK_ETERNITY, Pcs
<1>3. ThrTo(i, "events", thr[i].cur, thr[i].wt, thr[i].back, clock, TICK_ETERNITY)
  BY <1>1, <1>2, ThrLeave, Zenon
<1>4. QuietMove(i, "events", thr[i].wt, thr[i].back, clock, TICK_ETERNITY)
  BY <1>1, <1>3 DEF QuietMove, Quiet, Calm
<1>5. TimerWatched'
  <2>1. ~Asleep(i)'
    BY <1>3 DEF Asleep, At, ThrTo
  <2> QED
    BY <1>1, <1>3, <2>1, TimersStep DEF SInv
<1>6. Watched'
  <2>1. \A j \in SThreads : (Alert(j) => Alert(j)') /\ Ready(j)'
    BY <1>1, <1>3 DEF SInv, Watched, Alert, Ready, ThrTo, queues
  <2>2. \A x : Kicking(x) => Kicking(x)'
    BY <1>1, <1>3, Views DEF Kicking, KicksFor
  <2> QED
    BY <1>1, <2>1, <2>2, WatchedStep, SchedAssumption DEF queues
<1> QED
  BY <1>4, <1>5, <1>6, QuietStep DEF SInv

\* Marked asleep, the thread looks again: work queued before the mark is seen now, and work
\* queued after it wakes the thread up.
LEMMA LookAgainKeeps ==
  ASSUME SInv, NEW i \in SThreads, LookAgain(i)
  PROVE  SInv'
<1>1. /\ thr[i].pc = "look" /\ UNCHANGED <<task, tasklet, queues, wakepipe, clock, calls>>
      /\ thr \in [SThreads -> ThrRec]
      /\ sleeping_thread_mask \subseteq SThreads /\ wakepipe \subseteq SThreads
  BY DEF SInv, SchedTypes, LookAgain, At
<1>2. thr[i].now \in 1 .. MaxClock /\ thr[i].now <= clock
  BY NowSet
<1>3. CASE thread_has_tasks(i)
  <2>1. thr[i].now \in 0 .. MaxClock + 1 /\ "poll" \in Pcs
    BY <1>2, SchedAssumption DEF Pcs
  <2>2. NoWait(i) /\ sleeping_thread_mask' = sleeping_thread_mask \ {i}
    BY <1>3 DEF LookAgain
  <2>3. ThrTo(i, "poll", thr[i].cur, thr[i].wt, thr[i].back, thr[i].now, thr[i].now)
    BY <1>1, <2>1, <2>2, ThrUntil, Zenon DEF NoWait
  <2>4. QuietMove(i, "poll", thr[i].wt, thr[i].back, thr[i].now, thr[i].now)
    BY <1>1, <1>2, <2>2, <2>3 DEF QuietMove, Quiet, Calm
  <2>5. TimerWatched'
    <3>1. ~Asleep(i)'
      BY <1>1, <1>2, <2>3, Awake
    <3> QED
      BY <1>1, <2>3, <3>1, TimersStep, Zenon DEF SInv
  <2>6. Watched'
    <3>1. \A j \in SThreads : (Alert(j) => Alert(j)') /\ Ready(j)'
      BY <1>1, <2>2, <2>3, ZenonT(30) DEF SInv, Watched, Alert, Ready, ThrTo, queues
    <3>2. \A x : Kicking(x) => Kicking(x)'
      BY <1>1, <2>3, Views, Zenon DEF Kicking, KicksFor
    <3> QED
      BY <1>1, <3>1, <3>2, WatchedStep, SchedAssumption, Zenon DEF queues
  <2> QED
    BY <2>4, <2>5, <2>6, QuietStep DEF SInv
<1>4. CASE ~thread_has_tasks(i)
  <2>1. Goto(i, "timers") /\ UNCHANGED sleeping_thread_mask
    BY <1>4 DEF LookAgain
  <2>2. ThrTo(i, "timers", thr[i].cur, Idle, "none", thr[i].now, thr[i].until)
    BY <1>1, <2>1, ThrGoto DEF Pcs
  <2>3. QuietMove(i, "timers", Idle, "none", thr[i].now, thr[i].until)
    BY <1>1, <1>2, <2>1, <2>2 DEF QuietMove, Quiet, Calm
  <2>4. TimerWatched'
    <3>1. ~Asleep(i)'
      BY <2>2 DEF Asleep, At, ThrTo
    <3> QED
      BY <1>1, <2>2, <3>1, TimersStep, Zenon DEF SInv
  <2>5. Watched'
    <3>1. /\ \A t \in STasks : task_in_rq(t) => i \notin SMask[t]
          /\ \A k \in STasklets : tasklet[k] # "no" => STid[k] # i
          /\ tasklist[i] = <<>>
      BY <1>4, WorkSeen
    <3>2. \A j \in SThreads \ {i} : Alert(j) => Alert(j)'
      BY <1>1, <2>2, Zenon DEF Alert, ThrTo
    <3>3. \A j \in SThreads : Ready(j)'
      BY <1>1, <2>1, <2>2, <3>1, Zenon DEF SInv, Watched, Ready, ThrTo, queues
    <3>4. \A x : Kicking(x) => Kicking(x)'
      BY <1>1, <2>2, Views, Zenon DEF Kicking, KicksFor
    <3> QED
      BY <1>1, <3>1, <3>2, <3>3, <3>4, WatchedStep, SchedAssumption, Zenon DEF queues
  <2> QED
    BY <2>3, <2>4, <2>5, QuietStep DEF SInv
<1> QED
  BY <1>3, <1>4

\* Nothing about the tasks depends on the clock.
LEMMA TasksSame ==
  ASSUME SInv, UNCHANGED <<task, queues, thr>>
  PROVE  Tasks'
<1>1. /\ \A t : task_in_rq(t)' <=> task_in_rq(t)
      /\ \A i, t : InList(i, t)' <=> InList(i, t)
  BY InQueues DEF QueuesKept, queues
<1>2. \A i, t : /\ Inserting(i, t)' <=> Inserting(i, t)
                /\ Returning(i, t)' <=> Returning(i, t)
                /\ Handles(i, t)' <=> Handles(i, t)
  BY DEF Inserting, Returning, Handles, Holds
<1> SUFFICES ASSUME NEW t \in STasks PROVE TaskInv(t)'
  BY DEF Tasks
<1>3. TaskInv(t)
  BY DEF SInv, Tasks
<1>4. PlacesOf(t)'
  BY <1>1, <1>2, <1>3, Zenon DEF TaskInv, PlacesOf
<1>5. Alive(t)'
  BY <1>2, <1>3, Zenon DEF TaskInv, Alive
<1>6. Armed(t)'
  BY <1>2, <1>3, Zenon DEF TaskInv, Armed
<1>7. ~Shared(t) => Dated(t)'
  BY <1>2, <1>3, Zenon DEF TaskInv, Dated
<1> QED
  BY <1>4, <1>5, <1>6, <1>7 DEF TaskInv, Shared

\* Time passes: a thread asleep until a date still is, or returns.
LEMMA TickKeeps ==
  ASSUME SInv, Tick
  PROVE  SInv'
<1>1. /\ UNCHANGED <<task, tasklet, queues, sleep, thr, calls>>
      /\ clock \in 1 .. MaxClock /\ clock' = clock + 1 /\ clock' \in 1 .. MaxClock
  BY SchedAssumption DEF SInv, SchedTypes, Tick
<1>2. SchedTypes'
  BY <1>1 DEF SInv, SchedTypes, queues, sleep
<1>3. Locals'
  <2> SUFFICES ASSUME NEW i \in SThreads PROVE LocalsAt(i)'
    BY DEF Locals
  <2>1. thr[i].now \in 1 .. MaxClock /\ thr[i].now <= clock
    BY NowSet
  <2>2. thr[i].now <= clock'
    BY <1>1, <2>1, SchedAssumption
  <2> QED
    BY <1>1, <2>2, Zenon DEF SInv, Locals, LocalsAt, Handles, Holds
<1>4. Tasks'
  BY <1>1, TasksSame
<1>5. TimerWatched'
  <2>1. ASSUME NEW i \in SThreads, Asleep(i)' PROVE Asleep(i)
    <3>1. thr[i].until \in 0 .. MaxClock + 1
      BY DEF SInv, SchedTypes, ThrRec
    <3>2. tick_is_expired(thr[i].until, clock) => tick_is_expired(thr[i].until, clock')
      BY <1>1, <3>1, SchedAssumption DEF tick_is_expired
    <3> QED
      BY <1>1, <2>1, <3>2 DEF Asleep, At, PollEnds, sleep
  <2>2. \A i \in SThreads : \A t \in STasks : watches(i, t) => watches(i, t)'
    BY <1>1, <2>1, Zenon DEF watches
  <2>3. \A t \in STasks : (Shared(t)' <=> Shared(t)) /\ SMask[t] \subseteq SThreads
    BY SchedAssumption DEF Shared
  <2> QED
    BY <1>1, <2>2, <2>3, Zenon DEF SInv, TimerWatched, NotInWq
<1>6. Lists' /\ Masks'
  BY <1>1, ListsFrame, MasksFrame DEF SInv, queues, QueuesKept
<1>7. Watched'
  <2>1. \A i \in SThreads : (Alert(i) => Alert(i)') /\ Ready(i)'
    BY <1>1, Zenon DEF SInv, Watched, Alert, Ready, queues, sleep
  <2>2. \A x : Kicking(x) => Kicking(x)'
    BY <1>1 DEF Kicking, KicksFor, Holds
  <2> QED
    BY <1>1, <2>1, <2>2, WatchedStep, SchedAssumption, Zenon DEF queues
<1> QED
  BY <1>2, <1>3, <1>4, <1>5, <1>6, <1>7 DEF SInv

\* A tasklet is taken from a list and runs.
LEMMA RunTaskletKeeps ==
  ASSUME SInv, NEW i \in SThreads, RunTasklet(i)
  PROVE  SInv'
<1>1. /\ thr[i].pc = "urgent" /\ UNCHANGED <<task, queues, sleep, clock, calls>>
      /\ thr \in [SThreads -> ThrRec] /\ calls \in 0 .. MaxCalls
      /\ tasklet \in [STasklets -> {"no", "shared", "urgent"}]
  BY DEF SInv, SchedTypes, RunTasklet, At
<1>2. CASE Goto(i, "fill") /\ UNCHANGED tasklet
  BY <1>1, <1>2, CalmStep DEF Calm
<1>3. ASSUME NEW k \in STasklets, tasklet' = [tasklet EXCEPT ![k] = "no"],
             thr' = [thr EXCEPT ![i].pc = "act", ![i].cur = <<k>>]
      PROVE  SInv'
  <2>1. <<k>> \in Slots /\ "act" \in Pcs
    BY Slot DEF Pcs
  <2>2. ThrTo(i, "act", <<k>>, thr[i].wt, thr[i].back, thr[i].now, thr[i].until)
    BY <1>1, <1>3, <2>1, ThrCur, Zenon
  <2>3. /\ tasklet' \in [STasklets -> {"no", "shared", "urgent"}]
        /\ \A n \in STasklets : tasklet'[n] # "no" => tasklet[n] # "no"
    BY <1>1, <1>3
  <2>4. SchedTypes'
    BY <1>1, <2>2, <2>3, Zenon DEF SInv, SchedTypes, ThrTo, queues, sleep
  <2>5. LocalsAt(i)
    BY SMTT(30) DEF SInv, Locals
  <2>6. \A x : Handles(i, x)' <=> x = k
    BY <2>2, Slot, Views
  <2>7. Locals'
    <3>1. LocalsAt(i)'
      BY <1>1, <2>2, <2>5, <2>6, Zenon DEF LocalsAt, ThrTo
    <3> QED
      BY <1>1, <2>2, <3>1, LocalsStep DEF SInv
  <2>8. Tasks'
    <3> SUFFICES ASSUME NEW t \in STasks PROVE TaskInv(t)'
      BY DEF Tasks
    <3>1. ~Handles(i, t) /\ ~Handles(i, t)'
      BY <1>1, <2>5, <2>6, SchedAssumption DEF LocalsAt
    <3>2. ~Inserting(i, t) /\ ~Returning(i, t) /\ ~Inserting(i, t)' /\ ~Returning(i, t)'
      BY <1>1, <2>2, Zenon DEF Inserting, Returning, ThrTo
    <3>3. TaskKept(i, t)
      BY <1>1, <3>1, <3>2, InQueues, Zenon DEF TaskKept, QueuesKept, queues
    <3> QED
      BY <2>2, <3>3, TaskFrame DEF SInv, Tasks
  <2>9. TimerWatched'
    <3>1. ~Asleep(i)'
      BY <2>2, Zenon DEF Asleep, At, ThrTo
    <3> QED
      BY <1>1, <2>2, <3>1, TimersStep, Zenon DEF SInv, sleep
  <2>10. Lists' /\ Masks'
    BY <1>1, ListsFrame, MasksFrame, Zenon DEF SInv, queues, QueuesKept
  <2>11. Watched'
    BY <1>1, <2>2, <2>3, WatchedFrame DEF SInv, queues
  <2> QED
    BY <2>4, <2>7, <2>8, <2>9, <2>10, <2>11 DEF SInv
<1> QED
  BY <1>2, <1>3 DEF RunTasklet

\* tasklet_wakeup() by a handler or an event.
LEMMA CallTaskletKeeps ==
  ASSUME SInv, NEW i \in SThreads, NEW k \in STasklets, CallTasklet(i, k)
  PROVE  SInv'
<1> DEFINE back == IF At(i, "act") THEN "ret" ELSE "local"
<1>1. /\ thr[i].pc \in {"act", "events"} /\ UNCHANGED <<task, queues, sleep, clock>>
      /\ thr \in [SThreads -> ThrRec] /\ calls' \in 0 .. MaxCalls
      /\ tasklet \in [STasklets -> {"no", "shared", "urgent"}]
  BY SchedAssumption DEF SInv, SchedTypes, CallTasklet, TaskletWakeup, At
<1>2. back \in Backs /\ (back = "ret" <=> thr[i].pc = "act") /\ back \in Calm /\ back # "act"
  BY <1>1 DEF At, Backs, Calm
<1>3. TaskletWakeup(i, k, back)
  BY DEF CallTasklet
<1> HIDE DEF back
<1>4. CASE tasklet[k] # "no"
  <2>1. Goto(i, back) /\ UNCHANGED tasklet
    BY <1>3, <1>4 DEF TaskletWakeup
  <2>2. thr[i].pc \in {"act", "ret"} <=> back \in {"act", "ret"}
    BY <1>1, <1>2
  <2> QED
    BY <1>1, <1>2, <2>1, <2>2, CalmStep DEF Calm
<1>5. CASE tasklet[k] = "no"
  <2>1. /\ tasklet' = [tasklet EXCEPT ![k] = "shared"]
        /\ thr' = [thr EXCEPT ![i].pc = "kick", ![i].wt = <<k>>, ![i].back = back]
    BY <1>3, <1>5 DEF TaskletWakeup
  <2>2. <<k>> \in Slots /\ "kick" \in Pcs /\ back \in Backs \cup {"none"}
    BY <1>2, Slot DEF Pcs
  <2>3. ThrTo(i, "kick", thr[i].cur, <<k>>, back, thr[i].now, thr[i].until)
    BY <1>1, <2>1, <2>2, ThrSlot, Zenon
  <2>4. SchedTypes'
    BY <1>1, <2>1, <2>3 DEF SInv, SchedTypes, ThrTo, queues, sleep
  <2>5. \A x : (Handles(i, x)' <=> Handles(i, x)) /\ (KicksFor(i, x)' <=> x = k)
    <3>1. SeenAs(i, "kick", thr[i].cur, <<k>>)
      BY <2>3, Seen, Zenon
    <3> QED
      BY <3>1, Slot, Zenon DEF SeenAs
  <2>6. Locals'
    <3>1. LocalsAt(i) /\ Holds(i, k)'
      BY <2>5 DEF SInv, Locals, KicksFor
    <3>2. LocalsAt(i)'
      BY <1>1, <1>2, <2>3, <2>5, <3>1, Zenon DEF LocalsAt, ThrTo
    <3> QED
      BY <1>1, <2>3, <3>2, LocalsStep DEF SInv
  <2>7. Tasks'
    <3> SUFFICES ASSUME NEW t \in STasks PROVE TaskInv(t)'
      BY DEF Tasks
    <3>1. ~Inserting(i, t) /\ ~Returning(i, t) /\ ~Inserting(i, t)' /\ ~Returning(i, t)'
      BY <1>1, <2>3, Zenon DEF Inserting, Returning, ThrTo
    <3>2. TaskKept(i, t)
      BY <1>1, <2>5, <3>1, InQueues, Zenon DEF TaskKept, QueuesKept, queues
    <3> QED
      BY <2>3, <3>2, TaskFrame DEF SInv, Tasks
  <2>8. TimerWatched'
    <3>1. ~Asleep(i)'
      BY <2>3 DEF Asleep, At, ThrTo
    <3> QED
      BY <1>1, <2>3, <3>1, TimersStep, Zenon DEF SInv, sleep
  <2>9. Lists' /\ Masks'
    BY <1>1, ListsFrame, MasksFrame, Zenon DEF SInv, queues, QueuesKept
  <2>10. Watched'
    <3>1. \A n \in STasklets : tasklet'[n] # "no" => tasklet[n] # "no" \/ Kicking(n)'
      BY <1>1, <2>1, <2>5 DEF Kicking
    <3> QED
      BY <1>1, <2>3, <3>1, WatchedFrame DEF SInv, queues
  <2> QED
    BY <2>4, <2>6, <2>7, <2>8, <2>9, <2>10 DEF SInv
<1> QED
  BY <1>4, <1>5

\* task_queue() tests the date before it takes the lock.
LEMMA RequeueKeeps ==
  ASSUME SInv, NEW i \in SThreads, Requeue(i)
  PROVE  SInv'
<1>1. /\ thr[i].pc = "requeue" /\ UNCHANGED <<task, tasklet, queues, sleep, clock, calls>>
      /\ thr \in [SThreads -> ThrRec]
  BY DEF SInv, SchedTypes, Requeue, At
<1>2. PICK t \in STasks : Holds(i, t)
  BY <1>1 DEF SInv, Locals, LocalsAt
<1>3. thr[i].wt[1] = t /\ thr[i].wt = <<t>>
  BY <1>2, Slot DEF Holds
<1>4. PICK pc, wt, back :
        /\ pc \in {"locked", "list"} /\ wt \in {<<t>>, Idle}
        /\ ThrTo(i, pc, thr[i].cur, wt, back, thr[i].now, thr[i].until)
        /\ pc = "locked" => wt = <<t>> /\ tick_isset(task[t].expire)
        /\ pc = "list" => ~tick_isset(task[t].expire)
  <2>1. CASE tick_isset(task[t].expire)
    <3>1. thr' = [thr EXCEPT ![i].pc = "locked"]
      BY <1>3, <2>1 DEF Requeue
    <3>2. ThrTo(i, "locked", thr[i].cur, thr[i].wt, thr[i].back, thr[i].now, thr[i].until)
      BY <1>1, <3>1, ThrPc, Zenon DEF Pcs
    <3>3. ThrTo(i, "locked", thr[i].cur, <<t>>, thr[i].back, thr[i].now, thr[i].until)
      BY <1>3, <3>2, Zenon
    <3> WITNESS "locked", <<t>>, thr[i].back
    <3> QED
      BY <2>1, <3>3, Zenon
  <2>2. CASE ~tick_isset(task[t].expire)
    <3>1. Goto(i, "list")
      BY <1>3, <2>2 DEF Requeue
    <3>2. ThrTo(i, "list", thr[i].cur, Idle, "none", thr[i].now, thr[i].until)
      BY <1>1, <3>1, ThrGoto DEF Pcs
    <3> WITNESS "list", Idle, "none"
    <3> QED
      BY <2>2, <3>2, Zenon
  <2> QED
    BY <2>1, <2>2
<1>5. SchedTypes'
  BY <1>1, <1>4, Zenon DEF SInv, SchedTypes, ThrTo, queues, sleep
<1>6. /\ \A x : Handles(i, x)' <=> Handles(i, x)
      /\ \A x : Returning(i, x) <=> x = t
      /\ \A x : Returning(i, x)' <=> x = t /\ pc = "locked"
      /\ \A x : ~Inserting(i, x) /\ ~Inserting(i, x)'
  <2>0. SeenAs(i, pc, thr[i].cur, wt) /\ \A j \in SThreads \ {i} : thr'[j] = thr[j]
    BY <1>4, Seen, Zenon
  <2>1. \A x : Handles(i, x)' <=> Handles(i, x)
    BY <2>0, Zenon DEF SeenAs
  <2>2. \A x : (Returning(i, x) <=> x = t) /\ ~Inserting(i, x)
    BY <1>1, <1>2, Slot, Zenon DEF Returning, Inserting, Holds
  <2>3. \A x : Returning(i, x)' <=> x = t /\ pc = "locked"
    <3>1. \A x : pc \in {"again", "requeue", "locked"} /\ wt = <<x>> <=> x = t /\ pc = "locked"
      BY <1>4, Slot
    <3> QED
      BY <2>0, <3>1, Zenon DEF SeenAs
  <2>4. \A x : ~Inserting(i, x)'
    BY <1>4, <2>0, Zenon DEF SeenAs
  <2> QED
    BY <2>1, <2>2, <2>3, <2>4
<1>7. Locals'
  <2>1. LocalsAt(i)
    BY DEF SInv, Locals
  <2>2. pc = "locked" => Holds(i, t)'
    BY <1>6, Zenon DEF Returning
  <2>3. LocalsAt(i)'
    BY <1>1, <1>4, <1>6, <2>1, <2>2, Zenon DEF LocalsAt, ThrTo
  <2> QED
    BY <1>1, <1>4, <2>3, LocalsStep DEF SInv
<1>8. Tasks'
  <2> SUFFICES ASSUME NEW u \in STasks PROVE TaskInv(u)'
    BY DEF Tasks
  <2>1. TaskInv(u)
    BY DEF SInv, Tasks
  <2>2. CASE u # t
    <3>1. TaskKept(i, u)
      BY <1>1, <1>6, <2>2, InQueues, Zenon DEF TaskKept, QueuesKept, queues
    <3> QED
      BY <1>4, <2>1, <3>1, TaskFrame
  <2>3. CASE u = t
    <3>1. \A j \in SThreads : /\ Inserting(j, t)' <=> Inserting(j, t)
                              /\ Handles(j, t)' <=> Handles(j, t)
                              /\ Returning(j, t)' => Returning(j, t)
                              /\ j # i => (Returning(j, t)' <=> Returning(j, t)) /\ thr'[j] = thr[j]
      <4>1. SeenAs(i, pc, thr[i].cur, wt) /\ \A j \in SThreads \ {i} : thr'[j] = thr[j]
        BY <1>4, Seen, Zenon
      <4> QED
        BY <1>6, <4>1, Zenon DEF SeenAs
    <3>2. PlacesOf(t)'
      BY <1>1, <2>1, <2>3, <3>1, InQueues, Zenon DEF TaskInv, PlacesOf, QueuesKept, queues
    <3>3. Alive(t)'
      BY <1>1, <2>1, <2>3, <3>1, Zenon DEF TaskInv, Alive
    <3>4. Armed(t)'
      BY <1>1, <1>4, <1>6, Zenon DEF Armed
    <3>5. ASSUME Dated(t) PROVE Dated(t)'
      <4>1. \A j \in SThreads : Returning(j, t)' /\ thr'[j].pc = "locked" => tick_isset(task[t].expire)
        BY <1>4, <1>6, <3>1, <3>5, Zenon DEF Dated, tick_isset
      <4> QED
        BY <1>1, <3>5, <4>1, Zenon DEF Dated, tick_isset
    <3> QED
      BY <2>1, <2>3, <3>2, <3>3, <3>4, <3>5 DEF TaskInv, Shared
  <2> QED
    BY <2>2, <2>3
<1>9. TimerWatched'
  <2>1. ~Asleep(i)'
    BY <1>4, Zenon DEF Asleep, At, ThrTo
  <2> QED
    BY <1>1, <1>4, <2>1, TimersStep, Zenon DEF SInv, sleep
<1>10. Lists' /\ Masks'
  BY <1>1, ListsFrame, MasksFrame DEF SInv, queues, QueuesKept
<1>11. Watched'
  BY <1>1, <1>4, WatchedFrame DEF SInv, queues
<1> QED
  BY <1>5, <1>7, <1>8, <1>9, <1>10, <1>11 DEF SInv

\* A handler has returned: the task no longer runs and the thread still has it in hand.
LEMMA ReturnKeeps ==
  ASSUME SInv, NEW i \in SThreads, Return(i)
  PROVE  SInv'
<1>1. /\ thr[i].pc = "ret" /\ UNCHANGED <<tasklet, queues, sleep, clock, calls>>
      /\ thr \in [SThreads -> ThrRec] /\ task \in [STasks -> TaskRec]
  BY DEF SInv, SchedTypes, Return, At
<1>2. LocalsAt(i)
  BY DEF SInv, Locals
<1>3. PICK x \in STasks \cup STasklets : Handles(i, x)
  BY <1>1, <1>2 DEF LocalsAt
<1>4. thr[i].cur[1] = x /\ \A y : Handles(i, y) <=> y = x
  BY <1>3, Slot DEF Handles
<1>5. \A y : ~Inserting(i, y) /\ ~Returning(i, y)
  BY <1>1 DEF Inserting, Returning
<1>6. ASSUME NEW pc \in {"urgent", "again", "requeue"}, NEW wt,
             ThrTo(i, pc, Idle, wt, thr[i].back, thr[i].now, thr[i].until),
             \A y \in STasks : "GLOBAL" \in task'[y].st <=> "GLOBAL" \in task[y].st,
             \A y \in STasks : task'[y].wq = task[y].wq,
             pc # "urgent" => x \in STasks /\ wt = <<x>>,
             task' \in [STasks -> TaskRec], Tasks'
      PROVE  SInv'
  <2>1. SchedTypes'
    BY <1>1, <1>6, Zenon DEF SInv, SchedTypes, ThrTo, queues, sleep
  <2>2. Locals'
    <3>1. \A y : ~Handles(i, y)'
      BY <1>6, Slot, Views, Zenon
    <3>2. pc # "urgent" => x \in STasks /\ Holds(i, x)'
      BY <1>6 DEF Holds, ThrTo
    <3>3. LocalsAt(i)'
      BY <1>1, <1>2, <1>6, <3>1, <3>2, Zenon DEF LocalsAt, ThrTo
    <3> QED
      BY <1>1, <1>6, <3>3, LocalsStep, Zenon DEF SInv
  <2>3. TimerWatched'
    <3>1. ~Asleep(i)'
      BY <1>6, Zenon DEF Asleep, At, ThrTo
    <3> QED
      BY <1>1, <1>6, <3>1, TimersStep, Zenon DEF SInv, sleep
  <2>4. Lists' /\ Masks'
    BY <1>1, <1>6, ListsFrame, MasksFrame, Zenon DEF SInv, queues, QueuesKept
  <2>5. Watched'
    BY <1>1, <1>6, WatchedFrame, Zenon DEF SInv, queues
  <2> QED
    BY <1>6, <2>1, <2>2, <2>3, <2>4, <2>5, Zenon DEF SInv
<1>7. CASE x \in STasklets
  <2>1. thr' = [thr EXCEPT ![i].pc = "urgent", ![i].cur = Idle] /\ UNCHANGED task
    BY <1>4, <1>7 DEF Return
  <2>2. ThrTo(i, "urgent", Idle, thr[i].wt, thr[i].back, thr[i].now, thr[i].until)
    BY <1>1, <2>1, Slot, ThrCur, Zenon DEF Pcs
  <2>3. Tasks'
    <3> SUFFICES ASSUME NEW t \in STasks PROVE TaskInv(t)'
      BY DEF Tasks
    <3>1. t # x
      BY <1>7, SchedAssumption
    <3>2. ~Handles(i, t) /\ ~Handles(i, t)' /\ ~Inserting(i, t)' /\ ~Returning(i, t)'
      <4>1. SeenAs(i, "urgent", Idle, thr[i].wt)
        BY <2>2, Seen, Zenon
      <4> QED
        BY <1>4, <3>1, <4>1, Slot, Zenon DEF SeenAs
    <3>3. TaskKept(i, t)
      BY <1>1, <1>5, <2>1, <3>2, InQueues DEF TaskKept, QueuesKept, queues
    <3> QED
      BY <2>2, <3>3, TaskFrame DEF SInv, Tasks
  <2> QED
    BY <1>1, <1>6, <2>1, <2>2, <2>3
<1>8. CASE x \notin STasklets
  <2> DEFINE pc == IF "WOKEN" \in task[x].st THEN "again" ELSE "requeue"
             r == [task[x] EXCEPT !.st = @ \ {"RUNNING"}]
  <2>1. x \in STasks /\ task[x] \in TaskRec
    BY <1>1, <1>8
  <2>2. /\ task' = [task EXCEPT ![x].st = @ \ {"RUNNING"}]
        /\ thr' = [thr EXCEPT ![i].cur = Idle, ![i].wt = <<x>>, ![i].pc = pc]
    BY <1>4, <1>8 DEF Return
  <2>3. task' = [task EXCEPT ![x] = r]
    BY <2>2
  <2>4. /\ r \in TaskRec /\ r.expire = task[x].expire /\ r.wq = task[x].wq /\ r.life = task[x].life
        /\ "RUNNING" \notin r.st /\ \A f \in {"QUEUED", "GLOBAL"} : f \in r.st <=> f \in task[x].st
    BY <2>1 DEF TaskRec
  <2>5. pc \in {"again", "requeue"} /\ pc \in Pcs
    BY DEF Pcs
  <2> HIDE DEF pc, r
  <2>6. ThrTo(i, pc, Idle, <<x>>, thr[i].back, thr[i].now, thr[i].until)
    BY <1>1, <2>1, <2>2, <2>5, Slot, ThrReturn, Zenon
  <2>7. task' \in [STasks -> TaskRec] /\ task'[x] = r /\ \A u \in STasks \ {x} : task'[u] = task[u]
    BY <1>1, <2>1, <2>3, <2>4, Zenon
  <2>8. /\ \A y : ~Handles(i, y)' /\ ~Inserting(i, y)'
        /\ \A y : Returning(i, y)' <=> y = x
    <3>1. SeenAs(i, pc, Idle, <<x>>)
      BY <2>6, Seen, Zenon
    <3> QED
      BY <2>5, <3>1, Slot, Zenon DEF SeenAs
  <2>9. Tasks'
    <3> SUFFICES ASSUME NEW u \in STasks PROVE TaskInv(u)'
      BY DEF Tasks
    <3>1. TaskInv(u)
      BY DEF SInv, Tasks
    <3>2. CASE u # x
      <4>1. TaskKept(i, u)
        BY <1>1, <1>4, <1>5, <2>7, <2>8, <3>2, InQueues, Zenon DEF TaskKept, QueuesKept, queues
      <4> QED
        BY <2>6, <3>1, <4>1, TaskFrame
    <3>3. CASE u = x
      <4>1. \A j \in SThreads : /\ Inserting(j, x)' <=> Inserting(j, x)
                                /\ Handles(j, x)' <=> Handles(j, x) /\ j # i
                                /\ j # i => (Returning(j, x)' <=> Returning(j, x)) /\ thr'[j] = thr[j]
        <5>1. SeenAs(i, pc, Idle, <<x>>) /\ \A j \in SThreads \ {i} : thr'[j] = thr[j]
          BY <2>6, Seen, Zenon
        <5> QED
          BY <1>5, <2>8, <5>1, Zenon DEF SeenAs
      <4>2. PlacesOf(x)'
        BY <1>1, <1>3, <2>4, <2>7, <3>1, <3>3, <4>1, InQueues, Zenon DEF TaskInv, PlacesOf, QueuesKept, queues
      <4>3. Alive(x)'
        BY <1>3, <2>4, <2>7, <3>1, <3>3, <4>1, Zenon DEF TaskInv, Alive
      <4>4. Armed(x)'
        BY <2>8, Zenon DEF Armed
      <4>5. ASSUME Dated(x) PROVE Dated(x)'
        BY <2>4, <2>5, <2>6, <2>7, <4>1, <4>5, Zenon DEF Dated, ThrTo
      <4> QED
        BY <3>1, <3>3, <4>2, <4>3, <4>4, <4>5 DEF TaskInv, Shared
    <3> QED
      BY <3>2, <3>3
  <2> QED
    BY <1>6, <2>1, <2>4, <2>5, <2>6, <2>7, <2>9, Zenon
<1> QED
  BY <1>7, <1>8
===============================================================================
