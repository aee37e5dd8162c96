--------------------------- MODULE Scheduler_proofs ---------------------------
(***************************************************************************)
(* Proofs about the scheduler, for any number of threads and of tasks: a   *)
(* task is in the one place that its flags tell, work that is queued has   *)
(* an awake thread, and a date given to a task is waited for.  The         *)
(* inductive invariant is in Scheduler_steps.                              *)
(***************************************************************************)
EXTENDS Scheduler_steps

\* Membership in a sequence, and what the operations on the queues do to it.
In(q, x) == \E n \in DOMAIN q : q[n] = x

LEMMA InEach ==
  /\ \A t : task_in_rq(t) <=> In(rqueue, t)
  /\ \A i, t : InList(i, t) <=> In(tasklist[i], t)
BY DEF task_in_rq, some_queued, InList, In

LEMMA AppendIn ==
  ASSUME NEW S, NEW q \in Seq(S), NEW x \in S, Distinct(q), ~In(q, x)
  PROVE  /\ Append(q, x) \in Seq(S) /\ Distinct(Append(q, x))
         /\ \A y : In(Append(q, x), y) <=> In(q, y) \/ y = x
<1> DEFINE l == Len(q)
           a == Append(q, x)
<1>1. /\ l \in Nat /\ DOMAIN q = 1 .. l
      /\ a \in Seq(S) /\ DOMAIN a = 1 .. l + 1 /\ a[l + 1] = x /\ \A n \in 1 .. l : a[n] = q[n]
  OBVIOUS
<1>2. \A n \in 1 .. l + 1 : n \in 1 .. l \/ n = l + 1
  <2>1. \A k \in Nat : \A n \in 1 .. k + 1 : n \in 1 .. k \/ n = k + 1
    OBVIOUS
  <2> QED
    BY <1>1, <2>1
<1>3. l + 1 \in 1 .. l + 1 /\ \A n \in 1 .. l : n \in 1 .. l + 1
  BY <1>1
<1> HIDE DEF l, a
<1>4. \A n \in 1 .. l : q[n] # x
  BY <1>1 DEF In
<1>5. Distinct(a)
  BY <1>1, <1>2, <1>4 DEF Distinct
<1>6. \A y : In(a, y) <=> In(q, y) \/ y = x
  BY <1>1, <1>2, <1>3 DEF In
<1> QED
  BY <1>1, <1>5, <1>6, Zenon DEF a

LEMMA RemoveIn ==
  ASSUME NEW S, NEW q \in Seq(S), NEW n \in DOMAIN q, Distinct(q)
  PROVE  /\ task_unlink_rq(q, n) \in Seq(S) /\ Distinct(task_unlink_rq(q, n))
         /\ \A y : In(task_unlink_rq(q, n), y) <=> In(q, y) /\ y # q[n]
<1> DEFINE l == Len(q)
           a == task_unlink_rq(q, n)
<1>1. l \in Nat /\ DOMAIN q = 1 .. l /\ n \in 1 .. l
  OBVIOUS
<1>2. /\ a \in Seq(S) /\ Len(a) = l - 1
      /\ \A m \in DOMAIN a : a[m] = IF m < n THEN q[m] ELSE q[m + 1]
  BY <1>1 DEF task_unlink_rq
<1>3. DOMAIN a = 1 .. l - 1
  BY <1>2
<1> HIDE DEF l, a
<1>4. ASSUME NEW m \in 1 .. l - 1
      PROVE  /\ m \in 1 .. l /\ m + 1 \in 1 .. l
             /\ m < n => m # n
             /\ ~(m < n) => m + 1 # n
  BY <1>1
<1>5. Distinct(a)
  <2> SUFFICES ASSUME NEW m \in 1 .. l - 1, NEW k \in 1 .. l - 1, a[m] = a[k] PROVE m = k
    BY <1>3 DEF Distinct
  <2> DEFINE mm == IF m < n THEN m ELSE m + 1
             kk == IF k < n THEN k ELSE k + 1
  <2>1. mm \in 1 .. l /\ kk \in 1 .. l /\ q[mm] = q[kk]
    BY <1>2, <1>3, <1>4, Zenon
  <2>2. mm = kk
    BY <1>1, <2>1 DEF Distinct
  <2> QED
    BY <1>1, <2>2
<1>6. ASSUME NEW y, In(a, y) PROVE In(q, y) /\ y # q[n]
  <2>1. PICK m \in 1 .. l - 1 : a[m] = y
    BY <1>3, <1>6 DEF In
  <2> DEFINE mm == IF m < n THEN m ELSE m + 1
  <2>2. mm \in 1 .. l /\ mm # n /\ q[mm] = y
    BY <1>2, <1>3, <1>4, <2>1
  <2> QED
    BY <1>1, <2>2 DEF In, Distinct
<1>7. ASSUME NEW y, In(q, y), y # q[n] PROVE In(a, y)
  <2>1. PICK k \in 1 .. l : q[k] = y /\ k # n
    BY <1>1, <1>7 DEF In
  <2>2. CASE k < n
    <3>1. k \in 1 .. l - 1
      BY <1>1, <2>1, <2>2
    <3> QED
      BY <1>2, <1>3, <2>1, <2>2, <3>1, Zenon DEF In
  <2>3. CASE ~(k < n)
    <3>1. k - 1 \in 1 .. l - 1 /\ ~(k - 1 < n) /\ k - 1 + 1 = k
      BY <1>1, <2>1, <2>3
    <3>2. a[k - 1] = q[k]
      BY <1>2, <1>3, <3>1, Zenon
    <3> QED
      BY <1>3, <2>1, <3>1, <3>2 DEF In
  <2> QED
    BY <2>2, <2>3
<1> QED
  BY <1>2, <1>5, <1>6, <1>7 DEF a

LEMMA TailIn ==
  ASSUME NEW S, NEW q \in Seq(S), q # <<>>, Distinct(q)
  PROVE  /\ Tail(q) \in Seq(S) /\ Distinct(Tail(q)) /\ Head(q) \in S
         /\ \A y : In(Tail(q), y) <=> In(q, y) /\ y # Head(q)
         /\ In(q, Head(q))
<1> DEFINE l == Len(q)
           a == Tail(q)
<1>1. /\ l \in Nat /\ l # 0 /\ DOMAIN q = 1 .. l /\ Head(q) = q[1]
      /\ a \in Seq(S) /\ DOMAIN a = 1 .. l - 1 /\ \A n \in 1 .. l - 1 : a[n] = q[n + 1]
  OBVIOUS
<1> HIDE DEF l, a
<1>2. 1 \in 1 .. l /\ \A n \in 1 .. l - 1 : n + 1 \in 1 .. l /\ n + 1 # 1
  BY <1>1
<1>3. \A n \in 1 .. l : n = 1 \/ (n - 1 \in 1 .. l - 1 /\ n - 1 + 1 = n)
  BY <1>1
<1>4. Distinct(a)
  <2> SUFFICES ASSUME NEW m \in 1 .. l - 1, NEW k \in 1 .. l - 1, a[m] = a[k] PROVE m = k
    BY <1>1 DEF Distinct
  <2>1. m + 1 = k + 1
    BY <1>1, <1>2, ZenonT(30) DEF Distinct
  <2> QED
    BY <1>1, <2>1
<1>5. ASSUME NEW y, In(a, y) PROVE In(q, y) /\ y # q[1]
  <2>1. PICK n \in 1 .. l - 1 : q[n + 1] = y
    BY <1>1, <1>5 DEF In
  <2> QED
    BY <1>1, <1>2, <2>1, SMTT(30) DEF In, Distinct
<1>6. ASSUME NEW y, In(q, y), y # q[1] PROVE In(a, y)
  <2>1. PICK n \in 1 .. l : q[n] = y /\ n # 1
    BY <1>1, <1>6 DEF In
  <2>2. n - 1 \in 1 .. l - 1 /\ n - 1 + 1 = n
    BY <1>3, <2>1
  <2>3. a[n - 1] = y
    BY <1>1, <2>1, <2>2
  <2> QED
    BY <1>1, <2>2, <2>3, Zenon DEF In
<1>7. In(q, q[1]) /\ q[1] \in S
  BY <1>1, <1>2 DEF In
<1> QED
  BY <1>1, <1>4, <1>5, <1>6, <1>7 DEF a

\* The first task of the list of a thread runs, or is freed if it was destroyed.
LEMMA RunTaskKeeps ==
  ASSUME SInv, NEW i \in SThreads, RunTask(i)
  PROVE  SInv'
<1>0. PICK q, t : q = tasklist[i] /\ t = Head(q)
  OBVIOUS
<1>1. /\ thr[i].pc = "list" /\ UNCHANGED <<tasklet, rqueue, global_tasks_mask, sleep, clock, calls>>
      /\ q # <<>> /\ q \in Seq(STasks) /\ tasklist' = [tasklist EXCEPT ![i] = Tail(q)]
      /\ thr \in [SThreads -> ThrRec] /\ task \in [STasks -> TaskRec]
      /\ tasklist \in [SThreads -> Seq(STasks)]
  BY <1>0 DEF SInv, SchedTypes, RunTask, At
<1>2. Distinct(q)
  BY <1>0 DEF SInv, Lists
<1>3. /\ Tail(q) \in Seq(STasks) /\ Distinct(Tail(q)) /\ t \in STasks
      /\ \A y : In(Tail(q), y) <=> In(q, y) /\ y # t
      /\ In(q, t)
  BY <1>0, <1>1, <1>2, TailIn
<1>4. /\ task[t].life = "doomed" =>
           task' = [task EXCEPT ![t] = [[task[t] EXCEPT !.st = {"RUNNING"}] EXCEPT !.life = "freed", !.st = {}]]
           /\ UNCHANGED thr
      /\ task[t].life # "doomed" =>
           /\ task' = [task EXCEPT ![t] = [task[t] EXCEPT !.st = {"RUNNING"}]]
           /\ thr' = [thr EXCEPT ![i].pc = "run", ![i].cur = <<t>>]
  <2>1. task[t] \in TaskRec
    BY <1>1, <1>3
  <2>2. [task[t] EXCEPT !.st = {"RUNNING"}].life = task[t].life
    BY <2>1 DEF TaskRec
  <2> QED
    BY <1>0, <2>2 DEF RunTask
<1>5. /\ tasklist' \in [SThreads -> Seq(STasks)] /\ tasklist'[i] = Tail(q)
      /\ \A j \in SThreads \ {i} : tasklist'[j] = tasklist[j]
  BY <1>1, <1>3
<1>6. /\ \A u : task_in_rq(u)' <=> task_in_rq(u)
      /\ \A j \in SThreads : \A u : InList(j, u)' <=> InList(j, u) /\ ~(j = i /\ u = t)
      /\ InList(i, t)
  <2>1. \A u : task_in_rq(u)' <=> task_in_rq(u)
    BY <1>1 DEF task_in_rq, some_queued
  <2>2. \A j, u : InList(j, u)' <=> In(tasklist'[j], u)
    BY DEF InList, In
  <2>3. \A j, u : InList(j, u) <=> In(tasklist[j], u)
    BY InEach
  <2> QED
    BY <1>0, <1>3, <1>5, <2>1, <2>2, <2>3, Zenon
<1>7. TaskInv(t) /\ LocalsAt(i)
  BY <1>3 DEF SInv, Tasks, Locals
<1>8. /\ "QUEUED" \in task[t].st /\ "RUNNING" \notin task[t].st /\ i \in SMask[t] /\ ~task_in_rq(t)
      /\ \A j \in SThreads : ~Inserting(j, t) /\ ~Handles(j, t) /\ (InList(j, t) => j = i)
  BY <1>6, <1>7, Zenon DEF TaskInv, PlacesOf
<1>9. \A u \in STasks : ~Handles(i, u)
  BY <1>1, <1>7 DEF LocalsAt
<1>10. \A u : ~Inserting(i, u) /\ ~Returning(i, u)
  BY <1>1 DEF Inserting, Returning
<1>11. ASSUME NEW r \in TaskRec, task' = [task EXCEPT ![t] = r], r.wq = task[t].wq,
              NEW pc \in {"list", "run"}, NEW cur,
              ThrTo(i, pc, cur, thr[i].wt, thr[i].back, thr[i].now, thr[i].until),
              \A u \in STasks : Handles(i, u)' <=> u = t /\ pc = "run",
              LocalsAt(i)', PlacesOf(t)', Alive(t)', Armed(t)'
       PROVE  SInv'
  <2>1. task' \in [STasks -> TaskRec] /\ task'[t] = r /\ \A u \in STasks \ {t} : task'[u] = task[u]
    BY <1>1, <1>3, <1>11
  <2>2. SchedTypes'
    BY <1>1, <1>5, <1>11, <2>1, Zenon DEF SInv, SchedTypes, ThrTo, sleep
  <2>3. Locals'
    BY <1>1, <1>11, LocalsStep DEF SInv
  <2>4. \A u : ~Inserting(i, u)' /\ ~Returning(i, u)'
    <3>1. SeenAs(i, pc, cur, thr[i].wt)
      BY <1>11, Seen, Zenon
    <3> QED
      BY <1>11, <3>1, Zenon DEF SeenAs
  <2>5. ASSUME NEW u \in STasks PROVE TaskInv(u)'
    <3>1. CASE u # t
      <4>1. TaskKept(i, u)
        BY <1>6, <1>9, <1>10, <1>11, <2>1, <2>4, <3>1, Zenon DEF TaskKept
      <4> QED
        BY <1>11, <4>1, TaskFrame DEF SInv, Tasks
    <3>2. CASE u = t
      <4>1. \A j \in SThreads : Returning(j, t)' => Returning(j, t) /\ thr'[j] = thr[j]
        <5>1. SeenAs(i, pc, cur, thr[i].wt) /\ \A j \in SThreads \ {i} : thr'[j] = thr[j]
          BY <1>11, Seen, Zenon
        <5> QED
          BY <2>4, <5>1, Zenon DEF SeenAs
      <4>2. ASSUME Dated(t), ~Shared(t) PROVE Dated(t)'
        <5>1. SMask[t] = {i}
          BY <1>3, <1>8, <4>2, Alone, Zenon
        <5>2. \A j \in SThreads : ~Returning(j, t)'
          BY <1>7, <1>10, <4>1, <5>1, Zenon DEF TaskInv, PlacesOf
        <5> QED
          BY <1>11, <2>1, <4>2, <5>2, Zenon DEF Dated
      <4> QED
        BY <1>7, <1>11, <3>2, <4>2 DEF TaskInv, Shared
    <3> QED
      BY <3>1, <3>2
  <2>6. TimerWatched'
    <3>1. ~Asleep(i)'
      BY <1>11, Zenon DEF Asleep, At, ThrTo
    <3>2. \A u \in STasks : task'[u].wq = task[u].wq
      BY <1>11, <2>1
    <3> QED
      BY <1>1, <1>11, <3>1, <3>2, TimersStep, Zenon DEF SInv, sleep
  <2>7. Lists'
    BY <1>1, <1>3, <1>5 DEF SInv, Lists
  <2>8. Masks'
    BY <1>1, <1>6, <1>8, <2>1, Zenon DEF SInv, Masks, Masked
  <2>9. Watched'
    <3>1. \A j \in SThreads : (Alert(j) => Alert(j)') /\ Ready(j)'
      BY <1>1, <1>5, <1>11 DEF SInv, Watched, Alert, Ready, ThrTo, sleep
    <3>2. \A x : Kicking(x) => Kicking(x)'
      BY <1>1, <1>11, Views, Zenon DEF Kicking, KicksFor
    <3> QED
      BY <1>1, <3>1, <3>2, WatchedStep, SchedAssumption, ZenonT(30)
  <2> QED
    BY <2>2, <2>3, <2>5, <2>6, <2>7, <2>8, <2>9 DEF SInv, Tasks
<1>12. CASE task[t].life = "doomed"
  <2> DEFINE r == [[task[t] EXCEPT !.st = {"RUNNING"}] EXCEPT !.life = "freed", !.st = {}]
  <2>1. task' = [task EXCEPT ![t] = r] /\ UNCHANGED thr
    BY <1>4, <1>12
  <2>2. r \in TaskRec /\ r.wq = task[t].wq /\ r.life = "freed" /\ r.st = {}
    BY <1>1, <1>3, Zenon DEF TaskRec, LifeSet
  <2> HIDE DEF r
  <2>3. ThrTo(i, "list", thr[i].cur, thr[i].wt, thr[i].back, thr[i].now, thr[i].until)
    BY <1>1, <2>1, ThrSame, Zenon
  <2>4. task'[t] = r
    BY <1>1, <1>3, <2>1
  <2>5. LocalsAt(i)'
    BY <1>1, <1>7, <2>1, Zenon DEF LocalsAt, Holds, Handles
  <2>6. \A j \in SThreads : \A u : /\ Inserting(j, u)' <=> Inserting(j, u)
                                   /\ Handles(j, u)' <=> Handles(j, u)
                                   /\ Returning(j, u)' <=> Returning(j, u)
    BY <2>1, Zenon DEF Inserting, Handles, Returning, Holds
  <2>7. PlacesOf(t)'
    BY <1>6, <1>7, <1>8, <2>2, <2>4, <2>6, Zenon DEF TaskInv, PlacesOf
  <2>8. Alive(t)'
    BY <1>7, <1>8, <1>12, <2>2, <2>4, <2>6, Zenon DEF TaskInv, Alive
  <2>9. Armed(t)'
    BY <2>2, <2>4 DEF Armed
  <2>10. \A u \in STasks : ~Handles(i, u)'
    BY <1>9, <2>6
  <2> QED
    BY <1>11, <2>1, <2>2, <2>3, <2>5, <2>7, <2>8, <2>9, <2>10, Zenon
<1>13. CASE task[t].life # "doomed"
  <2> DEFINE r == [task[t] EXCEPT !.st = {"RUNNING"}]
  <2>1. task' = [task EXCEPT ![t] = r] /\ thr' = [thr EXCEPT ![i].pc = "run", ![i].cur = <<t>>]
    BY <1>4, <1>13
  <2>2. task[t].life = "live"
    BY <1>1, <1>3, <1>7, <1>8, <1>13 DEF TaskInv, Alive, TaskRec, LifeSet
  <2>3. r \in TaskRec /\ r.wq = task[t].wq /\ r.life = "live" /\ r.st = {"RUNNING"}
    BY <1>1, <1>3, <2>2, Zenon DEF TaskRec, TaskFlags
  <2> HIDE DEF r
  <2>4. ThrTo(i, "run", <<t>>, thr[i].wt, thr[i].back, thr[i].now, thr[i].until)
    BY <1>1, <1>3, <2>1, Slot, ThrCur, Zenon DEF Pcs
  <2>5. task'[t] = r
    BY <1>1, <1>3, <2>1
  <2>6. \A u : (Handles(i, u)' <=> u = t) /\ ~Inserting(i, u)' /\ ~Returning(i, u)'
    <3>1. SeenAs(i, "run", <<t>>, thr[i].wt)
      BY <2>4, Seen, Zenon
    <3> QED
      BY <3>1, Slot, Zenon DEF SeenAs
  <2>7. LocalsAt(i)'
    BY <1>1, <1>3, <1>7, <2>4, <2>6 DEF LocalsAt, ThrTo
  <2>8. \A j \in SThreads \ {i} : /\ Inserting(j, t)' <=> Inserting(j, t)
                                  /\ Handles(j, t)' <=> Handles(j, t)
                                  /\ Returning(j, t)' <=> Returning(j, t)
    <3>1. SeenAs(i, "run", <<t>>, thr[i].wt)
      BY <2>4, Seen, Zenon
    <3> QED
      BY <3>1, ZenonT(30) DEF SeenAs
  <2>9. PlacesOf(t)'
    BY <1>6, <1>7, <1>8, <2>3, <2>5, <2>6, <2>8 DEF TaskInv, PlacesOf
  <2>10. Alive(t)' /\ Armed(t)'
    BY <2>3, <2>5 DEF Alive, Armed
  <2> QED
    BY <1>11, <2>1, <2>3, <2>4, <2>6, <2>7, <2>9, <2>10, Zenon
<1> QED
  BY <1>12, <1>13

\* __task_wakeup() puts the task in a run queue; the global one has its mask updated.
LEMMA InsertKeeps ==
  ASSUME SInv, NEW i \in SThreads, Insert(i)
  PROVE  SInv'
<1>1. /\ thr[i].pc = "insert" /\ UNCHANGED <<tasklet, tasklist, sleep, clock, calls>>
      /\ thr \in [SThreads -> ThrRec] /\ task \in [STasks -> TaskRec] /\ rqueue \in Seq(STasks)
      /\ thr' = [thr EXCEPT ![i].pc = "kick"] /\ global_tasks_mask \subseteq SThreads
  BY DEF SInv, SchedTypes, Insert, At
<1>2. PICK t \in STasks : Holds(i, t)
  BY <1>1 DEF SInv, Locals, LocalsAt
<1>3. thr[i].wt[1] = t /\ thr[i].wt = <<t>> /\ Inserting(i, t) /\ TaskInv(t) /\ LocalsAt(i)
  BY <1>1, <1>2, Slot DEF Holds, Inserting, SInv, Tasks, Locals
<1>4. /\ rqueue' = Append(rqueue, t)
      /\ SMask[t] = {i} \/ ~atleast2(SThreads) => UNCHANGED <<task, global_tasks_mask>>
      /\ ~(SMask[t] = {i} \/ ~atleast2(SThreads)) =>
           /\ global_tasks_mask' = global_tasks_mask \cup SMask[t]
           /\ task' = [task EXCEPT ![t].st = @ \cup {"GLOBAL"}]
  BY <1>3 DEF Insert
<1>5. /\ "QUEUED" \in task[t].st /\ "RUNNING" \notin task[t].st /\ "GLOBAL" \notin task[t].st
      /\ ~task_in_rq(t)
      /\ \A j \in SThreads : ~InList(j, t) /\ ~Handles(j, t) /\ (Inserting(j, t) => j = i)
  BY <1>3 DEF TaskInv, PlacesOf
<1>6. /\ rqueue' \in Seq(STasks) /\ Distinct(rqueue')
      /\ \A u : task_in_rq(u)' <=> task_in_rq(u) \/ u = t
      /\ \A j, u : InList(j, u)' <=> InList(j, u)
  <2>1. /\ Append(rqueue, t) \in Seq(STasks) /\ Distinct(Append(rqueue, t))
        /\ \A u : In(Append(rqueue, t), u) <=> In(rqueue, u) \/ u = t
    BY <1>1, <1>5, AppendIn, InEach DEF SInv, Lists
  <2>2. \A u : task_in_rq(u)' <=> In(rqueue', u)
    BY DEF task_in_rq, some_queued, In
  <2>3. \A j, u : InList(j, u)' <=> InList(j, u)
    BY <1>1 DEF InList
  <2> QED
    BY <1>4, <2>1, <2>2, <2>3, InEach
<1>7. /\ task' \in [STasks -> TaskRec] /\ \A u \in STasks \ {t} : task'[u] = task[u]
      /\ task'[t].life = task[t].life /\ task'[t].expire = task[t].expire /\ task'[t].wq = task[t].wq
      /\ \A f \in {"QUEUED", "RUNNING"} : f \in task'[t].st <=> f \in task[t].st
      /\ global_tasks_mask' \subseteq SThreads /\ global_tasks_mask \subseteq global_tasks_mask'
      /\ IF "GLOBAL" \in task'[t].st THEN SMask[t] \subseteq global_tasks_mask'
                                     ELSE \E j \in SThreads : SMask[t] = {j}
  <2>1. CASE SMask[t] = {i} \/ ~atleast2(SThreads)
    <3>1. \E j \in SThreads : SMask[t] = {j}
      <4>1. CASE SMask[t] = {i}
        BY <4>1
      <4>2. CASE ~atleast2(SThreads)
        BY <4>2, Alone
      <4> QED
        BY <2>1, <4>1, <4>2
    <3> QED
      BY <1>1, <1>4, <1>5, <2>1, <3>1, Zenon
  <2>2. CASE ~(SMask[t] = {i} \/ ~atleast2(SThreads))
    <3> DEFINE r == [task[t] EXCEPT !.st = @ \cup {"GLOBAL"}]
    <3>1. task' = [task EXCEPT ![t] = r]
      BY <1>4, <2>2
    <3>2. /\ r \in TaskRec /\ r.life = task[t].life /\ r.expire = task[t].expire /\ r.wq = task[t].wq
          /\ r.st = task[t].st \cup {"GLOBAL"}
      BY <1>1, Zenon DEF TaskRec, TaskFlags
    <3> HIDE DEF r
    <3>3. task' \in [STasks -> TaskRec] /\ task'[t] = r /\ \A u \in STasks \ {t} : task'[u] = task[u]
      BY <1>1, <3>1, <3>2
    <3> QED
      BY <1>1, <1>4, <2>2, <3>2, <3>3, SchedAssumption
  <2> QED
    BY <2>1, <2>2
<1>8. ThrTo(i, "kick", thr[i].cur, <<t>>, thr[i].back, thr[i].now, thr[i].until)
  BY <1>1, <1>3, ThrPc, Zenon DEF Pcs
<1>9. /\ \A x : Handles(i, x)' <=> Handles(i, x)
      /\ \A x : (Inserting(i, x) <=> x = t) /\ ~Inserting(i, x)'
      /\ \A x : ~Returning(i, x) /\ ~Returning(i, x)'
      /\ \A x : KicksFor(i, x)' <=> x = t
  <2>1. \A x : (Inserting(i, x) <=> x = t) /\ ~Returning(i, x)
    BY <1>1, <1>2, Slot DEF Inserting, Returning, Holds
  <2> QED
    <3>1. SeenAs(i, "kick", thr[i].cur, <<t>>)
      BY <1>8, Seen, Zenon
    <3> QED
      BY <2>1, <3>1, Slot, Zenon DEF SeenAs
<1>10. SchedTypes'
  BY <1>1, <1>6, <1>7, <1>8 DEF SInv, SchedTypes, ThrTo, sleep
<1>11. Locals'
  <2>1. Holds(i, t)'
    BY <1>9 DEF KicksFor
  <2>2. LocalsAt(i)'
    BY <1>1, <1>3, <1>8, <1>9, <2>1 DEF LocalsAt, ThrTo
  <2> QED
    BY <1>1, <1>8, <2>2, LocalsStep DEF SInv
<1>12. Tasks'
  <2> SUFFICES ASSUME NEW u \in STasks PROVE TaskInv(u)'
    BY DEF Tasks
  <2>1. CASE u # t
    <3>1. TaskKept(i, u)
      BY <1>6, <1>7, <1>9, <2>1 DEF TaskKept
    <3> QED
      BY <1>8, <3>1, TaskFrame DEF SInv, Tasks
  <2>2. CASE u = t
    <3>1. \A j \in SThreads : /\ ~Inserting(j, t)'
                              /\ Handles(j, t)' <=> Handles(j, t)
                              /\ Returning(j, t)' <=> Returning(j, t)
                              /\ Returning(j, t)' => thr'[j] = thr[j]
      <4>1. SeenAs(i, "kick", thr[i].cur, <<t>>) /\ \A j \in SThreads \ {i} : thr'[j] = thr[j]
        BY <1>8, Seen, ZenonT(30)
      <4> QED
        BY <1>5, <1>9, <4>1, Zenon DEF SeenAs
    <3>2. PlacesOf(t)'
      BY <1>3, <1>5, <1>6, <1>7, <3>1, SMTT(30) DEF TaskInv, PlacesOf
    <3>3. Alive(t)' /\ Armed(t)'
      BY <1>3, <1>5, <1>7, <3>1 DEF TaskInv, Alive, Armed
    <3>4. Dated(t) => Dated(t)'
      BY <1>7, <3>1 DEF Dated
    <3> QED
      BY <1>3, <2>2, <3>2, <3>3, <3>4 DEF TaskInv, Shared
  <2> QED
    BY <2>1, <2>2
<1>13. TimerWatched'
  <2>1. ~Asleep(i)'
    BY <1>8 DEF Asleep, At, ThrTo
  <2>2. \A u \in STasks : task'[u].wq = task[u].wq
    BY <1>7
  <2> QED
    BY <1>1, <1>8, <2>1, <2>2, TimersStep DEF SInv, sleep
<1>14. Lists'
  BY <1>1, <1>6 DEF SInv, Lists
<1>15. Masks'
  BY <1>6, <1>7 DEF SInv, Masks, Masked
<1>16. Watched'
  <2>1. \A j \in SThreads : (Alert(j) => Alert(j)') /\ Ready(j)'
    BY <1>1, <1>8 DEF SInv, Watched, Alert, Ready, ThrTo, sleep
  <2>2. Kicking(t)' /\ \A x : Kicking(x) => Kicking(x)'
    <3>0. SeenAs(i, "kick", thr[i].cur, <<t>>)
      BY <1>8, Seen, Zenon
    <3>1. \A x : ~KicksFor(i, x)
      BY <1>1 DEF KicksFor
    <3>2. Kicking(t)'
      BY <1>9, Zenon DEF Kicking
    <3>3. ASSUME NEW x, NEW j \in SThreads, KicksFor(j, x) PROVE KicksFor(j, x)'
      <4>1. j # i
        BY <3>1, <3>3, Zenon
      <4> QED
        BY <3>0, <3>3, <4>1, Zenon DEF SeenAs
    <3> QED
      BY <3>2, <3>3, Zenon DEF Kicking
  <2> QED
    BY <1>1, <1>6, <2>1, <2>2, SchedAssumption, Zenon DEF SInv, Watched
<1> QED
  BY <1>10, <1>11, <1>12, <1>13, <1>14, <1>15, <1>16 DEF SInv

\* A thread that finds no task for it in the global queue leaves its mask.
LEMMA PickNoneKeeps ==
  ASSUME SInv, NEW i \in SThreads, PickNone(i)
  PROVE  SInv'
<1>1. /\ UNCHANGED <<task, tasklet, rqueue, tasklist, sleep, thr, clock, calls>>
      /\ global_tasks_mask' = global_tasks_mask \ {i} /\ ~some_queued(global_of(i))
      /\ thr[i].pc = "fill" /\ thr \in [SThreads -> ThrRec]
  BY DEF SInv, SchedTypes, PickNone, At
<1>2. ThrTo(i, "fill", thr[i].cur, thr[i].wt, thr[i].back, thr[i].now, thr[i].until)
  BY <1>1, ThrSame
<1>3. SchedTypes'
  BY <1>1 DEF SInv, SchedTypes, sleep
<1>4. Locals'
  BY <1>1 DEF SInv, Locals, LocalsAt, Handles, Holds
<1>5. Tasks'
  <2> SUFFICES ASSUME NEW t \in STasks PROVE TaskInv(t)'
    BY DEF Tasks
  <2>1. TaskKept(i, t)
    BY <1>1, InQueues DEF TaskKept, QueuesKept, Inserting, Handles, Returning, Holds
  <2> QED
    BY <1>2, <2>1, TaskFrame DEF SInv, Tasks
<1>6. TimerWatched'
  <2>1. ~Asleep(i)'
    BY <1>1 DEF Asleep, At
  <2> QED
    BY <1>1, <1>2, <2>1, TimersStep DEF SInv, sleep
<1>7. Lists'
  BY <1>1, ListsFrame DEF SInv, QueuesKept
<1>8. Masks'
  <2> SUFFICES ASSUME NEW t \in STasks, task_in_rq(t)' PROVE Masked(t)'
    BY DEF Masks, Masked
  <2>1. Masked(t) /\ task_in_rq(t)
    BY <1>1 DEF SInv, Masks, task_in_rq, some_queued
  <2>2. "GLOBAL" \in task[t].st => i \notin SMask[t]
    BY <1>1, <2>1 DEF some_queued, global_of, task_in_rq
  <2> QED
    BY <1>1, <2>1, <2>2 DEF Masked
<1>9. Watched'
  BY <1>1, <1>2, WatchedFrame DEF SInv
<1> QED
  BY <1>3, <1>4, <1>5, <1>6, <1>7, <1>8, <1>9 DEF SInv

\* A task moves from a run queue to the list of a thread, which leaves the mask of the global
\* queue unless another task there is for it.
LEMMA PickKeeps ==
  ASSUME SInv, NEW i \in SThreads, Pick(i)
  PROVE  SInv'
<1>1. /\ UNCHANGED <<tasklet, sleep, thr, clock, calls>>
      /\ thr[i].pc = "fill" /\ thr \in [SThreads -> ThrRec] /\ task \in [STasks -> TaskRec]
      /\ rqueue \in Seq(STasks) /\ tasklist \in [SThreads -> Seq(STasks)]
      /\ global_tasks_mask \subseteq SThreads
  BY DEF SInv, SchedTypes, Pick, At
<1>2. PICK n, t :
        /\ n \in DOMAIN rqueue /\ t = rqueue[n] /\ t \in local_of(i) \cup global_of(i)
        /\ rqueue' = task_unlink_rq(rqueue, n)
        /\ global_tasks_mask' = IF t \in global_of(i) THEN mask_after(i, t) ELSE global_tasks_mask
        /\ task' = [task EXCEPT ![t].st = @ \ {"GLOBAL"}]
        /\ tasklist' = [tasklist EXCEPT ![i] = Append(tasklist[i], t)]
  BY Zenon DEF Pick
<1>3. t \in STasks /\ i \in SMask[t] /\ task_in_rq(t)
  BY <1>2 DEF local_of, global_of, task_in_rq, some_queued
<1>4. TaskInv(t) /\ LocalsAt(i) /\ Distinct(rqueue) /\ \A j \in SThreads : Distinct(tasklist[j])
  BY <1>3 DEF SInv, Tasks, Locals, Lists
<1>5. /\ "QUEUED" \in task[t].st /\ "RUNNING" \notin task[t].st
      /\ \A j \in SThreads : ~InList(j, t) /\ ~Inserting(j, t) /\ ~Handles(j, t)
  BY <1>3, <1>4 DEF TaskInv, PlacesOf
<1>6. /\ rqueue' \in Seq(STasks) /\ Distinct(rqueue')
      /\ \A u : task_in_rq(u)' <=> task_in_rq(u) /\ u # t
  <2>1. /\ task_unlink_rq(rqueue, n) \in Seq(STasks) /\ Distinct(task_unlink_rq(rqueue, n))
        /\ \A u : In(task_unlink_rq(rqueue, n), u) <=> In(rqueue, u) /\ u # t
    BY <1>1, <1>2, <1>4, RemoveIn
  <2>2. \A u : task_in_rq(u)' <=> In(rqueue', u)
    BY DEF task_in_rq, some_queued, In
  <2> QED
    BY <1>2, <2>1, <2>2, InEach
<1>7. /\ tasklist' \in [SThreads -> Seq(STasks)] /\ \A j \in SThreads : Distinct(tasklist'[j])
      /\ \A j \in SThreads : \A u : InList(j, u)' <=> InList(j, u) \/ (j = i /\ u = t)
      /\ \A j \in SThreads \ {i} : tasklist'[j] = tasklist[j]
  <2>1. tasklist[i] \in Seq(STasks) /\ ~In(tasklist[i], t)
    BY <1>1, <1>5, InEach
  <2> DEFINE a == Append(tasklist[i], t)
  <2>2. /\ a \in Seq(STasks) /\ Distinct(a)
        /\ \A u : In(a, u) <=> In(tasklist[i], u) \/ u = t
    BY <1>3, <1>4, <2>1, AppendIn
  <2> HIDE DEF a
  <2>3. /\ tasklist' \in [SThreads -> Seq(STasks)] /\ tasklist'[i] = a
        /\ \A j \in SThreads \ {i} : tasklist'[j] = tasklist[j]
    BY <1>1, <1>2, <2>2 DEF a
  <2>4. \A j, u : InList(j, u)' <=> In(tasklist'[j], u)
    BY DEF InList, In
  <2> QED
    BY <1>4, <2>2, <2>3, <2>4, InEach
<1>8. /\ task' \in [STasks -> TaskRec] /\ \A u \in STasks \ {t} : task'[u] = task[u]
      /\ task'[t].life = task[t].life /\ task'[t].expire = task[t].expire /\ task'[t].wq = task[t].wq
      /\ \A f \in {"QUEUED", "RUNNING"} : f \in task'[t].st <=> f \in task[t].st
      /\ "GLOBAL" \notin task'[t].st
  <2> DEFINE r == [task[t] EXCEPT !.st = @ \ {"GLOBAL"}]
  <2>1. task' = [task EXCEPT ![t] = r]
    BY <1>2
  <2>2. /\ r \in TaskRec /\ r.life = task[t].life /\ r.expire = task[t].expire /\ r.wq = task[t].wq
        /\ r.st = task[t].st \ {"GLOBAL"}
    BY <1>1, <1>3, Zenon DEF TaskRec
  <2> HIDE DEF r
  <2>3. task' \in [STasks -> TaskRec] /\ task'[t] = r /\ \A u \in STasks \ {t} : task'[u] = task[u]
    BY <1>1, <1>3, <2>1, <2>2
  <2> QED
    BY <2>2, <2>3
<1>9. ThrTo(i, "fill", thr[i].cur, thr[i].wt, thr[i].back, thr[i].now, thr[i].until)
  BY <1>1, ThrSame
<1>10. \A j, x : /\ Inserting(j, x)' <=> Inserting(j, x)
                 /\ Handles(j, x)' <=> Handles(j, x)
                 /\ Returning(j, x)' <=> Returning(j, x)
  BY <1>1 DEF Inserting, Handles, Returning, Holds
<1>11. \/ global_tasks_mask' = global_tasks_mask
       \/ global_tasks_mask' = global_tasks_mask \ {i} /\ ~some_queued(global_of(i) \ {t})
  BY <1>2, ZenonT(30) DEF mask_after
<1>12. SchedTypes'
  BY <1>1, <1>6, <1>7, <1>8, <1>11, SMTT(30) DEF SInv, SchedTypes, sleep
<1>13. Locals'
  BY <1>1 DEF SInv, Locals, LocalsAt, Handles, Holds
<1>14. Tasks'
  <2> SUFFICES ASSUME NEW u \in STasks PROVE TaskInv(u)'
    BY DEF Tasks
  <2>1. CASE u # t
    <3>1. TaskKept(i, u)
      BY <1>1, <1>6, <1>7, <1>8, <1>10, <2>1 DEF TaskKept
    <3> QED
      BY <1>9, <3>1, TaskFrame DEF SInv, Tasks
  <2>2. CASE u = t
    <3>1. PlacesOf(t)'
      BY <1>3, <1>4, <1>5, <1>6, <1>7, <1>8, <1>10, Zenon DEF TaskInv, PlacesOf
    <3>2. Alive(t)' /\ Armed(t)'
      BY <1>4, <1>5, <1>8, <1>10, Zenon DEF TaskInv, Alive, Armed
    <3>3. Dated(t) => Dated(t)'
      BY <1>1, <1>8, <1>10, Zenon DEF Dated
    <3> QED
      BY <1>4, <2>2, <3>1, <3>2, <3>3 DEF TaskInv, Shared
  <2> QED
    BY <2>1, <2>2, SMTT(30)
<1>15. TimerWatched'
  <2>1. ~Asleep(i)'
    BY <1>1 DEF Asleep, At
  <2>2. \A u \in STasks : task'[u].wq = task[u].wq
    BY <1>8
  <2> QED
    BY <1>1, <1>9, <2>1, <2>2, TimersStep DEF SInv, sleep
<1>16. Lists'
  BY <1>6, <1>7 DEF Lists
<1>17. Masks'
  <2> SUFFICES ASSUME NEW u \in STasks, task_in_rq(u)' PROVE Masked(u)'
    BY DEF Masks, Masked
  <2>1. u # t /\ task_in_rq(u) /\ Masked(u) /\ task'[u] = task[u]
    BY <1>6, <1>8 DEF SInv, Masks
  <2>2. "GLOBAL" \in task[u].st /\ i \in SMask[u] => some_queued(global_of(i) \ {t})
    BY <2>1 DEF some_queued, global_of, task_in_rq
  <2> QED
    BY <1>11, <2>1, <2>2 DEF Masked
<1>18. Watched'
  <2>1. \A j \in SThreads : (Alert(j)' <=> Alert(j)) /\ Ready(j)'
    BY <1>1, <1>7 DEF SInv, Watched, Alert, Ready, sleep
  <2>2. \A x : Kicking(x)' <=> Kicking(x)
    BY <1>1 DEF Kicking, KicksFor, Holds
  <2> QED
    BY <1>1, <1>6, <2>1, <2>2, SchedAssumption, ZenonT(30) DEF SInv, Watched
<1> QED
  BY <1>12, <1>13, <1>14, <1>15, <1>16, <1>17, <1>18 DEF SInv

\* task_destroy(), on the thread of the task: a task that is queued is freed later.
LEMMA CallDestroyKeeps ==
  ASSUME SInv, NEW i \in SThreads, NEW t \in STasks, CallDestroy(i, t)
  PROVE  SInv'
<1> DEFINE r == destroyed(i, t)
           mine == thr[i].cur = <<t>>
           pc == IF mine THEN "list" ELSE "ret"
           cur == IF mine THEN Idle ELSE thr[i].cur
<1>1. /\ thr[i].pc = "act" /\ UNCHANGED <<tasklet, queues, sleep, clock, calls>>
      /\ thr \in [SThreads -> ThrRec] /\ task \in [STasks -> TaskRec] /\ task[t].life = "live"
      /\ t \in SDestroyed /\ (SMask[t] = {i} \/ Handles(i, t))
      /\ task' = [task EXCEPT ![t] = r] /\ thr' = [thr EXCEPT ![i].pc = pc, ![i].cur = cur]
  BY DEF SInv, SchedTypes, CallDestroy, At, Handles
<1>2. TaskInv(t) /\ LocalsAt(i)
  BY DEF SInv, Tasks, Locals
<1>3. SMask[t] = {i}
  BY <1>1, <1>2, SchedAssumption, SMTT(30) DEF TaskInv, PlacesOf
<1>4. /\ \A j \in SThreads : ~Returning(j, t)
      /\ \A j \in SThreads : Handles(j, t) => j = i
      /\ \A x : ~Inserting(i, x) /\ ~Returning(i, x)
  <2>1. \A x : ~Inserting(i, x) /\ ~Returning(i, x)
    BY <1>1 DEF Inserting, Returning
  <2> QED
    BY <1>2, <1>3, <2>1 DEF TaskInv, PlacesOf
<1>5. mine <=> Handles(i, t)
  BY DEF Handles
<1>6. /\ r \in TaskRec /\ r.wq = NotInWq /\ r.expire = task[t].expire
      /\ \/ r.life = "freed" /\ r.st = {} /\ (mine \/ task[t].st \cap {"QUEUED", "RUNNING"} = {})
         \/ r.life = "doomed" /\ r.st = task[t].st /\ ~mine /\ ~(task[t].st \cap {"QUEUED", "RUNNING"} = {})
  <2>1. /\ task[t] \in TaskRec /\ -1 \in -1 .. MaxClock + 1
        /\ {} \in SUBSET TaskFlags /\ {"freed", "doomed"} \subseteq LifeSet
    BY <1>1, SchedAssumption DEF LifeSet
  <2>2. CASE mine \/ task[t].st \cap {"QUEUED", "RUNNING"} = {}
    <3>1. r = [task[t] EXCEPT !.wq = NotInWq, !.life = "freed", !.st = {}]
      BY <2>2 DEF destroyed
    <3> HIDE DEF r, mine
    <3> QED
      BY <2>1, <2>2, <3>1, Zenon DEF TaskRec, NotInWq
  <2>3. CASE ~(mine \/ task[t].st \cap {"QUEUED", "RUNNING"} = {})
    <3>1. r = [task[t] EXCEPT !.wq = NotInWq, !.life = "doomed"]
      BY <2>3 DEF destroyed
    <3> HIDE DEF r, mine
    <3> QED
      BY <2>1, <2>3, <3>1, Zenon DEF TaskRec, NotInWq
  <2> QED
    BY <2>2, <2>3
<1>7. pc \in Pcs /\ pc \in {"list", "ret"} /\ cur \in Slots
  BY <1>1, Slot DEF Pcs, ThrRec
<1>8. /\ mine => pc = "list" /\ cur = Idle
      /\ ~mine => pc = "ret" /\ cur = thr[i].cur
  OBVIOUS
<1> HIDE DEF r, mine, pc, cur
<1>9. ThrTo(i, pc, cur, thr[i].wt, thr[i].back, thr[i].now, thr[i].until)
  BY <1>1, <1>7, ThrCur, Zenon
<1>10. task' \in [STasks -> TaskRec] /\ task'[t] = r /\ \A u \in STasks \ {t} : task'[u] = task[u]
  BY <1>1, <1>6
<1>11. /\ \A x : ~Inserting(i, x)' /\ ~Returning(i, x)'
       /\ \A x : Handles(i, x)' <=> Handles(i, x) /\ x # t
  <2>0. SeenAs(i, pc, cur, thr[i].wt)
    BY <1>9, Seen, ZenonT(30)
  <2>1. \A x : ~Inserting(i, x)' /\ ~Returning(i, x)'
    BY <1>7, <2>0 DEF SeenAs
  <2>2. CASE mine
    <3>1. \A x : Handles(i, x) <=> x = t
      BY <1>5, <2>2, Slot DEF Handles
    <3> QED
      BY <1>8, <2>0, <2>1, <2>2, <3>1, Slot, Zenon DEF SeenAs
  <2>3. CASE ~mine
    BY <1>5, <1>8, <2>0, <2>1, <2>3, Zenon DEF SeenAs
  <2> QED
    BY <2>2, <2>3
<1>12. SchedTypes'
  BY <1>1, <1>9, <1>10 DEF SInv, SchedTypes, ThrTo, queues, sleep
<1>13. Locals'
  <2>1. LocalsAt(i)'
    <3>1. CASE mine
      <4>1. \A x : ~Handles(i, x)'
        <5>1. SeenAs(i, pc, cur, thr[i].wt)
          BY <1>9, Seen, Zenon
        <5> QED
          BY <1>8, <3>1, <5>1, Slot, Zenon DEF SeenAs
      <4> QED
        BY <1>1, <1>2, <1>8, <1>9, <3>1, <4>1 DEF LocalsAt, ThrTo
    <3>2. CASE ~mine
      <4>1. \A x : Handles(i, x)' <=> Handles(i, x)
        <5>1. SeenAs(i, pc, cur, thr[i].wt)
          BY <1>9, Seen, Zenon
        <5> QED
          BY <1>8, <3>2, <5>1, Zenon DEF SeenAs
      <4> QED
        BY <1>1, <1>2, <1>8, <1>9, <3>2, <4>1 DEF LocalsAt, ThrTo
    <3> QED
      BY <3>1, <3>2
  <2> QED
    BY <1>1, <1>9, <2>1, LocalsStep DEF SInv
<1>14. Tasks'
  <2> SUFFICES ASSUME NEW u \in STasks PROVE TaskInv(u)'
    BY DEF Tasks
  <2>1. CASE u # t
    <3>1. TaskKept(i, u)
      BY <1>1, <1>4, <1>10, <1>11, <2>1, InQueues DEF TaskKept, QueuesKept, queues
    <3> QED
      BY <1>9, <3>1, TaskFrame DEF SInv, Tasks
  <2>2. CASE u = t
    <3>1. \A j \in SThreads : /\ Inserting(j, t)' <=> Inserting(j, t)
                              /\ ~Handles(j, t)' /\ ~Returning(j, t)'
      <4>1. SeenAs(i, pc, cur, thr[i].wt)
        BY <1>9, Seen, Zenon
      <4> QED
        BY <1>4, <1>11, <4>1, Zenon DEF SeenAs
    <3>2. \A j \in SThreads : InList(j, t)' <=> InList(j, t)
      BY <1>1, InQueues DEF QueuesKept, queues
    <3>3. task_in_rq(t)' <=> task_in_rq(t)
      BY <1>1, InQueues DEF QueuesKept, queues
    <3>4. CASE r.st = {}
      <4>1. "QUEUED" \notin task[t].st
        BY <1>2, <1>5, <1>6, <3>4 DEF TaskInv, PlacesOf
      <4> QED
        <5>1. PlacesOf(t)'
          BY <1>2, <1>6, <1>10, <3>1, <3>2, <3>3, <3>4, <4>1, ZenonT(30) DEF TaskInv, PlacesOf
        <5>2. Alive(t)' /\ Armed(t)'
          BY <1>6, <1>10, <3>1, <3>4, <4>1, SMTT(30) DEF Alive, Armed
        <5>3. Dated(t)'
          BY <1>6, <1>10, <3>1, SMTT(30) DEF Dated, NotInWq, TICK_ETERNITY
        <5> QED
          BY <2>2, <5>1, <5>2, <5>3, Zenon DEF TaskInv
    <3>5. CASE r.st # {}
      <4>1. "QUEUED" \in task[t].st /\ "RUNNING" \notin task[t].st /\ r.st = task[t].st /\ r.life = "doomed"
        BY <1>2, <1>4, <1>5, <1>6, <3>5 DEF TaskInv, PlacesOf
      <4> QED
        <5>1. PlacesOf(t)'
          BY <1>2, <1>6, <1>10, <3>1, <3>2, <3>3, <4>1, ZenonT(30) DEF TaskInv, PlacesOf
        <5>2. Alive(t)' /\ Armed(t)'
          BY <1>6, <1>10, <3>1, <4>1, SMTT(30) DEF Alive, Armed
        <5>3. Dated(t)'
          BY <1>6, <1>10, <3>1 DEF Dated, NotInWq, TICK_ETERNITY
        <5> QED
          BY <2>2, <5>1, <5>2, <5>3, Zenon DEF TaskInv
    <3> QED
      BY <3>4, <3>5
  <2> QED
    BY <2>1, <2>2
<1>15. TimerWatched'
  <2>1. ~Asleep(i)'
    BY <1>7, <1>9 DEF Asleep, At, ThrTo
  <2>2. \A u \in STasks : task'[u].wq \in {task[u].wq, NotInWq}
    BY <1>6, <1>10
  <2> QED
    BY <1>1, <1>9, <2>1, <2>2, TimersStep DEF SInv, sleep
<1>16. Lists'
  BY <1>1, ListsFrame DEF SInv, queues, QueuesKept
<1>17. Masks'
  <2> SUFFICES ASSUME NEW u \in STasks, task_in_rq(u)' PROVE Masked(u)'
    BY DEF Masks, Masked
  <2>1. task_in_rq(u) /\ Masked(u)
    BY <1>1, InQueues DEF QueuesKept, queues, SInv, Masks
  <2>2. "GLOBAL" \in task'[u].st <=> "GLOBAL" \in task[u].st
    <3>1. CASE u # t
      BY <1>10, <3>1
    <3>2. CASE u = t
      <4>1. "QUEUED" \in task[t].st /\ "RUNNING" \notin task[t].st
        BY <1>2, <2>1, <3>2, SMTT(30) DEF TaskInv, PlacesOf
      <4>2. ~mine
        BY <1>2, <1>5, <4>1 DEF TaskInv, PlacesOf
      <4> QED
        BY <1>6, <1>10, <3>2, <4>1, <4>2, SMTT(30)
    <3> QED
      BY <3>1, <3>2
  <2> QED
    BY <1>1, <2>1, <2>2 DEF Masked, queues
<1>18. Watched'
  BY <1>1, <1>7, <1>9, WatchedFrame DEF SInv, queues
<1> QED
  BY <1>12, <1>13, <1>14, <1>15, <1>16, <1>17, <1>18 DEF SInv

\* The invariant holds when the process starts,
LEMMA SInvInit == SInit => SInv
<1> SUFFICES ASSUME SInit PROVE SInv
  OBVIOUS
<1> DEFINE r == [st |-> {}, expire |-> TICK_ETERNITY, wq |-> NotInWq, life |-> "live"]
           h == [pc |-> "events", cur |-> Idle, wt |-> Idle, back |-> "none",
                 now |-> 1, until |-> TICK_ETERNITY]
<1>1. /\ task = [t \in STasks |-> r] /\ thr = [i \in SThreads |-> h]
      /\ tasklet = [k \in STasklets |-> "no"] /\ tasklist = [i \in SThreads |-> <<>>]
      /\ rqueue = <<>> /\ clock = 1 /\ calls = 0
      /\ global_tasks_mask = {} /\ sleeping_thread_mask = {} /\ wakepipe = {}
  BY DEF SInit
<1>2. /\ r \in TaskRec /\ r.st = {} /\ r.wq = NotInWq /\ r.expire = TICK_ETERNITY /\ r.life = "live"
  BY SchedAssumption DEF TaskRec, LifeSet, NotInWq, TICK_ETERNITY
<1>3. /\ h \in ThrRec /\ h.pc = "events" /\ h.cur = Idle /\ h.wt = Idle /\ h.now = 1
  <2>1. "events" \in Pcs /\ Idle \in Slots
    BY DEF Pcs, Slots
  <2> QED
    BY <2>1, SchedAssumption DEF ThrRec, TICK_ETERNITY
<1> HIDE DEF r, h
<1>4. /\ \A t \in STasks : task[t] = r
      /\ \A i \in SThreads : thr[i] = h /\ tasklist[i] = <<>>
      /\ \A k \in STasklets : tasklet[k] = "no"
  BY <1>1
<1>5. /\ \A i \in SThreads : \A x : /\ ~Handles(i, x) /\ ~Inserting(i, x)
                                    /\ ~Returning(i, x) /\ ~InList(i, x)
      /\ \A x : ~task_in_rq(x)
  <2>1. \A i \in SThreads : \A x : ~Handles(i, x) /\ ~Inserting(i, x) /\ ~Returning(i, x)
    BY <1>3, <1>4, Slot, Zenon DEF Handles, Inserting, Returning
  <2>2. \A i \in SThreads : \A x : ~InList(i, x)
    BY <1>4 DEF InList
  <2>3. \A x : ~task_in_rq(x)
    BY <1>1 DEF task_in_rq, some_queued
  <2> QED
    BY <2>1, <2>2, <2>3
<1>6. SchedTypes
  BY <1>1, <1>2, <1>3, SchedAssumption, SMTT(30) DEF SchedTypes
<1>7. Locals
  <2> SUFFICES ASSUME NEW i \in SThreads PROVE LocalsAt(i)
    BY DEF Locals
  <2>1. thr[i].now <= clock
    BY <1>1, <1>3, <1>4
  <2> QED
    BY <1>3, <1>4, <1>5, <2>1 DEF LocalsAt
<1>8. Tasks
  <2> SUFFICES ASSUME NEW t \in STasks PROVE TaskInv(t)
    BY DEF Tasks
  <2>1. PlacesOf(t)
    BY <1>2, <1>4, <1>5, SMTT(30) DEF PlacesOf
  <2>2. Alive(t)
    BY <1>2, <1>4, <1>5 DEF Alive
  <2>3. Armed(t)
    BY <1>2, <1>4, SMTT(30) DEF Armed, tick_isset
  <2>4. Dated(t)
    BY <1>2, <1>4, <1>5, SMTT(30) DEF Dated, NotInWq, TICK_ETERNITY
  <2> QED
    BY <2>1, <2>2, <2>3, <2>4, SMTT(30) DEF TaskInv
<1>9. TimerWatched
  BY <1>2, <1>4 DEF TimerWatched, watches, NotInWq
<1>10. Lists /\ Masks
  BY <1>1, <1>4, <1>5, SMTT(30) DEF Lists, Distinct, Masks, Masked
<1>11. Watched
  BY <1>1, <1>3, <1>4, <1>5 DEF Watched, Ready, Alert
<1> QED
  BY <1>6, <1>7, <1>8, <1>9, <1>10, <1>11 DEF SInv

\* and implies the three properties.
LEMMA InvLostNone == SInv => NoLostWakeup
<1> SUFFICES ASSUME SInv PROVE NoLostWakeup
  BY SMTT(30)
<1>1. \A i \in SThreads : Alert(i) => ~Asleep(i)
  <2> SUFFICES ASSUME NEW i \in SThreads, Alert(i), Asleep(i) PROVE FALSE
    OBVIOUS
  <2>1. /\ thr[i].pc = "poll" /\ thr[i].until = thr[i].now
        /\ ~tick_is_expired(thr[i].until, clock)
    BY DEF Alert, Asleep, At, PollEnds
  <2>2. thr[i].now \in 1 .. MaxClock /\ thr[i].now <= clock /\ clock \in 1 .. MaxClock
    BY DEF SInv, SchedTypes, ThrRec, Locals, LocalsAt
  <2> QED
    BY <2>1, <2>2, SchedAssumption DEF tick_is_expired, tick_isset, TICK_ETERNITY
<1>2. \A t \in STasks : task_in_rq(t) =>
        /\ "GLOBAL" \in task[t].st => SMask[t] \subseteq global_tasks_mask
        /\ \/ \E i \in SMask[t] : ~Asleep(i)
           \/ \E i \in SThreads : At(i, "kick") /\ thr[i].wt = <<t>>
  BY <1>1, SchedAssumption, Zenon DEF SInv, Masks, Masked, Watched, Kicking, KicksFor, Holds, At
<1>3. \A n \in DOMAIN rqueue : rqueue[n] \in STasks /\ task_in_rq(rqueue[n])
  BY DEF SInv, SchedTypes, task_in_rq, some_queued
<1>4. \A k \in STasklets : tasklet[k] # "no" =>
        \/ ~Asleep(STid[k])
        \/ \E i \in SThreads : At(i, "kick") /\ thr[i].wt = <<k>>
  BY <1>1, SchedAssumption, Zenon DEF SInv, Watched, Kicking, KicksFor, Holds, At
<1>5. \A i \in SThreads : Asleep(i) => tasklist[i] = <<>>
  <2> SUFFICES ASSUME NEW i \in SThreads, Asleep(i), tasklist[i] # <<>> PROVE FALSE
    OBVIOUS
  <2>1. thr[i].pc = "poll" /\ thr[i].until = thr[i].now
    BY DEF SInv, Watched, Ready, Asleep, At
  <2> QED
    BY <1>1, <2>1 DEF Alert
<1>6. \A i \in sleeping_thread_mask : thr[i].pc \in {"look", "timers", "poll"}
  BY DEF SInv, SchedTypes, Watched, Ready
<1> QED
  BY <1>2, <1>3, <1>4, <1>5, <1>6, Zenon DEF NoLostWakeup

LEMMA InvPlaced == SInv => TasksPlaced
<1> SUFFICES ASSUME SInv PROVE TasksPlaced
  OBVIOUS
<1>1. SchedTypeOK
  <2>1. \A t \in STasks : /\ task[t].st \subseteq {"RUNNING", "QUEUED", "GLOBAL", "WOKEN"}
                          /\ task[t].expire \in 0 .. MaxClock + 1
                          /\ task[t].wq \in -1 .. MaxClock + 1
                          /\ task[t].life \in {"live", "doomed", "freed"}
    BY DEF SInv, SchedTypes, TaskRec, TaskFlags, LifeSet
  <2>2. \A i \in SThreads : thr[i].pc \in Pcs
    BY DEF SInv, SchedTypes, ThrRec
  <2> QED
    BY <2>1, <2>2 DEF SInv, SchedTypes, SchedTypeOK
<1>2. FreedForgotten
  BY DEF SInv, Tasks, TaskInv, Alive, FreedForgotten, Returning, Holds
<1>3. OnePlace
  <2> SUFFICES ASSUME NEW t \in STasks
               PROVE  /\ \A p, q \in places(t) : p = q
                      /\ places(t) # {} <=> task[t].st \cap {"QUEUED", "RUNNING"} # {}
                      /\ "GLOBAL" \in task[t].st => task_in_rq(t)
                      /\ "RUNNING" \in task[t].st <=> \E i \in SThreads : thr[i].cur = <<t>>
                      /\ task[t].life = "doomed" => "QUEUED" \in task[t].st
                      /\ task[t].life = "freed" => places(t) = {}
    BY DEF OnePlace
  <2>1. PlacesOf(t) /\ Alive(t)
    BY DEF SInv, Tasks, TaskInv
  <2>2. Distinct(rqueue) /\ \A i \in SThreads : Distinct(tasklist[i])
    BY DEF SInv, Lists
  <2>3. \A p : p \in places(t) <=>
          \/ \E n \in DOMAIN rqueue : rqueue[n] = t /\ p = <<"queue", 0, n>>
          \/ \E i \in SThreads : \E n \in DOMAIN tasklist[i] : tasklist[i][n] = t /\ p = <<"list", i, n>>
          \/ \E i \in SThreads : Inserting(i, t) /\ p = <<"insert", i, 0>>
          \/ \E i \in SThreads : Handles(i, t) /\ p = <<"run", i, 0>>
    <3> DEFINE A == {<<"queue", 0, n>> : n \in {n \in DOMAIN rqueue : rqueue[n] = t}}
               L(i) == {<<"list", i, n>> : n \in {n \in DOMAIN tasklist[i] : tasklist[i][n] = t}}
               B == UNION {L(i) : i \in SThreads}
               C == {<<"insert", i, 0>> : i \in {j \in SThreads : At(j, "insert") /\ thr[j].wt = <<t>>}}
               D == {<<"run", i, 0>> : i \in {j \in SThreads : thr[j].cur = <<t>>}}
    <3>1. places(t) = A \cup B \cup C \cup D
      BY DEF places
    <3>2. \A p : p \in A <=> \E n \in DOMAIN rqueue : rqueue[n] = t /\ p = <<"queue", 0, n>>
      OBVIOUS
    <3>3. \A p : p \in B <=> \E i \in SThreads : \E n \in DOMAIN tasklist[i] :
                                  tasklist[i][n] = t /\ p = <<"list", i, n>>
      <4>1. \A p : p \in B <=> \E i \in SThreads : p \in L(i)
        BY Zenon
      <4>2. \A i, p : p \in L(i) <=> \E n \in DOMAIN tasklist[i] : tasklist[i][n] = t /\ p = <<"list", i, n>>
        OBVIOUS
      <4> HIDE DEF B, L
      <4> QED
        BY <4>1, <4>2, ZenonT(30)
    <3>4. \A p : p \in C <=> \E i \in SThreads : Inserting(i, t) /\ p = <<"insert", i, 0>>
      BY DEF At, Inserting, Holds
    <3>5. \A p : p \in D <=> \E i \in SThreads : Handles(i, t) /\ p = <<"run", i, 0>>
      BY DEF Handles
    <3> HIDE DEF A, B, C, D
    <3>6. \A p : p \in places(t) <=> p \in A \/ p \in B \/ p \in C \/ p \in D
      BY <3>1
    <3> QED
      BY <3>2, <3>3, <3>4, <3>5, <3>6
  <2>4. places(t) # {} <=> task_in_rq(t) \/ \E i \in SThreads : InList(i, t) \/ Inserting(i, t) \/ Handles(i, t)
    <3>1. places(t) # {} <=> \E p : p \in places(t)
      OBVIOUS
    <3>2. task_in_rq(t) <=> \E n \in DOMAIN rqueue : rqueue[n] = t
      BY DEF task_in_rq, some_queued
    <3>3. \A i \in SThreads : InList(i, t) <=> \E n \in DOMAIN tasklist[i] : tasklist[i][n] = t
      BY SMTT(30) DEF InList
    <3> QED
      BY <2>3, <3>1, <3>2, <3>3, Zenon
  <2>5. places(t) # {} <=> "QUEUED" \in task[t].st \/ "RUNNING" \in task[t].st
    BY <2>1, <2>4 DEF PlacesOf
  <2>6. ASSUME NEW p \in places(t), NEW q \in places(t) PROVE p = q
    <3>1. CASE task_in_rq(t)
      <4>1. \A i \in SThreads : ~InList(i, t) /\ ~Inserting(i, t) /\ ~Handles(i, t)
        BY <2>1, <3>1 DEF PlacesOf
      <4>2. \A r \in places(t) : \E n \in DOMAIN rqueue : rqueue[n] = t /\ r = <<"queue", 0, n>>
        BY <2>3, <4>1 DEF InList
      <4> QED
        BY <2>2, <4>2, SMTT(30) DEF Distinct
    <3>2. ASSUME NEW i \in SThreads, InList(i, t) PROVE p = q
      <4>1. ~task_in_rq(t) /\ \A j \in SThreads : (InList(j, t) => j = i) /\ ~Inserting(j, t) /\ ~Handles(j, t)
        BY <2>1, <3>2 DEF PlacesOf
      <4>2. \A r \in places(t) : \E n \in DOMAIN tasklist[i] : tasklist[i][n] = t /\ r = <<"list", i, n>>
        BY <2>3, <4>1 DEF InList, task_in_rq, some_queued
      <4> QED
        BY <2>2, <4>2, SMTT(30) DEF Distinct
    <3>3. ASSUME NEW i \in SThreads, Inserting(i, t) PROVE p = q
      <4>1. /\ ~task_in_rq(t)
            /\ \A j \in SThreads : ~InList(j, t) /\ (Inserting(j, t) => j = i) /\ ~Handles(j, t)
        BY <2>1, <3>3 DEF PlacesOf
      <4>2. \A r \in places(t) : r = <<"insert", i, 0>>
        BY <2>3, <4>1 DEF InList, task_in_rq, some_queued
      <4> QED
        BY <4>2, SMTT(30)
    <3>4. ASSUME NEW i \in SThreads, Handles(i, t) PROVE p = q
      <4>1. /\ ~task_in_rq(t)
            /\ \A j \in SThreads : ~InList(j, t) /\ ~Inserting(j, t) /\ (Handles(j, t) => j = i)
        BY <2>1, <3>4 DEF PlacesOf
      <4>2. \A r \in places(t) : r = <<"run", i, 0>>
        BY <2>3, <4>1, SMTT(30) DEF InList, task_in_rq, some_queued
      <4> QED
        BY <4>2, SMTT(30)
    <3> QED
      BY <2>4, <3>1, <3>2, <3>3, <3>4
  <2>7. "RUNNING" \in task[t].st <=> \E i \in SThreads : thr[i].cur = <<t>>
    BY <2>1 DEF PlacesOf, Handles
  <2> QED
    BY <2>1, <2>5, <2>6, <2>7, ZenonT(30) DEF PlacesOf, Alive
<1> QED
  BY <1>1, <1>2, <1>3 DEF TasksPlaced

LEMMA InvTimers == SInv => TimersKept
<1> SUFFICES ASSUME SInv PROVE TimersKept
  OBVIOUS
<1>1. TimerArmed
  BY SMTT(30) DEF SInv, Tasks, TaskInv, Armed, TimerArmed, Returning, Holds
<1> QED
  BY <1>1 DEF SInv, TimersKept

-----------------------------------------------------------------------------
\* The two steps which take the smallest of a set need that it has one, for which the library
\* is instantiated here and not above: the provers are slower with it.
INSTANCE WellFoundedInduction

\* The order of the naturals as a relation, for the library's theorem on well-founded ones.
LEMMA LessPairs == \A y, x \in Nat : y < x => <<y, x>> \in OpToRel(<, Nat)
<1> SUFFICES ASSUME NEW y \in Nat, NEW x \in Nat, y < x
             PROVE  <<y, x>> \in {ss \in Nat \X Nat : ss[1] < ss[2]}
  BY DEF OpToRel
<1> QED
  OBVIOUS

\* A set of naturals that is not empty has a smallest element, which Min returns.
LEMMA MinFound ==
  ASSUME NEW S \in SUBSET Nat, S # {}
  PROVE  Min(S) \in S /\ \A y \in S : Min(S) <= y
<1>1. PICK x \in S : \A y \in S : ~(<<y, x>> \in OpToRel(<, Nat))
  BY NatLessThanWellFounded, WFMin, Zenon
<1>2. \A y \in S : ~(y < x)
  BY <1>1, LessPairs, Zenon
<1>3. \A y \in S : x <= y
  BY <1>2
<1> QED
  BY <1>3, Zenon DEF Min

\* The caller of task_wakeup() or tasklet_wakeup() wakes up a thread, of those the work is
\* for, when all of them sleep; it need not when it is one of them.
LEMMA KickKeeps ==
  ASSUME SInv, NEW i \in SThreads, Kick(i)
  PROVE  SInv'
<1> DEFINE m == kicked(i) \ {i}
<1>1. /\ thr[i].pc = "kick" /\ UNCHANGED <<task, tasklet, queues, clock, calls>>
      /\ thr \in [SThreads -> ThrRec] /\ Goto(i, thr[i].back)
      /\ sleeping_thread_mask \subseteq SThreads /\ wakepipe \subseteq SThreads
  BY DEF SInv, SchedTypes, Kick, At
<1>2. LocalsAt(i) /\ Ready(i)
  BY DEF SInv, Locals, Watched
<1>3. thr[i].back \in Backs /\ thr[i].now <= clock
  BY <1>1, <1>2 DEF LocalsAt
<1>4. PICK x \in STasks \cup STasklets : Holds(i, x)
  BY <1>1, <1>2 DEF LocalsAt
<1>5. kicked(i) = IF x \in STasks THEN SMask[x] ELSE {STid[x]}
  BY <1>4, Slot DEF kicked, Holds
<1>6. kicked(i) \subseteq SThreads /\ kicked(i) # {}
  BY <1>5, SchedAssumption
<1>7. i \notin sleeping_thread_mask
  BY <1>1, <1>2 DEF Ready
<1>8. \/ UNCHANGED sleep /\ ~(kicked(i) \subseteq sleeping_thread_mask)
      \/ \E w \in kicked(i) : /\ sleeping_thread_mask' = sleeping_thread_mask \ {w}
                              /\ wakepipe' = wakepipe \cup {w}
  <2>1. CASE ~(kicked(i) \subseteq sleeping_thread_mask)
    BY <2>1 DEF Kick
  <2>2. CASE kicked(i) \subseteq sleeping_thread_mask
    <3>1. m = kicked(i) /\ m \in SUBSET Nat /\ m # {}
      BY <1>6, <1>7, <2>2, SchedAssumption, ZenonT(30)
    <3>2. sleeping_thread_mask' = sleeping_thread_mask \ {Min(m)} /\ wakepipe' = wakepipe \cup {Min(m)}
      BY <2>2 DEF Kick
    <3> HIDE DEF m
    <3>3. Min(m) \in m
      BY <3>1, MinFound
    <3> QED
      BY <3>1, <3>2, <3>3
  <2> QED
    BY <2>1, <2>2, SMTT(30)
<1> HIDE DEF m
<1>9. /\ sleeping_thread_mask' \subseteq sleeping_thread_mask
      /\ wakepipe \subseteq wakepipe' /\ wakepipe' \subseteq SThreads
      /\ sleeping_thread_mask \subseteq sleeping_thread_mask' \cup wakepipe'
  BY <1>1, <1>6, <1>8 DEF sleep
<1>10. ThrTo(i, thr[i].back, thr[i].cur, Idle, "none", thr[i].now, thr[i].until)
  BY <1>1, <1>3, ThrGoto DEF Backs, Pcs
<1>11. QuietMove(i, thr[i].back, Idle, "none", thr[i].now, thr[i].until)
  BY <1>1, <1>3, <1>9, <1>10 DEF QuietMove, Quiet, Calm, Backs
<1>12. TimerWatched'
  <2>1. ~Asleep(i)'
    BY <1>3, <1>10, Zenon DEF Asleep, At, ThrTo, Backs
  <2> QED
    BY <1>1, <1>9, <1>10, <2>1, TimersStep, Zenon DEF SInv
<1>13. Watched'
  <2>1. thr'[i].pc \in Backs /\ \A j \in SThreads : j # i => thr'[j] = thr[j]
    BY <1>3, <1>10, Zenon DEF ThrTo
  <2>2. \A j \in SThreads : Alert(j) => Alert(j)'
    BY <1>9, <2>1 DEF Alert, Backs
  <2>3. \A j \in SThreads : Ready(j)'
    BY <1>1, <1>7, <1>9, <2>1, ZenonT(30) DEF SInv, Watched, Ready, Backs, queues
  <2>4. \E j \in kicked(i) : Alert(j)'
    <3>1. CASE \E w \in kicked(i) : wakepipe' = wakepipe \cup {w}
      BY <3>1 DEF Alert
    <3>2. ASSUME NEW j \in kicked(i), j \notin sleeping_thread_mask PROVE Alert(j)'
      <4>1. j \in SThreads /\ Ready(j)
        BY <1>6, ZenonT(30) DEF SInv, Watched
      <4>2. Alert(j)
        BY <3>2, <4>1 DEF Ready, Alert
      <4> QED
        BY <2>2, <4>1, <4>2
    <3> QED
      BY <1>8, <3>1, <3>2
  <2>5. \A y : Kicking(y) => Kicking(y)' \/ y = x
    <3>1. \A y : KicksFor(i, y) => y = x
      BY <1>4, Slot DEF KicksFor, Holds
    <3>2. \A j \in SThreads \ {i} : \A y : KicksFor(j, y)' <=> KicksFor(j, y)
      BY <1>10, Views, Zenon
    <3> QED
      BY <3>1, <3>2 DEF Kicking
  <2> QED
    BY <1>1, <1>5, <2>2, <2>3, <2>4, <2>5, WatchedStep, SchedAssumption, Zenon DEF queues
<1> QED
  BY <1>11, <1>12, <1>13, QuietStep DEF SInv

\* The thread sleeps no later than the first of its timers (next_timer_expiry()), which Min
\* returns for any set of them.
LEMMA SleepKeeps ==
  ASSUME SInv, NEW i \in SThreads, Sleep(i)
  PROVE  SInv'
<1>1. /\ thr[i].pc = "timers" /\ UNCHANGED <<task, tasklet, queues, sleep, clock, calls>>
      /\ thr \in [SThreads -> ThrRec] /\ task \in [STasks -> TaskRec]
      /\ thr' = [thr EXCEPT ![i].pc = "poll", ![i].until = next_timer_expiry(i)]
      /\ sleeping_thread_mask \subseteq SThreads /\ wakepipe \subseteq SThreads
  BY DEF SInv, SchedTypes, Sleep, At
<1> DEFINE own == first_timer(i, FALSE)
           all == first_timer(i, TRUE)
<1>2. ASSUME NEW s \in BOOLEAN
      PROVE  /\ first_timer(i, s) \in 0 .. MaxClock + 1
             /\ \A t \in timers_of(i, s) : first_timer(i, s) <= task[t].wq
             /\ first_timer(i, s) = 0 /\ timers_of(i, s) # {} => \E t \in timers_of(i, s) : task[t].wq = 0
  <2> DEFINE keys == {task[t].wq : t \in timers_of(i, s)}
  <2>1. \A t \in timers_of(i, s) : t \in STasks /\ task[t].wq \in 0 .. MaxClock + 1
    <3> TAKE t \in timers_of(i, s)
    <3>1. t \in STasks /\ task[t].wq # NotInWq
      BY DEF timers_of
    <3>2. task[t].wq \in -1 .. MaxClock + 1
      BY <1>1, <3>1 DEF TaskRec
    <3> QED
      BY <3>1, <3>2, SchedAssumption DEF NotInWq
  <2>2. keys \in SUBSET Nat /\ keys \subseteq 0 .. MaxClock + 1
    BY <2>1, SchedAssumption
  <2>3. CASE keys = {}
    <3>1. timers_of(i, s) = {}
      BY <2>3, Zenon
    <3>2. first_timer(i, s) = 0
      BY <2>3 DEF first_timer, TICK_ETERNITY
    <3> QED
      BY <3>1, <3>2, SchedAssumption
  <2>4. CASE keys # {}
    <3>1. first_timer(i, s) = Min(keys)
      BY <2>4 DEF first_timer
    <3>2. \A t \in timers_of(i, s) : task[t].wq \in keys
      OBVIOUS
    <3>3. \A x \in keys : \E t \in timers_of(i, s) : task[t].wq = x
      OBVIOUS
    <3> HIDE DEF keys
    <3>4. Min(keys) \in keys /\ \A y \in keys : Min(keys) <= y
      BY <2>2, <2>4, MinFound
    <3> QED
      BY <2>2, <3>1, <3>2, <3>3, <3>4, ZenonT(30)
  <2> QED
    BY <2>3, <2>4, Zenon
<1>3. own \in 0 .. MaxClock + 1 /\ all \in 0 .. MaxClock + 1
  BY <1>2, Zenon
<1>4. next_timer_expiry(i) = tick_first(own, all)
  BY DEF next_timer_expiry
<1> DEFINE until == next_timer_expiry(i)
<1> HIDE DEF own, all
<1>5. /\ until \in 0 .. MaxClock + 1
      /\ own # 0 => until # 0 /\ until <= own
      /\ all # 0 => until # 0 /\ until <= all
  BY <1>3, <1>4, SchedAssumption DEF tick_first, tick_isset, tick_is_le, TICK_ETERNITY
<1> HIDE DEF until
<1>6. ThrTo(i, "poll", thr[i].cur, thr[i].wt, thr[i].back, thr[i].now, until)
  BY <1>1, <1>5, ThrUntil, Zenon DEF Pcs, until
<1>7. QuietMove(i, "poll", thr[i].wt, thr[i].back, thr[i].now, until)
  BY <1>1, <1>6, NowSet, SMTT(30) DEF QuietMove, Quiet, Calm, sleep
<1>8. TimerWatched'
  <2>1. thr'[i].until = until /\ \A j \in SThreads \ {i} : thr'[j] = thr[j]
    BY <1>6 DEF ThrTo
  <2>2. \A j \in SThreads \ {i} : \A t \in STasks : watches(j, t)' <=> watches(j, t)
    BY <1>1, <2>1 DEF watches, Asleep, At, PollEnds, sleep
  <2> SUFFICES ASSUME NEW t \in STasks, task[t].wq # NotInWq
               PROVE  IF Shared(t)
                      THEN \/ \E u \in STasks : Shared(u) /\ task[u].wq = TICK_ETERNITY
                           \/ watches(i, t)'
                      ELSE \A j \in SMask[t] : watches(j, t)'
    BY <1>1 DEF TimerWatched, Shared, NotInWq
  <2>3. task[t].wq \in -1 .. MaxClock + 1
    BY <1>1 DEF TaskRec
  <2>4. CASE Shared(t)
    <3>1. t \in timers_of(i, TRUE)
      BY <2>4 DEF timers_of
    <3>2. all <= task[t].wq
      BY <1>2, <3>1, Zenon DEF all
    <3>3. CASE all = 0
      <4>1. PICK u \in timers_of(i, TRUE) : task[u].wq = 0
        BY <1>2, <3>1, <3>3, Zenon DEF all
      <4> QED
        BY <2>4, <4>1 DEF timers_of, TICK_ETERNITY
    <3>4. CASE all # 0
      <4>1. until # 0 /\ until <= task[t].wq
        BY <1>3, <1>5, <2>3, <3>2, <3>4
      <4> QED
        BY <1>1, <2>1, <2>4, <4>1 DEF watches, tick_isset, TICK_ETERNITY
    <3> QED
      BY <3>3, <3>4
  <2>5. CASE ~Shared(t)
    <3>1. ASSUME NEW j \in SMask[t] PROVE watches(j, t)'
      <4>1. CASE j # i
        BY <2>2, <2>5, <4>1, SchedAssumption DEF SInv, TimerWatched
      <4>2. CASE j = i
        <5>1. t \in timers_of(i, FALSE)
          BY <2>5, <4>2 DEF timers_of
        <5>2. \A u \in timers_of(i, FALSE) : task[u].wq # 0
          BY Zenon DEF timers_of, SInv, Tasks, TaskInv, Dated, TICK_ETERNITY
        <5>3. own # 0 /\ own <= task[t].wq
          BY <1>2, <5>1, <5>2, Zenon DEF own
        <5>4. until # 0 /\ until <= task[t].wq
          BY <1>3, <1>5, <2>3, <5>3
        <5> QED
          BY <1>1, <2>1, <4>2, <5>4 DEF watches, tick_isset, TICK_ETERNITY
      <4> QED
        BY <4>1, <4>2
    <3> QED
      BY <2>5, <3>1
  <2> QED
    BY <2>4, <2>5
<1>9. Watched'
  <2>1. \A j \in SThreads : (Alert(j) => Alert(j)') /\ Ready(j)'
    BY <1>1, <1>6 DEF SInv, Watched, Alert, Ready, ThrTo, sleep, queues
  <2>2. \A x : Kicking(x) => Kicking(x)'
    BY <1>1, <1>6, Views DEF Kicking, KicksFor
  <2> QED
    BY <1>1, <2>1, <2>2, WatchedStep, SchedAssumption DEF queues
<1> QED
  BY <1>7, <1>8, <1>9, QuietStep DEF SInv

\* and after each step of each thread,
LEMMA SInvNext ==
  ASSUME SInv, [SNext]_sVars
  PROVE  SInv'
<1>1. CASE Tick
  BY <1>1, TickKeeps
<1>2. ASSUME NEW i \in SThreads, Loop(i)
      PROVE  SInv'
  <2>1. CASE Insert(i)
    BY <2>1, InsertKeeps
  <2>2. CASE Kick(i)
    BY <2>2, KickKeeps
  <2>3. CASE WakeExpiredLocal(i) \/ WakeExpiredShared(i)
    BY <2>3, ExpireKeeps, Zenon DEF WakeExpiredLocal, WakeExpiredShared
  <2>4. CASE StartRound(i) \/ PickDone(i) \/ EndRound(i) \/ HandlerReturns(i) \/ EventsDone(i)
    BY <2>4, CalmActions, SMTT(30)
  <2>5. CASE RunTasklet(i)
    BY <2>5, RunTaskletKeeps
  <2>6. CASE Pick(i)
    BY <2>6, PickKeeps
  <2>7. CASE PickNone(i)
    BY <2>7, PickNoneKeeps
  <2>8. CASE RunTask(i)
    BY <2>8, RunTaskKeeps
  <2>9. CASE HandlerExpire(i)
    BY <2>9, HandlerExpireKeeps
  <2>10. CASE Return(i)
    BY <2>10, ReturnKeeps
  <2>11. CASE Again(i)
    BY <2>11, AgainKeeps
  <2>12. CASE Requeue(i)
    BY <2>12, RequeueKeeps
  <2>13. CASE RequeueLocked(i)
    BY <2>13, RequeueLockedKeeps
  <2>14. CASE GoIdle(i)
    BY <2>14, GoIdleKeeps
  <2>15. CASE MarkSleeping(i)
    BY <2>15, MarkSleepingKeeps
  <2>16. CASE LookAgain(i)
    BY <2>16, LookAgainKeeps
  <2>17. CASE Sleep(i)
    BY <2>17, SleepKeeps
  <2>18. CASE PollReturns(i)
    BY <2>18, LeavePollKeeps DEF PollReturns
  <2> QED
    BY SMTT(30), <1>2, <2>1, <2>2, <2>3, <2>4, <2>5, <2>6, <2>7, <2>8, <2>9, <2>10, <2>11, <2>12, <2>13,
       <2>14, <2>15, <2>16, <2>17, <2>18 DEF Loop
<1>3. ASSUME NEW i \in SThreads, Calls(i)
      PROVE  SInv'
  <2>1. ASSUME NEW t \in STasks, CallWakeup(i, t) PROVE SInv'
    BY <2>1, CallWakeupKeeps
  <2>2. ASSUME NEW t \in STasks, CallDestroy(i, t) PROVE SInv'
    BY <2>2, CallDestroyKeeps
  <2>3. ASSUME NEW t \in STasks, CallSchedule(i, t, clock + 1) PROVE SInv'
    BY <2>3, CallScheduleKeeps
  <2>4. ASSUME NEW k \in STasklets, CallTasklet(i, k) PROVE SInv'
    BY <2>4, CallTaskletKeeps
  <2>5. CASE PollEvent(i)
    BY <2>5, LeavePollKeeps DEF PollEvent
  <2> QED
    BY <1>3, <2>1, <2>2, <2>3, <2>4, <2>5 DEF Calls
<1>4. CASE UNCHANGED sVars
  <2>1. UNCHANGED <<task, tasklet, queues, sleep, thr, clock, calls>>
    BY <1>4 DEF sVars
  <2>2. \A t : task_in_rq(t)' <=> task_in_rq(t)
    BY <2>1, SMTT(30) DEF task_in_rq, some_queued, queues
  <2>3. SchedTypes' /\ Lists' /\ Masks'
    BY <2>1, <2>2, SMTT(30) DEF SInv, SchedTypes, Lists, Masks, Masked, queues, sleep
  <2>4. Locals'
    BY <2>1 DEF SInv, Locals, LocalsAt, Handles, Holds
  <2>5. Tasks'
    BY <2>1, TasksSame, SMTT(30)
  <2>6. TimerWatched'
    BY <2>1 DEF SInv, TimerWatched, watches, Asleep, At, PollEnds, sleep
  <2>7. Watched'
    BY <2>1, <2>2, Zenon DEF SInv, Watched, Ready, Alert, Kicking, KicksFor, Holds, queues, sleep
  <2> QED
    BY <2>3, <2>4, <2>5, <2>6, <2>7 DEF SInv
<1> QED
  BY <1>1, <1>2, <1>3, <1>4 DEF SNext

LEMMA SchedSafe == SSpec => []SInv
<1>1. SInit => SInv
  BY SInvInit
<1>2. SInv /\ [SNext]_sVars => SInv'
  BY SInvNext
<1> QED
  BY <1>1, <1>2, PTL DEF SSpec

\* For any number of threads, no wake-up is lost between a thread that queues a task or a
\* tasklet (__task_wakeup(), tasklet_wakeup()) and those that go to sleep (run_poll_loop()).
THEOREM WakeupsKept == SSpec => []NoLostWakeup
BY SchedSafe, InvLostNone, PTL

\* For any number of threads and of tasks, a task is in one queue, in the list of a thread or
\* in the hands of one, as its flags tell, and in none once it is freed (task_wakeup(),
\* run_tasks_from_list(), task_destroy()).
THEOREM TasksStayPlaced == SSpec => []TasksPlaced
BY SchedSafe, InvPlaced, PTL

\* For any number of threads and of tasks, the date of a task that waits is in a wait queue,
\* and one of its threads does not sleep past it (task_queue(), next_timer_expiry()).
THEOREM TimersStayKept == SSpec => []TimersKept
BY SchedSafe, InvTimers, PTL
=============================================================================
