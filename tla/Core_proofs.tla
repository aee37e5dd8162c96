----------------------------- MODULE Core_proofs -----------------------------
(***************************************************************************)
(* Proofs about what threads and processes share, for any number of them:  *)
(* the futex lock of shared memory, the rendez-vous of the threads, the    *)
(* common date, and the state of the servers of a backend.                 *)
(***************************************************************************)
EXTENDS ShctxLock, RendezVous, Clock, ServerState, FiniteSetTheorems, TLAPS

(***************************************************************************)
(* The lock of a shared context.  The inductive invariant adds to          *)
(* LockSound that the word is 0 exactly when nobody holds the lock, be it  *)
(* in the section or between the two writes of its unlock: an exchange or  *)
(* a compare-and-swap that finds 0 enters an empty section.                *)
(***************************************************************************)
LkPcs == {"out", "in", "mark", "wait", "asleep", "clear", "wake"}
Owns(p) == lkpc[p] \in {"in", "clear"}

LkInv ==
  /\ waiters \in 0 .. 2
  /\ lkpc \in [Lockers -> LkPcs]
  /\ slept = {p \in Lockers : lkpc[p] = "asleep"}
  /\ \A p, q \in Lockers : Owns(p) /\ Owns(q) => p = q
  /\ waiters = 0 <=> \A p \in Lockers : ~Owns(p)
  /\ SleeperSeen

LEMMA LkInvInit == LkInit => LkInv
BY DEF LkInit, LkInv, LkPcs, Owns, SleeperSeen

LEMMA LkInvNext == LkInv /\ [LkNext]_lockVars => LkInv'
<1> SUFFICES ASSUME LkInv, [LkNext]_lockVars PROVE LkInv'
  OBVIOUS
<1> USE DEF LkInv, LkPcs, Owns, SleeperSeen, step
<1>1. ASSUME NEW p \in Lockers, TryLock(p) PROVE LkInv'
  BY <1>1 DEF TryLock
<1>2. ASSUME NEW p \in Lockers, Mark(p) PROVE LkInv'
  BY <1>2 DEF Mark
<1>3. ASSUME NEW p \in Lockers, FutexWait(p) PROVE LkInv'
  BY <1>3 DEF FutexWait
<1>4. ASSUME NEW p \in Lockers, Dec(p) PROVE LkInv'
  BY <1>4 DEF Dec
<1>5. ASSUME NEW p \in Lockers, Clear(p) PROVE LkInv'
  BY <1>5 DEF Clear
<1>6. ASSUME NEW p \in Lockers, FutexWake(p) PROVE LkInv'
  BY <1>6 DEF FutexWake
<1>7. CASE UNCHANGED lockVars
  BY <1>7 DEF lockVars
<1> QED
  BY <1>1, <1>2, <1>3, <1>4, <1>5, <1>6, <1>7 DEF LkNext, LkStep

\* A set whose elements are all equal has at most one.
LEMMA AtMostOne ==
  ASSUME NEW S, \A x, y \in S : x = y
  PROVE  Cardinality(S) <= 1
<1>1. CASE S = {}
  BY <1>1, FS_EmptySet
<1>2. CASE S # {}
  <2>1. PICK x \in S : S = {x}
    BY <1>2
  <2> QED
    BY <2>1, FS_Singleton
<1> QED
  BY <1>1, <1>2

\* The futex lock is a lock for any number of processes and threads: _shctx_lock() lets one
\* in at a time, and _shctx_unlock() forgets no sleeper.
THEOREM LockStaysSound == LkSpec => []LockSound
<1>1. LkInv => LockSound
  BY AtMostOne DEF LkInv, Owns, LockSound, LockExclusive
<1> QED
  BY LkInvInit, LkInvNext, <1>1, PTL DEF LkSpec
------------------------------------------------------------------------------
(***************************************************************************)
(* The rendez-vous.  A thread's bits are functions of where it is, which   *)
(* makes the isolation inductive: the compare-and-swap succeeds when all   *)
(* the threads are harmless, hence none at work, and the tests which lead  *)
(* back to work see the bit of the isolated thread.                        *)
(***************************************************************************)
RHarmless == {"poll", "till", "want", "read", "rel_wait", "rel_and"}
RWants == {"read", "isolated"}
RPcs == RHarmless \cup {"work", "end", "again", "isolated", "rel", "rel_or"}

RdvInv ==
  /\ rpc \in [RThreads -> RPcs]
  /\ threads_harmless_mask = {i \in RThreads : rpc[i] \in RHarmless}
  /\ threads_want_rdv_mask = {i \in RThreads : rpc[i] \in RWants}
  /\ \A i, j \in RThreads :
       i # j /\ rpc[i] = "isolated" => rpc[j] \notin {"work", "isolated"}

LEMMA RdvInvInit == RInit => RdvInv
BY DEF RInit, RdvInv, RPcs, RHarmless, RWants

\* The invariant after a step of thread i alone, from what the step did to its bits: a thread
\* gets to work, or isolated, only if the others allow it.
LEMMA RdvStep ==
  ASSUME RdvInv, NEW i \in RThreads, NEW from, NEW to \in RPcs, Step(i, from, to),
         threads_harmless_mask' = IF to \in RHarmless THEN threads_harmless_mask \cup {i}
                                                      ELSE threads_harmless_mask \ {i},
         threads_want_rdv_mask' = IF to \in RWants THEN threads_want_rdv_mask \cup {i}
                                                   ELSE threads_want_rdv_mask \ {i},
         to = "work" => \A j \in RThreads \ {i} : rpc[j] # "isolated",
         to = "isolated" => \A j \in RThreads \ {i} : rpc[j] \notin {"work", "isolated"}
  PROVE  RdvInv'
<1>1. /\ rpc' = [rpc EXCEPT ![i] = to] /\ rpc \in [RThreads -> RPcs]
      /\ rpc' \in [RThreads -> RPcs] /\ rpc'[i] = to
      /\ \A j \in RThreads \ {i} : rpc'[j] = rpc[j]
  BY DEF RdvInv, Step
<1>2. threads_harmless_mask' = {j \in RThreads : rpc'[j] \in RHarmless}
  BY <1>1 DEF RdvInv
<1>3. threads_want_rdv_mask' = {j \in RThreads : rpc'[j] \in RWants}
  BY <1>1 DEF RdvInv
<1>4. \A k, j \in RThreads :
        k # j /\ rpc'[k] = "isolated" => rpc'[j] \notin {"work", "isolated"}
  BY <1>1 DEF RdvInv
<1> QED
  BY <1>1, <1>2, <1>3, <1>4 DEF RdvInv

LEMMA RdvInvNext == RdvInv /\ [RNext]_rdvVars => RdvInv'
<1> SUFFICES ASSUME RdvInv, [RNext]_rdvVars PROVE RdvInv'
  OBVIOUS
<1> USE DEF RPcs, RHarmless, RWants
<1>1. ~Wanted => \A j \in RThreads : rpc[j] # "isolated"
  BY DEF Wanted, RdvInv
<1>2. ASSUME NEW i \in RThreads, RStep(i) \/ Isolate(i) PROVE RdvInv'
  <2>1. i \in threads_harmless_mask <=> rpc[i] \in RHarmless
    BY DEF RdvInv
  <2>2. i \in threads_want_rdv_mask <=> rpc[i] \in RWants
    BY DEF RdvInv
  <2>3. CASE HarmlessNow(i)
    BY <2>1, <2>2, <2>3, RdvStep, Zenon DEF HarmlessNow, Step, harmless
  <2>4. CASE HarmlessEnd(i)
    BY <2>1, <2>2, <2>4, RdvStep, Zenon DEF HarmlessEnd, Step, harmless
  <2>5. CASE EndTest(i)
    BY <1>1, <2>1, <2>2, <2>5, RdvStep, ZenonT(30) DEF EndTest, Step, masks
  <2>6. CASE HarmlessAgain(i)
    BY <2>1, <2>2, <2>6, RdvStep, Zenon DEF HarmlessAgain, Step, harmless
  <2>7. CASE TillEnd(i)
    BY <2>1, <2>2, <2>7, RdvStep, Zenon DEF TillEnd, Step, masks
  <2>8. CASE Isolate(i)
    BY <2>1, <2>2, <2>8, RdvStep, Zenon DEF Isolate, Step, harmless
  <2>9. CASE Want(i)
    BY <2>1, <2>2, <2>9, RdvStep, Zenon DEF Want, Step, want
  <2>10. CASE ReadMask(i)
    BY <2>1, <2>2, <2>10, RdvStep, Zenon DEF ReadMask, Step, masks
  <2>11. CASE CompareAndSwap(i)
    <3>1. CASE threads_harmless_mask = RThreads
      <4>1. \A j \in RThreads \ {i} : rpc[j] \notin {"work", "isolated"}
        BY <3>1 DEF RdvInv
      <4> QED
        BY <2>1, <2>2, <2>11, <3>1, <4>1, RdvStep DEF CompareAndSwap, Step, harmless
    <3>2. CASE threads_harmless_mask # RThreads
      BY <2>1, <2>2, <2>11, <3>2, RdvStep DEF CompareAndSwap, Step
    <3> QED
      BY <3>1, <3>2
  <2>12. CASE Release(i)
    BY <2>1, <2>2, <2>12, RdvStep, Zenon DEF Release, Step, want
  <2>13. CASE RelTest(i)
    BY <1>1, <2>1, <2>2, <2>13, RdvStep, ZenonT(30) DEF RelTest, Step, masks
  <2>14. CASE RelHarmless(i)
    BY <2>1, <2>2, <2>14, RdvStep, Zenon DEF RelHarmless, Step, harmless
  <2>15. CASE RelWait(i)
    BY <2>1, <2>2, <2>15, RdvStep, Zenon DEF RelWait, Step, masks
  <2>16. CASE RelHarmful(i)
    BY <2>1, <2>2, <2>16, RdvStep, Zenon DEF RelHarmful, Step, harmless
  <2> QED
    BY <1>2, <2>3, <2>4, <2>5, <2>6, <2>7, <2>8, <2>9, <2>10, <2>11, <2>12, <2>13, <2>14,
       <2>15, <2>16 DEF RStep
<1>3. CASE UNCHANGED rdvVars
  BY <1>3 DEF rdvVars, masks, RdvInv
<1> QED
  BY <1>2, <1>3 DEF RNext

\* For any number of threads, one that left thread_isolate() is alone at work until
\* thread_release(), and thread_isolated() is true for it alone.
THEOREM IsolatedAlone == RSpec => []Isolation
<1>1. RdvInv => Isolation
  BY DEF RdvInv, Isolation, RHarmless, RWants
<1> QED
  BY RdvInvInit, RdvInvNext, <1>1, PTL DEF RSpec
------------------------------------------------------------------------------
(***************************************************************************)
(* The dates.  A call which is about to swap has a date that neither goes  *)
(* back nor jumps, computed from `now' of its thread, which nobody else    *)
(* writes; the dates returned so far, and hence the floor of the call, are *)
(* below the common date, which only moves forward.                        *)
(***************************************************************************)
Call == [pc : {"out", "cas"}, date : Nat, adjusted : Nat, old_now : Nat, floor : Nat]

TmInv ==
  /\ global_now \in Nat /\ returned \in Nat /\ returned <= global_now
  /\ now \in [TmThreads -> Nat] /\ tv_offset \in [TmThreads -> Int]
  /\ upd \in [TmThreads -> Call]
  /\ \A t \in TmThreads :
       /\ upd[t].floor <= returned
       /\ upd[t].pc = "cas" =>
            /\ now[t] # 0 /\ now[t] <= upd[t].adjusted
            /\ \E w \in MaxWaits : upd[t].adjusted <= now[t] + w + MaxDelay

\* What one step may do to the dates: the three action properties of Clock at once.
Forward == global_now' >= global_now /\ \A t \in TmThreads : now'[t] >= now[t]
CatchesUp == \A t \in TmThreads :
               upd[t].pc = "cas" /\ upd'[t].pc = "out" => now'[t] >= upd[t].floor
Bounded == \A t \in TmThreads :
             now[t] # 0 => \/ now'[t] <= global_now
                           \/ \E w \in MaxWaits : now'[t] <= now[t] + w + MaxDelay

LEMMA TmInvInit == TmInit => TmInv
BY DEF TmInit, TmInv, Call, no_call

\* A date that does not move is within any bound.
LEMMA Unmoved ==
  ASSUME NEW n \in Nat
  PROVE  n >= n /\ \E w \in MaxWaits : n <= n + w + MaxDelay
<1>1. PICK w \in MaxWaits : w \in Nat
  BY ClockAssumption, Zenon
<1>2. n <= n + w + MaxDelay
  BY <1>1, ClockAssumption
<1> QED
  BY <1>2

LEMMA StartStep ==
  ASSUME TmInv, NEW t \in TmThreads, StartThread(t)
  PROVE  TmInv' /\ Forward /\ CatchesUp /\ Bounded
<1>1. PICK date \in Dates :
        /\ now' = [now EXCEPT ![t] = date]
        /\ global_now' = IF global_now = 0 THEN date ELSE global_now
  BY Zenon DEF StartThread
<1>2. /\ now[t] = 0 /\ date \in Nat /\ date >= 1
      /\ tv_offset' = [tv_offset EXCEPT ![t] = 0] /\ upd' = upd /\ returned' = returned
  BY ClockAssumption DEF StartThread, Dates
<1>3. /\ global_now' \in Nat /\ global_now <= global_now' /\ now' \in [TmThreads -> Nat]
      /\ now'[t] = date /\ \A u \in TmThreads \ {t} : now'[u] = now[u]
  BY <1>1, <1>2 DEF TmInv
<1>4. upd[t].pc # "cas"
  BY <1>2 DEF TmInv
<1>5. TmInv'
  <2>1. tv_offset' \in [TmThreads -> Int]
    BY <1>2 DEF TmInv
  <2>2. returned' <= global_now'
    BY <1>2, <1>3 DEF TmInv
  <2>3. \A u \in TmThreads : upd'[u].pc = "cas" => u # t
    BY <1>2, <1>4
  <2> QED
    BY <1>2, <1>3, <2>1, <2>2, <2>3 DEF TmInv
<1>6. Forward
  BY <1>2, <1>3 DEF Forward, TmInv
<1>7. CatchesUp
  BY <1>2 DEF CatchesUp
<1>8. Bounded
  BY <1>2, <1>3, Unmoved DEF Bounded, TmInv
<1> QED
  BY <1>5, <1>6, <1>7, <1>8

LEMMA BoundStep ==
  ASSUME TmInv, NEW t \in TmThreads, Bound(t)
  PROVE  TmInv' /\ Forward /\ CatchesUp /\ Bounded
<1>1. PICK date \in Dates, max_wait \in MaxWaits, interrupted \in BOOLEAN :
        LET adjusted == date + tv_offset[t]
            kept     == IF jump(adjusted, now[t], max_wait)
                        THEN now[t] + (IF interrupted THEN 0 ELSE max_wait)
                        ELSE adjusted
        IN  upd' = [upd EXCEPT ![t] = [pc |-> "cas", date |-> date, adjusted |-> kept,
                                       old_now |-> global_now, floor |-> returned]]
  BY Zenon DEF Bound
<1> DEFINE adjusted == date + tv_offset[t]
           kept     == IF jump(adjusted, now[t], max_wait)
                       THEN now[t] + (IF interrupted THEN 0 ELSE max_wait)
                       ELSE adjusted
           call     == [pc |-> "cas", date |-> date, adjusted |-> kept,
                        old_now |-> global_now, floor |-> returned]
<1>2. /\ date \in Nat /\ max_wait \in Nat /\ MaxDelay \in Nat
      /\ now[t] \in Nat /\ now[t] # 0 /\ tv_offset[t] \in Int
      /\ global_now \in Nat /\ returned \in Nat
  BY ClockAssumption DEF Bound, Dates, TmInv
<1>3. kept \in Nat /\ now[t] <= kept /\ kept <= now[t] + max_wait + MaxDelay
  BY <1>2 DEF jump
<1>4. upd' = [upd EXCEPT ![t] = call]
  BY <1>1
<1> HIDE DEF kept
<1>5. call \in Call /\ call.pc = "cas" /\ call.adjusted = kept /\ call.floor = returned
  BY <1>2, <1>3 DEF Call
<1> HIDE DEF call
<1>6. /\ upd \in [TmThreads -> Call] /\ upd' \in [TmThreads -> Call] /\ upd'[t] = call
      /\ \A u \in TmThreads \ {t} : upd'[u] = upd[u]
  BY <1>4, <1>5 DEF TmInv
<1>7. UNCHANGED <<global_now, now, tv_offset, returned>>
  BY DEF Bound
<1>8. TmInv'
  <2>1. upd'[t].floor <= returned'
    BY <1>2, <1>5, <1>6, <1>7
  <2>2. /\ now'[t] # 0 /\ now'[t] <= upd'[t].adjusted
        /\ \E w \in MaxWaits : upd'[t].adjusted <= now'[t] + w + MaxDelay
    BY <1>2, <1>3, <1>5, <1>6, <1>7
  <2> QED
    BY <1>6, <1>7, <2>1, <2>2 DEF TmInv
<1>9. Forward
  BY <1>7 DEF Forward, TmInv
<1>10. CatchesUp
  BY <1>5, <1>6 DEF CatchesUp
<1>11. Bounded
  BY <1>7, Unmoved DEF Bounded, TmInv
<1> QED
  BY <1>8, <1>9, <1>10, <1>11

LEMMA CasStep ==
  ASSUME TmInv, NEW t \in TmThreads, Cas(t)
  PROVE  TmInv' /\ Forward /\ CatchesUp /\ Bounded
<1>1. /\ upd[t] \in Call /\ upd[t].pc = "cas" /\ now[t] \in Nat
      /\ upd[t].adjusted \in Nat /\ upd[t].date \in Nat /\ upd[t].floor \in Nat
      /\ now[t] # 0 /\ now[t] <= upd[t].adjusted /\ upd[t].floor <= returned
      /\ global_now \in Nat /\ returned \in Nat /\ returned <= global_now
  BY DEF Cas, TmInv, Call
<1>2. PICK w \in MaxWaits : upd[t].adjusted <= now[t] + w + MaxDelay
  BY <1>1 DEF TmInv
<1>3. CASE global_now = upd[t].old_now
  <2>1. /\ global_now' = latest(upd[t].adjusted, global_now)
        /\ now' = [now EXCEPT ![t] = global_now']
        /\ tv_offset' = [tv_offset EXCEPT ![t] = global_now' - upd[t].date]
        /\ upd' = [upd EXCEPT ![t] = no_call]
        /\ returned' = latest(returned, now'[t])
    BY <1>3 DEF Cas
  <2>2. /\ global_now' \in Nat /\ global_now <= global_now' /\ upd[t].adjusted <= global_now'
        /\ global_now' \in {upd[t].adjusted, global_now}
    BY <1>1, <2>1 DEF latest
  <2>3. /\ now' \in [TmThreads -> Nat] /\ now'[t] = global_now'
        /\ \A u \in TmThreads \ {t} : now'[u] = now[u]
    BY <2>1, <2>2 DEF TmInv
  <2>4. returned' = global_now' /\ returned <= returned'
    BY <1>1, <2>1, <2>2, <2>3 DEF latest
  <2>5. no_call \in Call /\ no_call.pc = "out" /\ no_call.floor = 0
    BY DEF no_call, Call
  <2>6. /\ upd' \in [TmThreads -> Call] /\ upd'[t] = no_call
        /\ \A u \in TmThreads \ {t} : upd'[u] = upd[u]
    BY <2>1, <2>5 DEF TmInv
  <2>7. TmInv'
    <3>1. tv_offset' \in [TmThreads -> Int]
      <4>1. global_now' - upd[t].date \in Int
        BY <1>1, <2>2
      <4> QED
        BY <2>1, <4>1 DEF TmInv
    <3>2. ASSUME NEW u \in TmThreads PROVE upd'[u].floor <= returned'
      <4>1. CASE u = t
        BY <1>1, <2>2, <2>4, <2>5, <2>6, <4>1
      <4>2. CASE u # t
        <5>1. upd[u] \in Call /\ upd[u].floor \in Nat /\ upd[u].floor <= returned
          BY DEF TmInv, Call
        <5> QED
          BY <1>1, <2>2, <2>4, <2>6, <4>2, <5>1
      <4> QED
        BY <4>1, <4>2
    <3>3. ASSUME NEW u \in TmThreads, upd'[u].pc = "cas"
          PROVE  /\ now'[u] # 0 /\ now'[u] <= upd'[u].adjusted
                 /\ \E v \in MaxWaits : upd'[u].adjusted <= now'[u] + v + MaxDelay
      <4>1. u # t
        BY <2>5, <2>6, <3>3
      <4> QED
        BY <2>3, <2>6, <3>3, <4>1 DEF TmInv
    <3>4. global_now' \in Nat /\ returned' \in Nat /\ returned' <= global_now'
      BY <2>2, <2>4
    <3> QED
      BY <2>3, <2>6, <3>1, <3>2, <3>3, <3>4 DEF TmInv
  <2>8. Forward
    <3>1. now'[t] >= now[t]
      BY <1>1, <2>2, <2>3
    <3> QED
      BY <1>1, <2>2, <2>3, <3>1 DEF Forward, TmInv
  <2>9. CatchesUp
    <3>1. now'[t] >= upd[t].floor
      BY <1>1, <2>2, <2>3
    <3> QED
      BY <2>6, <3>1 DEF CatchesUp
  <2>10. Bounded
    <3>1. now'[t] <= global_now \/ now'[t] <= now[t] + w + MaxDelay
      BY <1>1, <1>2, <2>2, <2>3
    <3> QED
      BY <2>3, <3>1, Unmoved DEF Bounded, TmInv
  <2> QED
    BY <2>7, <2>8, <2>9, <2>10
<1>4. CASE global_now # upd[t].old_now
  <2>1. /\ upd' = [upd EXCEPT ![t].old_now = global_now]
        /\ UNCHANGED <<global_now, now, tv_offset, returned>>
    BY <1>4 DEF Cas
  <2>2. /\ upd' \in [TmThreads -> Call]
        /\ \A u \in TmThreads : /\ upd'[u].pc = upd[u].pc /\ upd'[u].floor = upd[u].floor
                                /\ upd'[u].adjusted = upd[u].adjusted
    BY <1>1, <2>1 DEF TmInv, Call
  <2>3. TmInv'
    BY <2>1, <2>2 DEF TmInv
  <2>4. Forward
    BY <2>1 DEF Forward, TmInv
  <2>5. CatchesUp
    BY <2>2 DEF CatchesUp
  <2>6. Bounded
    BY <2>1, Unmoved DEF Bounded, TmInv
  <2> QED
    BY <2>3, <2>4, <2>5, <2>6
<1> QED
  BY <1>3, <1>4

LEMMA TmInvNext ==
  TmInv /\ [TmNext]_tmVars => TmInv' /\ [Forward]_tmVars /\ [CatchesUp]_tmVars /\ [Bounded]_tmVars
<1>1. TmInv /\ UNCHANGED tmVars => TmInv'
  BY DEF TmInv, tmVars
<1>2. TmInv /\ TmNext => TmInv' /\ Forward /\ CatchesUp /\ Bounded
  BY StartStep, BoundStep, CasStep DEF TmNext, TmStep
<1> QED
  BY <1>1, <1>2

\* For any number of threads and any jumps of the system's date, tv_update_date() moves the
\* dates forward, never returns a date older than one returned before the call, and moves no
\* thread by more than its time-out and MAX_DELAY_MS unless it catches up with the others.
THEOREM DatesStayKept == TmSpec => DatesKept
<1>1. TmSpec => [][Forward]_tmVars /\ [][CatchesUp]_tmVars /\ [][Bounded]_tmVars
  BY TmInvInit, TmInvNext, PTL DEF TmSpec
<1> QED
  BY <1>1, PTL DEF DatesKept, DatesForward, NotBehind, JumpsBounded, Forward, CatchesUp, Bounded

-----------------------------------------------------------------------------
(***************************************************************************)
(* The state of the servers, for any set of servers and any tracking,      *)
(* health checks and operations.                                           *)
(*                                                                         *)
(* A record is settled when all that was decided of it is applied; that is *)
(* LbExact, with the fact it needs to be inductive: a server in            *)
(* maintenance is stopped.  The calls set what is next of a settled record *)
(* and leave the rest, which is what srv_update_status() needs to settle   *)
(* it again (Ready).                                                       *)
(***************************************************************************)
SrvStates == {"STOPPED", "STARTING", "RUNNING", "STOPPING"}
Flags == Maint \cup Drain
Chk(full) == [en : BOOLEAN, pa : BOOLEAN, hl : 0 .. full, ip : BOOLEAN,
              res : {"unknown", "passed", "failed", "condpass", "neutral"}, l7 : BOOLEAN]
SrvRec == [cs : SrvStates, ns : SrvStates, ca : SUBSET Flags, na : SUBSET Flags,
           cw : 0 .. 2, nw : 0 .. 2, uw : 0 .. 1, aged : BOOLEAN, lb : BOOLEAN,
           chk : Chk(ChkFull), agt : Chk(AgtFull)]
InMaint(r) == r.ca \cap Maint # {}

Ready(r) == /\ r \in SrvRec /\ r.lb = is_usable(r)
            /\ InMaint(r) => r.cs = "STOPPED" /\ r.ns = "STOPPED"
Settled(r) == /\ Ready(r) /\ r.cs = r.ns /\ r.ca = r.na
              /\ ~InMaint(r) => r.cw = r.nw
Calls == ({"stopped", "running", "stopping"} \X {"none"} \X VServers) \cup ({"set", "clr"} \X Flags \X VServers)

VInv ==
  /\ server \in [VServers -> SrvRec] /\ \A s \in VServers : Settled(server[s])
  /\ vcalls \in [VServers -> Seq(Calls)]
  /\ vpast \subseteq VServers \X {"disabled", "observed"}

LEMMA Healths ==
  /\ ChkFull \in Nat /\ AgtFull \in Nat /\ Rise \in 0 .. ChkFull /\ ARise \in 0 .. AgtFull
BY VAssumption DEF ChkFull, AgtFull

\* What the operators do to a record.
LEMMA SetDown ==
  ASSUME NEW r \in SrvRec, srv_lb_status_changed(r), ~will_be(r), r.lb = is_usable(r)
  PROVE  LET d == set_server_status_down(r)
         IN /\ d \in SrvRec /\ d.cs = r.ns /\ d.ns = r.ns /\ d.ca = r.na /\ d.na = r.na
            /\ d.cw = r.nw /\ d.nw = r.nw /\ d.lb = is_usable(d)
<1> DEFINE d == set_server_status_down(r)
<1>1. d = [r EXCEPT !.cs = r.ns, !.ca = r.na, !.cw = r.nw, !.lb = IF ~will_be(r) /\ is_usable(r) THEN FALSE ELSE r.lb]
  BY Zenon DEF set_server_status_down, srv_lb_commit_status, SrvRec
<1>2. (IF ~will_be(r) /\ is_usable(r) THEN FALSE ELSE r.lb) = FALSE
  <2>1. is_usable(r) \in BOOLEAN
    BY DEF is_usable, usable
  <2> QED
    BY <2>1
<1>3. d = [r EXCEPT !.cs = r.ns, !.ca = r.na, !.cw = r.nw, !.lb = FALSE]
  BY <1>1, <1>2, Zenon
<1>4. /\ d \in SrvRec /\ d.cs = r.ns /\ d.ns = r.ns /\ d.ca = r.na /\ d.na = r.na
      /\ d.cw = r.nw /\ d.nw = r.nw /\ d.lb = FALSE
  BY <1>3, Zenon DEF SrvRec
<1>5. is_usable(d) = FALSE
  <2>1. is_usable(d) = will_be(r) /\ will_be(r) \in BOOLEAN
    BY <1>4 DEF is_usable, will_be, usable
  <2> QED
    BY <2>1
<1> QED
  BY <1>4, <1>5, Zenon

LEMMA SetWeightTo ==
  ASSUME NEW r \in SrvRec, r.lb = is_usable(r)
  PROVE  LET d == update_server_eweight(r)
         IN /\ d \in SrvRec /\ d.cs = r.ns /\ d.ns = r.ns /\ d.ca = r.na /\ d.na = r.na
            /\ d.cw = r.nw /\ d.nw = r.nw /\ d.lb = is_usable(d)
<1> DEFINE d == update_server_eweight(r)
<1>1. CASE ~srv_lb_status_changed(r)
  <2>1. d = r /\ r.ns = r.cs /\ r.na = r.ca /\ r.nw = r.cw
    BY <1>1 DEF update_server_eweight, srv_lb_status_changed
  <2> HIDE DEF d
  <2> QED
    BY <2>1 DEF d
<1>2. CASE srv_lb_status_changed(r)
  <2>1. d = [r EXCEPT !.cs = r.ns, !.ca = r.na, !.cw = r.nw, !.lb = IF will_be(r) # is_usable(r) THEN will_be(r) ELSE r.lb]
    BY <1>2, Zenon DEF update_server_eweight, srv_lb_commit_status, SrvRec
  <2>2. (IF will_be(r) # is_usable(r) THEN will_be(r) ELSE r.lb) = will_be(r) /\ will_be(r) \in BOOLEAN
    BY DEF will_be, usable
  <2>3. d = [r EXCEPT !.cs = r.ns, !.ca = r.na, !.cw = r.nw, !.lb = will_be(r)]
    BY <2>1, <2>2, Zenon
  <2>4. /\ d \in SrvRec /\ d.cs = r.ns /\ d.ns = r.ns /\ d.ca = r.na /\ d.na = r.na
        /\ d.cw = r.nw /\ d.nw = r.nw /\ d.lb = will_be(r)
    BY <2>2, <2>3, Zenon DEF SrvRec
  <2>5. is_usable(d) = will_be(r)
    BY <2>4, Zenon DEF is_usable, will_be
  <2> QED
    BY <2>4, <2>5
<1> QED
  BY <1>1, <1>2

LEMMA Recalc ==
  ASSUME NEW r \in SrvRec, NEW slow
  PROVE  LET d == server_recalc_eweight(r, slow)
         IN /\ d \in SrvRec /\ d.cs = r.cs /\ d.ca = r.ca /\ d.na = r.na /\ d.cw = r.cw /\ d.lb = r.lb
            /\ is_usable(d) = is_usable(r)
            /\ d.ns = IF r.ns = "STARTING" /\ (r.aged \/ ~slow) THEN "RUNNING" ELSE r.ns
<1> DEFINE ns == IF r.ns = "STARTING" /\ (r.aged \/ ~slow) THEN "RUNNING" ELSE r.ns
           nw == IF r.uw = 0 THEN 0 ELSE IF ns = "STARTING" THEN 1 ELSE 2
           d == server_recalc_eweight(r, slow)
<1>1. d = [r EXCEPT !.ns = ns, !.nw = nw]
  BY DEF server_recalc_eweight
<1>2. ns \in SrvStates /\ nw \in 0 .. 2
  BY DEF SrvRec, SrvStates
<1> HIDE DEF ns, nw, d
<1>3. /\ d \in SrvRec /\ d.cs = r.cs /\ d.ca = r.ca /\ d.na = r.na /\ d.cw = r.cw /\ d.lb = r.lb
      /\ d.ns = ns
  BY <1>1, <1>2, Zenon DEF SrvRec
<1>4. is_usable(d) = is_usable(r)
  BY <1>3, Zenon DEF is_usable
<1> QED
  BY <1>3, <1>4 DEF d, ns

\* srv_update_status(), part by part.  First the state.
LEMMA ApplyState ==
  ASSUME NEW r, NEW slow, Ready(r), ~InMaint(r)
  PROVE  LET d == apply_state(r, slow)
         IN /\ d \in SrvRec /\ d.cs = d.ns /\ d.cw = d.nw /\ d.ca = r.ca /\ d.na = r.na
            /\ d.lb = is_usable(d)
<1> DEFINE r0 == [r EXCEPT !.na = r.ca]
           r1 == [r0 EXCEPT !.aged = FALSE]
           r2 == IF r.cs # "STOPPED" /\ r.ns = "STOPPED" THEN set_server_status_down(r1)
                 ELSE IF r.cs # "STOPPING" /\ r.ns = "STOPPING" THEN set_server_status_down(r1)
                 ELSE IF r.ns \in {"RUNNING", "STARTING"} /\ r.cs # r.ns
                      THEN update_server_eweight(server_recalc_eweight(r1, slow))
                 ELSE IF r.cw # r.nw THEN update_server_eweight(r0)
                 ELSE r0
           Done(x) == /\ x \in SrvRec /\ x.cs = x.ns /\ x.cw = x.nw /\ x.ca = r.ca
                      /\ x.lb = is_usable(x)
<1>1. r \in SrvRec /\ r.lb = is_usable(r)
  BY DEF Ready
<1>2. /\ r0 \in SrvRec /\ r0.cs = r.cs /\ r0.ns = r.ns /\ r0.ca = r.ca /\ r0.na = r.ca
      /\ r0.cw = r.cw /\ r0.nw = r.nw /\ r0.lb = r.lb
  BY <1>1 DEF SrvRec
<1>3. /\ r1 \in SrvRec /\ r1.cs = r.cs /\ r1.ns = r.ns /\ r1.ca = r.ca /\ r1.na = r.ca
      /\ r1.cw = r.cw /\ r1.nw = r.nw /\ r1.lb = r.lb
  BY <1>2, Zenon DEF SrvRec
<1> HIDE DEF r0, r1
<1>4. r0.lb = is_usable(r0) /\ r1.lb = is_usable(r1)
  BY <1>1, <1>2, <1>3, Zenon DEF is_usable
<1>5. ASSUME r.cs # r.ns, r.ns \in {"STOPPED", "STOPPING"} PROVE Done(set_server_status_down(r1))
  <2>1. srv_lb_status_changed(r1) /\ ~will_be(r1)
    BY <1>3, <1>5 DEF srv_lb_status_changed, will_be, usable
  <2> QED
    BY <1>3, <1>4, <2>1, SetDown
<1>6. Done(update_server_eweight(server_recalc_eweight(r1, slow)))
  <2>1. PICK d : /\ d = server_recalc_eweight(r1, slow) /\ d \in SrvRec /\ d.ca = r.ca /\ d.na = r.ca
                 /\ d.lb = is_usable(d)
    BY <1>3, <1>4, Recalc
  <2>2. Done(update_server_eweight(d))
    BY <2>1, SetWeightTo
  <2> QED
    BY <2>1, <2>2, Zenon
<1>7. Done(update_server_eweight(r0))
  BY <1>2, <1>4, SetWeightTo
<1>8. ASSUME r.cs = r.ns, r.cw = r.nw PROVE Done(r0)
  BY <1>2, <1>4, <1>8
<1>9. Done(r2)
  <2>1. r.cs \in SrvStates /\ r.ns \in SrvStates
    BY <1>1 DEF SrvRec
  <2> HIDE DEF Done
  <2>2. CASE r.cs # r.ns /\ r.ns \in {"STOPPED", "STOPPING"}
    BY <1>5, <2>2
  <2>3. CASE r.cs # r.ns /\ r.ns \in {"RUNNING", "STARTING"}
    BY <1>6, <2>3
  <2>4. CASE r.cs = r.ns
    BY <1>7, <1>8, <2>4
  <2> QED
    BY <2>1, <2>2, <2>3, <2>4 DEF SrvStates
<1>10. apply_state(r, slow) = [r2 EXCEPT !.na = r.na]
  BY DEF apply_state, InMaint, r0, r1
<1> HIDE DEF r2
<1> DEFINE d == [r2 EXCEPT !.na = r.na]
<1>11. /\ d \in SrvRec /\ d.cs = d.ns /\ d.cw = d.nw /\ d.ca = r.ca /\ d.na = r.na
       /\ d.cs = r2.cs /\ d.ca = r2.ca /\ d.cw = r2.cw /\ d.lb = is_usable(r2)
  BY <1>1, <1>9 DEF SrvRec
<1> HIDE DEF d
<1>12. is_usable(d) = is_usable(r2)
  BY <1>11, Zenon DEF is_usable
<1> QED
  BY <1>10, <1>11, <1>12 DEF d

\* Then maintenance.
LEMMA EnterMaint ==
  ASSUME NEW r \in SrvRec, r.cs = r.ns, r.cw = r.nw, r.lb = is_usable(r), ~InMaint(r), r.na \cap Maint # {}
  PROVE  Settled(enter_maint(r)) /\ enter_maint(r).na \cap Maint # {}
<1> DEFINE r1 == IF r.chk.en THEN [r EXCEPT !.chk.pa = TRUE, !.chk.hl = 0] ELSE r
           r2 == [r1 EXCEPT !.chk.hl = 0, !.aged = FALSE, !.ns = "STOPPED"]
           r3 == [r1 EXCEPT !.ca = r.na]
<1>1. r.chk \in Chk(ChkFull) /\ 0 \in 0 .. ChkFull /\ r.ca # r.na
  BY Healths DEF SrvRec, InMaint
<1>2. /\ r1 \in SrvRec /\ r1.cs = r.cs /\ r1.ns = r.ns /\ r1.ca = r.ca /\ r1.na = r.na
      /\ r1.cw = r.cw /\ r1.nw = r.nw /\ r1.lb = r.lb
  <2>1. CASE r.chk.en
    BY <1>1, <2>1, Zenon DEF SrvRec, Chk
  <2>2. CASE ~r.chk.en
    BY <2>2
  <2> QED
    BY <2>1, <2>2
<1>3. enter_maint(r) = IF r.cs = "STOPPED" THEN r3 ELSE set_server_status_down(r2)
  BY DEF enter_maint
<1> HIDE DEF r1
<1>4. CASE r.cs = "STOPPED"
  <2>1. /\ r3 \in SrvRec /\ r3.cs = r.cs /\ r3.ns = r.ns /\ r3.ca = r.na /\ r3.na = r.na
        /\ r3.cw = r.cw /\ r3.nw = r.nw /\ r3.lb = is_usable(r)
    BY <1>2 DEF SrvRec
  <2> HIDE DEF r3
  <2>2. is_usable(r3) = is_usable(r)
    BY <1>4, <2>1 DEF is_usable, usable
  <2>3. enter_maint(r) = r3
    BY <1>3, <1>4
  <2> QED
    BY <1>4, <2>1, <2>2, <2>3 DEF Settled, Ready, InMaint
<1>5. CASE r.cs # "STOPPED"
  <2>1. /\ r2 \in SrvRec /\ r2.cs = r.cs /\ r2.ns = "STOPPED" /\ r2.ca = r.ca /\ r2.na = r.na
        /\ r2.cw = r.cw /\ r2.nw = r.nw /\ r2.lb = is_usable(r)
    BY <1>1, <1>2, ZenonT(30) DEF SrvRec, Chk, SrvStates
  <2> HIDE DEF r2
  <2>2. is_usable(r2) = is_usable(r)
    BY <2>1, Zenon DEF is_usable
  <2>3. srv_lb_status_changed(r2) /\ ~will_be(r2)
    BY <1>5, <2>1 DEF srv_lb_status_changed, will_be, usable
  <2>4. PICK d : d = set_server_status_down(r2) /\ d \in SrvRec /\ d.cs = "STOPPED" /\ d.ns = "STOPPED"
                 /\ d.ca = r.na /\ d.na = r.na /\ d.cw = d.nw /\ d.lb = is_usable(d)
    BY <2>1, <2>2, <2>3, SetDown
  <2>5. enter_maint(r) = d
    BY <1>3, <1>5, <2>4
  <2> QED
    BY <2>4, <2>5 DEF Settled, Ready, InMaint
<1> QED
  BY <1>4, <1>5

LEMMA LeaveMaint ==
  ASSUME NEW r, NEW slow, NEW tns, Ready(r), InMaint(r), r.na \cap Maint = {}
  PROVE  Settled(leave_maint(r, slow, tns)) /\ leave_maint(r, slow, tns).na \cap Maint = {}
<1> DEFINE r1 == IF r.chk.en THEN [r EXCEPT !.chk.pa = FALSE, !.chk.hl = Rise] ELSE r
           ns == IF tns = "STOPPING" THEN "STOPPING" ELSE IF slow THEN "STARTING" ELSE "RUNNING"
           r2 == IF tns = "STOPPED" \/ ~checks_pass(r1) THEN r1 ELSE [r1 EXCEPT !.ns = ns]
<1>1. r \in SrvRec /\ r.chk \in Chk(ChkFull) /\ Rise \in 0 .. ChkFull /\ r.lb = is_usable(r)
  BY Healths DEF SrvRec, Ready
<1>2. /\ r1 \in SrvRec /\ r1.cs = r.cs /\ r1.ca = r.ca /\ r1.na = r.na /\ r1.cw = r.cw /\ r1.lb = r.lb
  <2>1. CASE r.chk.en
    BY <1>1, <2>1, Zenon DEF SrvRec, Chk
  <2>2. CASE ~r.chk.en
    BY <1>1, <2>2
  <2> QED
    BY <2>1, <2>2
<1>3. leave_maint(r, slow, tns) = update_server_eweight(server_recalc_eweight(r2, slow))
  BY DEF leave_maint
<1>4. /\ r2 \in SrvRec /\ r2.cs = r.cs /\ r2.ca = r.ca /\ r2.na = r.na /\ r2.cw = r.cw /\ r2.lb = r.lb
  <2>1. ns \in SrvStates
    BY DEF SrvStates
  <2> HIDE DEF r1, ns
  <2>2. CASE tns = "STOPPED" \/ ~checks_pass(r1)
    BY <1>2, <2>2
  <2>3. CASE ~(tns = "STOPPED" \/ ~checks_pass(r1))
    BY <1>2, <2>1, <2>3 DEF SrvRec
  <2> QED
    BY <2>2, <2>3
<1> HIDE DEF r2
<1>5. r2.lb = is_usable(r2)
  BY <1>1, <1>4, Zenon DEF is_usable
<1>6. PICK d : d = server_recalc_eweight(r2, slow) /\ d \in SrvRec /\ d.na = r.na /\ d.lb = is_usable(d)
  BY <1>4, <1>5, Recalc
<1>7. PICK e : e = update_server_eweight(d) /\ e \in SrvRec /\ e.cs = e.ns /\ e.ca = r.na /\ e.na = r.na
               /\ e.cw = e.nw /\ e.lb = is_usable(e)
  BY <1>6, SetWeightTo
<1>8. leave_maint(r, slow, tns) = e
  BY <1>3, <1>6, <1>7, Zenon
<1> QED
  BY <1>7, <1>8 DEF Settled, Ready, InMaint

\* And drain, which does nothing to a server that is in maintenance or that
\* has just left it.
LEMMA DrainMaint ==
  ASSUME NEW r, NEW slow, Settled(r), r.na \cap Maint # {}
  PROVE  Settled(apply_drain(r, slow))
BY DEF apply_drain

LEMMA DrainSame ==
  ASSUME NEW r, NEW slow, Settled(r), r.na \cap Maint = {}
  PROVE  Settled(apply_drain(r, slow))
<1>1. r \in SrvRec /\ r.ca = r.na
  BY DEF Settled, Ready
<1>2. [r EXCEPT !.ca = r.na] = r
  BY <1>1 DEF SrvRec
<1>3. apply_drain(r, slow) = r
  BY <1>1, <1>2 DEF apply_drain
<1> QED
  BY <1>3

LEMMA DrainApplied ==
  ASSUME NEW r \in SrvRec, NEW slow, r.cs = r.ns, r.cw = r.nw, r.lb = is_usable(r),
         ~InMaint(r), r.na \cap Maint = {}
  PROVE  Settled(apply_drain(r, slow))
<1> DEFINE r1 == [r EXCEPT !.aged = FALSE]
           r2 == [r EXCEPT !.ca = r.na]
<1>1. /\ r1 \in SrvRec /\ r1.cs = r.cs /\ r1.ns = r.ns /\ r1.ca = r.ca /\ r1.na = r.na
      /\ r1.cw = r.cw /\ r1.nw = r.nw /\ r1.lb = r.lb
  BY Zenon DEF SrvRec
<1>2. /\ r2 \in SrvRec /\ r2.cs = r.cs /\ r2.ns = r.ns /\ r2.ca = r.na /\ r2.na = r.na
      /\ r2.cw = r.cw /\ r2.nw = r.nw /\ r2.lb = r.lb
  BY DEF SrvRec
<1>3. apply_drain(r, slow) =
        IF r.ca \cap Drain = {} /\ r.na \cap Drain # {} THEN set_server_status_down(r1)
        ELSE IF r.ca \cap Drain # {} /\ r.na \cap Drain = {}
             THEN update_server_eweight(server_recalc_eweight(r1, slow))
        ELSE IF r.na \cap Drain # {} THEN r2 ELSE r
  BY DEF apply_drain
<1> HIDE DEF r1, r2
<1>4. r1.lb = is_usable(r1)
  BY <1>1, Zenon DEF is_usable
<1>5. CASE r.ca \cap Drain = {} /\ r.na \cap Drain # {}
  <2>1. srv_lb_status_changed(r1) /\ ~will_be(r1)
    BY <1>1, <1>5 DEF srv_lb_status_changed, will_be, usable
  <2>2. PICK d : d = set_server_status_down(r1) /\ d \in SrvRec /\ d.cs = r.ns /\ d.ns = r.ns
                 /\ d.ca = r.na /\ d.na = r.na /\ d.cw = d.nw /\ d.lb = is_usable(d)
    BY <1>1, <1>4, <2>1, SetDown, SMTT(30)
  <2>3. apply_drain(r, slow) = d
    BY <1>3, <1>5, <2>2
  <2> QED
    BY <2>2, <2>3 DEF Settled, Ready, InMaint
<1>6. CASE r.ca \cap Drain # {} /\ r.na \cap Drain = {}
  <2>1. PICK d : d = server_recalc_eweight(r1, slow) /\ d \in SrvRec /\ d.na = r.na /\ d.lb = is_usable(d)
    BY <1>1, <1>4, Recalc, SMTT(30)
  <2>2. PICK e : e = update_server_eweight(d) /\ e \in SrvRec /\ e.cs = e.ns /\ e.ca = r.na /\ e.na = r.na
                 /\ e.cw = e.nw /\ e.lb = is_usable(e)
    BY <2>1, SetWeightTo, SMTT(30)
  <2>3. apply_drain(r, slow) = e
    BY <1>3, <1>6, <2>1, <2>2
  <2> QED
    BY <2>2, <2>3 DEF Settled, Ready, InMaint
<1>7. CASE r.ca \cap Drain # {} /\ r.na \cap Drain # {}
  <2>1. is_usable(r) = FALSE /\ is_usable(r2) = FALSE
    BY <1>2, <1>7 DEF is_usable, usable
  <2>2. apply_drain(r, slow) = r2
    BY <1>3, <1>7
  <2> QED
    BY <1>2, <2>1, <2>2, Zenon DEF Settled, Ready, InMaint
<1>8. CASE r.ca \cap Drain = {} /\ r.na \cap Drain = {}
  <2>1. r.ca \subseteq Flags /\ r.na \subseteq Flags
    BY DEF SrvRec
  <2>2. r.ca = r.na
    BY <1>8, <2>1 DEF Flags, InMaint
  <2>3. apply_drain(r, slow) = r
    BY <1>3, <1>8
  <2> QED
    BY <2>2, <2>3 DEF Settled, Ready, InMaint
<1> QED
  BY <1>5, <1>6, <1>7, <1>8

\* srv_update_status() settles any record that is ready for it.
LEMMA Updated ==
  ASSUME NEW r, NEW slow, NEW tns, Ready(r)
  PROVE  Settled(srv_update_status(r, slow, tns))
<1> DEFINE r1 == apply_state(r, slow)
           r2 == IF r1.ca \cap Maint = {} /\ r1.na \cap Maint # {} THEN enter_maint(r1)
                 ELSE IF r1.ca \cap Maint # {} /\ r1.na \cap Maint = {} THEN leave_maint(r1, slow, tns)
                 ELSE IF r1.na \cap Maint # {} THEN [r1 EXCEPT !.ca = r1.na]
                 ELSE r1
<1>1. srv_update_status(r, slow, tns) = apply_drain(r2, slow)
  BY DEF srv_update_status
<1>2. CASE ~InMaint(r)
  <2>1. /\ r1 \in SrvRec /\ r1.cs = r1.ns /\ r1.cw = r1.nw /\ r1.ca = r.ca /\ r1.na = r.na
        /\ r1.lb = is_usable(r1)
    BY <1>2, ApplyState
  <2> HIDE DEF r1
  <2>2. ~InMaint(r1)
    BY <1>2, <2>1 DEF InMaint
  <2>3. CASE r1.na \cap Maint # {}
    <3>1. r2 = enter_maint(r1)
      BY <2>2, <2>3 DEF InMaint
    <3>2. Settled(r2) /\ r2.na \cap Maint # {}
      BY <2>1, <2>2, <2>3, <3>1, EnterMaint
    <3> HIDE DEF r2
    <3> QED
      BY <1>1, <3>2, DrainMaint
  <2>4. CASE r1.na \cap Maint = {}
    <3>1. r2 = r1
      BY <2>2, <2>4, SMTT(30) DEF InMaint
    <3>2. Settled(apply_drain(r1, slow))
      BY <2>1, <2>2, <2>4, DrainApplied
    <3> HIDE DEF r2
    <3> QED
      BY <1>1, <3>1, <3>2
  <2> QED
    BY <2>3, <2>4
<1>3. CASE InMaint(r)
  <2>1. r1 = r
    BY <1>3 DEF apply_state, InMaint
  <2>2. CASE r.na \cap Maint = {}
    <3>1. r2 = leave_maint(r, slow, tns)
      BY <1>3, <2>1, <2>2 DEF InMaint
    <3>2. Settled(r2) /\ r2.na \cap Maint = {}
      BY <1>3, <2>2, <3>1, LeaveMaint, Zenon
    <3> HIDE DEF r2
    <3> QED
      BY <1>1, <3>2, DrainSame
  <2>3. CASE r.na \cap Maint # {}
    <3>1. r2 = [r EXCEPT !.ca = r.na]
      BY <1>3, <2>1, <2>3 DEF InMaint
    <3>2. r \in SrvRec /\ r.lb = is_usable(r) /\ r.cs = "STOPPED" /\ r.ns = "STOPPED"
      BY <1>3 DEF Ready
    <3> HIDE DEF r2
    <3>3. /\ r2 \in SrvRec /\ r2.cs = "STOPPED" /\ r2.ns = "STOPPED" /\ r2.ca = r.na /\ r2.na = r.na
          /\ r2.lb = is_usable(r)
      BY <3>1, <3>2 DEF SrvRec
    <3>4. is_usable(r) = FALSE /\ is_usable(r2) = FALSE
      BY <3>2, <3>3 DEF is_usable, usable
    <3>5. Settled(r2) /\ r2.na \cap Maint # {}
      BY <2>3, <3>3, <3>4, Zenon DEF Settled, Ready, InMaint
    <3> QED
      BY <1>1, <3>5, DrainMaint
  <2> QED
    BY <2>2, <2>3
<1> QED
  BY <1>2, <1>3

\* The calls.  Each one that is not refused leaves a settled record ready.
LEMMA Decided ==
  ASSUME NEW r, Settled(r)
  PROVE  /\ \A st \in SrvStates : ~InMaint(r) => Ready([r EXCEPT !.ns = st])
         /\ \A ad \in SUBSET Flags : Ready([r EXCEPT !.na = ad])
<1>1. r \in SrvRec /\ r.lb = is_usable(r)
  BY DEF Settled, Ready
<1>2. ASSUME NEW st \in SrvStates, ~InMaint(r) PROVE Ready([r EXCEPT !.ns = st])
  <2> DEFINE d == [r EXCEPT !.ns = st]
  <2>1. d \in SrvRec /\ d.cs = r.cs /\ d.ca = r.ca /\ d.cw = r.cw /\ d.lb = r.lb
    BY <1>1, <1>2 DEF SrvRec
  <2> HIDE DEF d
  <2>2. is_usable(d) = is_usable(r) /\ InMaint(d) = InMaint(r)
    BY <2>1, Zenon DEF is_usable, InMaint
  <2>3. Ready(d)
    BY <1>1, <1>2, <2>1, <2>2 DEF Ready
  <2> QED
    BY <2>3 DEF d
<1>3. ASSUME NEW ad \in SUBSET Flags PROVE Ready([r EXCEPT !.na = ad])
  <2> DEFINE d == [r EXCEPT !.na = ad]
  <2>1. d \in SrvRec /\ d.cs = r.cs /\ d.ns = r.ns /\ d.ca = r.ca /\ d.cw = r.cw /\ d.lb = r.lb
    BY <1>1, <1>3 DEF SrvRec
  <2> HIDE DEF d
  <2>2. is_usable(d) = is_usable(r) /\ InMaint(d) = InMaint(r)
    BY <2>1, Zenon DEF is_usable, InMaint
  <2>3. Ready(d)
    BY <1>1, <2>1, <2>2 DEF Ready, Settled
  <2> QED
    BY <2>3 DEF d
<1> QED
  BY <1>2, <1>3, Zenon

LEMMA CallKinds ==
  ASSUME NEW c \in Calls
  PROVE  /\ c[3] \in VServers
         /\ \/ c[1] \in {"stopped", "running", "stopping"} /\ c[2] = "none"
            \/ c[1] \in {"set", "clr"} /\ c[2] \in Flags
BY DEF Calls

LEMMA Called ==
  ASSUME NEW c \in Calls, NEW r, Settled(r), ~refused(c, r)
  PROVE  Settled(called(c, r))
<1>1. ASSUME NEW x, Ready(x) PROVE Settled(update(c[3], x))
  BY <1>1, Updated DEF update
<1>2. r.na \in SUBSET Flags
  BY DEF Settled, Ready, SrvRec
<1>3. CASE c[1] = "stopped"
  <2>1. ~InMaint(r) /\ called(c, r) = update(c[3], [r EXCEPT !.ns = "STOPPED"])
    BY <1>3 DEF refused, called, InMaint
  <2> QED
    BY <1>1, <2>1, Decided, Zenon DEF SrvStates
<1>4. CASE c[1] = "running"
  <2>1. PICK st \in SrvStates : st = IF slow_start(c[3]) THEN "STARTING" ELSE "RUNNING"
    BY DEF SrvStates
  <2>2. ~InMaint(r) /\ called(c, r) = update(c[3], [r EXCEPT !.ns = st])
    BY <1>4, <2>1 DEF refused, called, InMaint
  <2> QED
    BY <1>1, <2>2, Decided
<1>5. CASE c[1] = "stopping"
  <2>1. ~InMaint(r) /\ called(c, r) = update(c[3], [r EXCEPT !.ns = "STOPPING"])
    BY <1>5 DEF refused, called, InMaint
  <2> QED
    BY <1>1, <2>1, Decided, Zenon DEF SrvStates
<1>6. CASE c[1] = "set"
  <2>1. PICK ad \in SUBSET Flags : ad = r.na \cup {c[2]}
    BY <1>2, <1>6, CallKinds, Zenon
  <2>2. called(c, r) = update(c[3], [r EXCEPT !.na = ad])
    BY <1>6, <2>1 DEF called
  <2> QED
    BY <1>1, <2>2, Decided
<1>7. CASE c[1] = "clr"
  <2>1. PICK ad \in SUBSET Flags : ad = r.na \ {c[2]}
    BY <1>2, Zenon
  <2>2. called(c, r) = update(c[3], [r EXCEPT !.na = ad])
    BY <1>7, <2>1 DEF called
  <2> QED
    BY <1>1, <2>2, Decided
<1> QED
  BY <1>3, <1>4, <1>5, <1>6, <1>7, CallKinds

\* What is passed on to the trackers are calls on servers.
LEMMA TrackerSeq ==
  ASSUME NEW s
  PROVE  tracker_seq(s) \in Seq(VServers)
<1> DEFINE T == trackers(s)
           Listing(q) == \A t \in T : \E i \in DOMAIN q : q[i] = t
           n == Cardinality(T)
<1>1. T \subseteq VServers /\ IsFiniteSet(VServers)
  BY VAssumption DEF trackers
<1>2. IsFiniteSet(T)
  BY <1>1, FS_Subset
<1>3. n \in Nat /\ ExistsBijection(1 .. n, T)
  BY <1>2, FS_CardinalityType
<1>4. PICK f \in Bijection(1 .. n, T) : TRUE
  BY <1>3 DEF ExistsBijection
<1>5. f \in [1 .. n -> T] /\ Listing(f)
  BY <1>4 DEF Bijection, Injection, Surjection
<1>6. tracker_seq(s) = CHOOSE q \in [1 .. n -> T] : Listing(q)
  BY DEF tracker_seq
<1> HIDE DEF n, T, Listing
<1>7. tracker_seq(s) \in [1 .. n -> T]
  BY <1>5, <1>6
<1>8. tracker_seq(s) \in [1 .. n -> VServers]
  BY <1>1, <1>7
<1> QED
  BY <1>3, <1>8

LEMMA PassedOn ==
  ASSUME NEW c \in Calls, NEW r
  PROVE  passed_on(c, r) \in Seq(Calls)
<1> DEFINE ts == tracker_seq(c[3])
           fl == IF c[2] = "none" THEN "none" ELSE inherited(c[2])
           out == [i \in 1 .. Len(ts) |-> <<c[1], fl, ts[i]>>]
<1>1. ts \in Seq(VServers)
  BY TrackerSeq
<1>2. passed_on(c, r) = IF ~goes_down(c, r) THEN <<>> ELSE out
  BY DEF passed_on
<1>3. \/ c[1] \in {"stopped", "running", "stopping"} /\ fl = "none"
      \/ c[1] \in {"set", "clr"} /\ fl \in Flags
  BY CallKinds DEF Flags, Maint, Drain, inherited
<1> HIDE DEF ts, fl
<1>4. ASSUME NEW i \in 1 .. Len(ts) PROVE <<c[1], fl, ts[i]>> \in Calls
  <2>1. ts[i] \in VServers
    BY <1>1
  <2> QED
    BY <1>3, <2>1 DEF Calls
<1>5. out \in Seq(Calls)
  BY <1>1, <1>4
<1> QED
  BY <1>2, <1>5

\* With the lock of h: what one call leaves.
LEMMA Performed ==
  ASSUME VInv, NEW h \in VServers, NEW r, Settled(r), NEW cs \in Seq(Calls), perform(h, r, cs)
  PROVE  /\ server' \in [VServers -> SrvRec] /\ \A s \in VServers : Settled(server'[s])
         /\ vcalls' \in [VServers -> Seq(Calls)]
<1> DEFINE Sound(srv) == srv \in [VServers -> SrvRec] /\ \A s \in VServers : Settled(srv[s])
           srv == [server EXCEPT ![h] = r]
           c == Head(cs)
<1>1. /\ server \in [VServers -> SrvRec] /\ \A s \in VServers : Settled(server[s])
      /\ vcalls \in [VServers -> Seq(Calls)]
  BY DEF VInv
<1>2. ASSUME NEW x, Sound(x), NEW k \in VServers, NEW y, Settled(y) PROVE Sound([x EXCEPT ![k] = y])
  <2>1. y \in SrvRec
    BY <1>2 DEF Settled, Ready
  <2> QED
    BY <1>2, <2>1
<1>3. Sound(srv)
  BY <1>1, <1>2, SMTT(30)
<1> HIDE DEF Sound, srv
<1>4. CASE cs = <<>>
  <2>1. server' = srv /\ vcalls' = [vcalls EXCEPT ![h] = <<>>]
    BY <1>4 DEF perform, srv
  <2>2. <<>> \in Seq(Calls)
    OBVIOUS
  <2> QED
    BY <1>1, <1>3, <2>1, <2>2 DEF Sound
<1>5. CASE cs # <<>>
  <2>1. c \in Calls /\ Tail(cs) \in Seq(Calls)
    BY <1>5
  <2> HIDE DEF c
  <2>2. c[3] \in VServers /\ Settled(srv[c[3]])
    BY <1>3, <2>1, CallKinds DEF Sound
  <2>3. CASE refused(c, srv[c[3]])
    <3>1. server' = srv /\ vcalls' = [vcalls EXCEPT ![h] = Tail(cs)]
      BY <1>5, <2>3 DEF perform, srv, c
    <3> QED
      BY <1>1, <1>3, <2>1, <3>1, SMTT(30) DEF Sound
  <2>4. CASE ~refused(c, srv[c[3]])
    <3>1. PICK made : /\ made = called(c, srv[c[3]]) /\ server' = [srv EXCEPT ![c[3]] = made]
                      /\ vcalls' = [vcalls EXCEPT ![h] = passed_on(c, made) \o Tail(cs)]
      BY <1>5, <2>4, SMTT(30) DEF perform, srv, c
    <3>2. Settled(made)
      BY <2>1, <2>2, <2>4, <3>1, Called
    <3>3. passed_on(c, made) \o Tail(cs) \in Seq(Calls)
      BY <2>1, PassedOn
    <3>4. Sound(server')
      BY <1>2, <1>3, <2>2, <3>1, <3>2, Zenon
    <3> QED
      BY <1>1, <3>1, <3>3, <3>4, SMTT(30) DEF Sound
  <2> QED
    BY <2>3, <2>4
<1> QED
  BY <1>4, <1>5

\* The checks of a settled record may be anything.
LEMMA ChecksOnly ==
  ASSUME NEW r, Settled(r)
  PROVE  /\ \A c \in Chk(ChkFull) : Settled([r EXCEPT !.chk = c])
         /\ \A c \in Chk(ChkFull), a \in Chk(AgtFull) : Settled([r EXCEPT !.chk = c, !.agt = a])
         /\ \A a \in Chk(AgtFull) : Settled([r EXCEPT !.agt = a])
         /\ Settled([r EXCEPT !.aged = TRUE])
<1> DEFINE Same(d) == /\ d.cs = r.cs /\ d.ns = r.ns /\ d.ca = r.ca /\ d.na = r.na
                      /\ d.cw = r.cw /\ d.nw = r.nw /\ d.lb = r.lb
<1>1. r \in SrvRec
  BY DEF Settled, Ready
<1>2. ASSUME NEW d \in SrvRec, Same(d) PROVE Settled(d)
  <2>1. is_usable(d) = is_usable(r) /\ InMaint(d) = InMaint(r)
    BY <1>2, Zenon DEF is_usable, InMaint
  <2> QED
    BY <1>2, <2>1 DEF Settled, Ready
<1>3. ASSUME NEW c \in Chk(ChkFull), NEW a \in Chk(AgtFull)
      PROVE  /\ [r EXCEPT !.chk = c] \in SrvRec /\ Same([r EXCEPT !.chk = c])
             /\ [r EXCEPT !.chk = c, !.agt = a] \in SrvRec /\ Same([r EXCEPT !.chk = c, !.agt = a])
             /\ [r EXCEPT !.agt = a] \in SrvRec /\ Same([r EXCEPT !.agt = a])
  BY <1>1, <1>3, Zenon DEF SrvRec
<1>4. [r EXCEPT !.aged = TRUE] \in SrvRec /\ Same([r EXCEPT !.aged = TRUE])
  BY <1>1, Zenon DEF SrvRec
<1>5. r.chk \in Chk(ChkFull) /\ r.agt \in Chk(AgtFull)
  BY <1>1 DEF SrvRec
<1> HIDE DEF Same
<1> QED
  BY <1>2, <1>3, <1>4, <1>5, Zenon

\* A health check, or the agent, with its result.
LEMMA CheckStatus ==
  ASSUME NEW full \in Nat, NEW c \in Chk(full), NEW rise \in 0 .. full, NEW counted,
         NEW res \in {"passed", "failed", "condpass"}
  PROVE  set_check_status(c, res, rise, full, counted) \in Chk(full)
<1> DEFINE hl == CASE res = "failed" /\ counted /\ c.hl > 0 -> IF c.hl - 1 < rise THEN 0 ELSE c.hl - 1
                   [] res \in {"passed", "condpass"} /\ c.hl < full /\ (res = "passed" \/ c.hl > 0) ->
                        IF c.hl + 1 >= rise THEN full ELSE c.hl + 1
                   [] OTHER -> c.hl
<1>1. c.hl \in 0 .. full
  BY DEF Chk
<1>2. hl \in 0 .. full
  BY <1>1
<1>3. set_check_status(c, res, rise, full, counted) = [c EXCEPT !.res = res, !.hl = hl]
  BY DEF set_check_status
<1> HIDE DEF hl
<1> QED
  BY <1>2, <1>3, Zenon DEF Chk

LEMMA CheckFields ==
  ASSUME NEW full \in Nat, NEW c \in Chk(full)
  PROVE  /\ over(c) \in Chk(full)
         /\ \A h \in 0 .. full : [c EXCEPT !.hl = h] \in Chk(full)
         /\ \A b \in BOOLEAN : [c EXCEPT !.en = b] \in Chk(full) /\ [c EXCEPT !.l7 = b] \in Chk(full)
         /\ [c EXCEPT !.ip = TRUE, !.res = "unknown"] \in Chk(full)
         /\ [c EXCEPT !.res = "neutral", !.l7 = FALSE] \in Chk(full)
         /\ [c EXCEPT !.res = "failed", !.l7 = FALSE] \in Chk(full)
BY Zenon DEF Chk, over

LEMMA Notified ==
  ASSUME NEW s \in VServers, NEW r, NEW c, NEW agent
  PROVE  notify(s, r, c, agent) \in Seq(Calls)
<1> DEFINE a == <<"stopped", "none", s>>
           b == <<"running", "none", s>>
           d == <<"stopping", "none", s>>
<1>1. a \in Calls /\ b \in Calls /\ d \in Calls
  BY DEF Calls
<1>2. notify(s, r, c, agent) \in {<<a>>, <<b>>, <<d>>, <<>>}
  BY DEF notify
<1> HIDE DEF a, b, d
<1>3. \A e \in Calls : <<e>> \in Seq(Calls)
  OBVIOUS
<1>4. <<>> \in Seq(Calls)
  OBVIOUS
<1> QED
  BY <1>1, <1>2, <1>3, <1>4, Zenon

\* Steps that change one record and make no call.
LEMMA OneRecord ==
  ASSUME VInv, NEW s \in VServers, NEW x, Settled(x), server' = [server EXCEPT ![s] = x],
         vcalls' = vcalls, vpast' \subseteq vpast \cup {<<s, "disabled">>}
  PROVE  VInv'
<1>1. x \in SrvRec
  BY DEF Settled, Ready
<1>2. server' \in [VServers -> SrvRec] /\ \A t \in VServers : Settled(server'[t])
  BY <1>1 DEF VInv
<1>3. vpast' \subseteq VServers \X {"disabled", "observed"}
  BY DEF VInv
<1> QED
  BY <1>2, <1>3 DEF VInv

\* And those that make a call.
LEMMA OneCall ==
  ASSUME VInv, NEW s \in VServers, NEW r, Settled(r), NEW cs \in Seq(Calls), perform(s, r, cs),
         vpast' \subseteq vpast \cup {<<s, "observed">>}
  PROVE  VInv'
<1>1. vpast' \subseteq VServers \X {"disabled", "observed"}
  BY DEF VInv
<1> QED
  BY <1>1, Performed DEF VInv

\* The actions.
LEMMA KeepPropagate ==
  ASSUME VInv, NEW s \in VServers, Propagate(s)
  PROVE  VInv'
BY OneCall DEF Propagate, VInv

LEMMA KeepAdminState ==
  ASSUME VInv, NEW s \in VServers, AdminState(s)
  PROVE  VInv'
<1>1. PICK op \in {"maint", "drain", "ready", "lost", "resolved"} : perform(s, server[s], admin_calls(op, s))
  BY DEF AdminState
<1>2. \A f \in Flags : <<"set", f, s>> \in Calls /\ <<"clr", f, s>> \in Calls
  BY DEF Calls
<1>3. \A x, y \in Calls : <<x>> \in Seq(Calls) /\ <<x, y>> \in Seq(Calls)
  OBVIOUS
<1>4. {"FMAINT", "RMAINT", "FDRAIN"} \subseteq Flags
  BY DEF Flags, Maint, Drain
<1>5. \/ admin_calls(op, s) = <<<<"set", "FMAINT", s>>, <<"clr", "FDRAIN", s>>>>
      \/ admin_calls(op, s) = <<<<"set", "FDRAIN", s>>, <<"clr", "FMAINT", s>>>>
      \/ admin_calls(op, s) = <<<<"clr", "FDRAIN", s>>, <<"clr", "FMAINT", s>>>>
      \/ admin_calls(op, s) = <<<<"set", "RMAINT", s>>>>
      \/ admin_calls(op, s) = <<<<"clr", "RMAINT", s>>>>
  BY <1>1 DEF admin_calls
<1>6. admin_calls(op, s) \in Seq(Calls)
  BY <1>2, <1>3, <1>4, <1>5, Zenon
<1>7. Settled(server[s]) /\ vpast' = vpast
  BY DEF AdminState, VInv
<1> QED
  BY <1>1, <1>6, <1>7, OneCall

LEMMA KeepAdminHealth ==
  ASSUME VInv, NEW s \in VServers, AdminHealth(s)
  PROVE  VInv'
<1> DEFINE r == server[s]
           c(h) == [r EXCEPT !.chk.hl = h]
           a(h) == [r EXCEPT !.agt.hl = h]
           One(f) == <<<<f, "none", s>>>>
<1>1. PICK f \in {"running", "stopping", "stopped"} :
        \/ perform(s, c(ChkFull), One(f)) \/ perform(s, c(0), One(f))
        \/ perform(s, a(AgtFull), One(f)) \/ perform(s, a(0), One(f))
  <2> HIDE DEF c, a, One
  <2> QED
    BY DEF AdminHealth, c, a, One
<1>2. Settled(r) /\ r.chk \in Chk(ChkFull) /\ r.agt \in Chk(AgtFull) /\ vpast' = vpast
  BY DEF VInv, Settled, Ready, SrvRec, AdminHealth
<1>3. ASSUME NEW h \in 0 .. ChkFull PROVE Settled(c(h))
  <2>1. c(h) = [r EXCEPT !.chk = [r.chk EXCEPT !.hl = h]]
    OBVIOUS
  <2>2. [r.chk EXCEPT !.hl = h] \in Chk(ChkFull)
    BY <1>2, <1>3, Healths, CheckFields, Zenon
  <2> QED
    BY <1>2, <2>1, <2>2, ChecksOnly, Zenon
<1>4. ASSUME NEW h \in 0 .. AgtFull PROVE Settled(a(h))
  <2>1. a(h) = [r EXCEPT !.agt = [r.agt EXCEPT !.hl = h]]
    OBVIOUS
  <2>2. [r.agt EXCEPT !.hl = h] \in Chk(AgtFull)
    BY <1>2, <1>4, Healths, CheckFields, Zenon
  <2> QED
    BY <1>2, <2>1, <2>2, ChecksOnly, Zenon
<1>5. One(f) \in Seq(Calls)
  BY DEF Calls
<1>6. 0 \in 0 .. ChkFull /\ ChkFull \in 0 .. ChkFull /\ 0 \in 0 .. AgtFull /\ AgtFull \in 0 .. AgtFull
  BY Healths
<1>7. Settled(c(ChkFull)) /\ Settled(c(0)) /\ Settled(a(AgtFull)) /\ Settled(a(0))
  BY <1>3, <1>4, <1>6
<1> HIDE DEF c, a, One, r
<1> QED
  BY <1>1, <1>2, <1>5, <1>7, OneCall

LEMMA KeepAdminCheck ==
  ASSUME VInv, NEW s \in VServers, AdminCheck(s)
  PROVE  VInv'
<1> DEFINE r == server[s]
<1>1. Settled(r) /\ r.chk \in Chk(ChkFull) /\ r.agt \in Chk(AgtFull) /\ vcalls' = vcalls
  BY DEF VInv, Settled, Ready, SrvRec, AdminCheck
<1>2. /\ \A b \in BOOLEAN : [r.chk EXCEPT !.en = b] \in Chk(ChkFull) /\ [r.agt EXCEPT !.en = b] \in Chk(AgtFull)
  BY <1>1, Healths, CheckFields, Zenon
<1>3. vpast' \subseteq vpast \cup {<<s, "disabled">>}
  BY DEF AdminCheck
<1>4. \/ server' = [server EXCEPT ![s] = [r EXCEPT !.chk = [r.chk EXCEPT !.en = ~r.chk.en]]]
      \/ server' = [server EXCEPT ![s] = [r EXCEPT !.agt = [r.agt EXCEPT !.en = ~r.agt.en]]]
  BY DEF AdminCheck
<1>5. (~r.chk.en) \in BOOLEAN /\ (~r.agt.en) \in BOOLEAN
  OBVIOUS
<1>6. /\ Settled([r EXCEPT !.chk = [r.chk EXCEPT !.en = ~r.chk.en]])
      /\ Settled([r EXCEPT !.agt = [r.agt EXCEPT !.en = ~r.agt.en]])
  BY <1>1, <1>2, <1>5, ChecksOnly, Zenon
<1> QED
  BY <1>1, <1>3, <1>4, <1>6, OneRecord

LEMMA Reweighted ==
  ASSUME VInv, NEW s \in VServers, NEW r \in {server[s], [server[s] EXCEPT !.uw = 1 - @]}, NEW slow,
         server' = [server EXCEPT ![s] = update(s, server_recalc_eweight(r, slow))],
         vcalls' = vcalls, vpast' = vpast
  PROVE  VInv'
<1>1. Settled(server[s]) /\ server[s] \in SrvRec
  BY DEF VInv
<1>2. /\ r \in SrvRec /\ r.cs = server[s].cs /\ r.ns = server[s].ns /\ r.ca = server[s].ca
      /\ r.cw = server[s].cw /\ r.lb = server[s].lb
  BY <1>1 DEF SrvRec
<1>3. is_usable(r) = is_usable(server[s])
  BY <1>2, Zenon DEF is_usable
<1>4. PICK d : /\ d = server_recalc_eweight(r, slow)
               /\ d \in SrvRec /\ d.cs = r.cs /\ d.ca = r.ca /\ d.lb = r.lb /\ is_usable(d) = is_usable(r)
               /\ d.ns = IF r.ns = "STARTING" /\ (r.aged \/ ~slow) THEN "RUNNING" ELSE r.ns
  BY <1>2, Recalc
<1>5. Ready(d)
  BY <1>1, <1>2, <1>3, <1>4 DEF Ready, Settled, InMaint
<1>6. PICK x : x = update(s, d)
  OBVIOUS
<1>7. Settled(x)
  BY <1>5, <1>6, Updated DEF update
<1>8. server' = [server EXCEPT ![s] = x]
  BY <1>4, <1>6
<1> QED
  BY <1>7, <1>8, OneRecord, Zenon

LEMMA KeepWeights ==
  ASSUME VInv, NEW s \in VServers, SetWeight(s) \/ Warmup(s)
  PROVE  VInv'
<1> DEFINE r == [server[s] EXCEPT !.uw = 1 - @]
<1>1. vcalls' = vcalls /\ vpast' = vpast
  BY Zenon DEF SetWeight, Warmup
<1>2. CASE SetWeight(s)
  <2>1. server' = [server EXCEPT ![s] = update(s, server_recalc_eweight(r, slow_start(s)))]
    BY <1>2, Zenon DEF SetWeight
  <2> HIDE DEF r
  <2>2. r \in {server[s], [server[s] EXCEPT !.uw = 1 - @]}
    BY Zenon DEF r
  <2> QED
    BY <1>1, <2>1, <2>2, Reweighted, Zenon
<1>3. CASE Warmup(s)
  <2>1. server' = [server EXCEPT ![s] = update(s, server_recalc_eweight(server[s], TRUE))]
    BY <1>3 DEF Warmup, VInv
  <2> QED
    BY <1>1, <2>1, Reweighted, Zenon
<1> QED
  BY <1>2, <1>3

LEMMA KeepSlowStartOver ==
  ASSUME VInv, NEW s \in VServers, SlowStartOver(s)
  PROVE  VInv'
<1>1. Settled(server[s]) /\ vcalls' = vcalls /\ vpast' = vpast
  BY DEF VInv, SlowStartOver
<1>2. server' = [server EXCEPT ![s] = [server[s] EXCEPT !.aged = TRUE]]
  BY DEF SlowStartOver, VInv
<1> QED
  BY <1>1, <1>2, ChecksOnly, OneRecord, Zenon

LEMMA KeepStartCheck ==
  ASSUME VInv, NEW s \in VServers, StartCheck(s)
  PROVE  VInv'
<1> DEFINE r == server[s]
           c == [r.chk EXCEPT !.ip = TRUE, !.res = "unknown"]
           a == [r.agt EXCEPT !.ip = TRUE, !.res = "unknown"]
<1>1. Settled(r) /\ r.chk \in Chk(ChkFull) /\ r.agt \in Chk(AgtFull) /\ vcalls' = vcalls /\ vpast' = vpast
  BY DEF VInv, Settled, Ready, SrvRec, StartCheck
<1>2. c \in Chk(ChkFull) /\ a \in Chk(AgtFull)
  BY <1>1, Healths, CheckFields, Zenon
<1>3. \/ server' = [server EXCEPT ![s] = [r EXCEPT !.chk = c]]
      \/ server' = [server EXCEPT ![s] = [r EXCEPT !.agt = a]]
  <2>1. CASE server' = [server EXCEPT ![s].chk.ip = TRUE, ![s].chk.res = "unknown"]
    BY <2>1, Zenon
  <2>2. CASE server' = [server EXCEPT ![s].agt.ip = TRUE, ![s].agt.res = "unknown"]
    BY <2>2, Zenon
  <2> QED
    BY <2>1, <2>2, Zenon DEF StartCheck
<1> HIDE DEF c, a
<1>4. Settled([r EXCEPT !.chk = c]) /\ Settled([r EXCEPT !.agt = a])
  BY <1>1, <1>2, ChecksOnly, Zenon
<1> QED
  BY <1>1, <1>3, <1>4, OneRecord

LEMMA KeepCheckResult ==
  ASSUME VInv, NEW s \in VServers, CheckResult(s)
  PROVE  VInv'
<1> DEFINE r == server[s]
<1>1. Settled(r) /\ r.chk \in Chk(ChkFull) /\ vcalls' = vcalls /\ vpast' = vpast
  BY DEF VInv, Settled, Ready, SrvRec, CheckResult
<1>2. PICK res \in {"passed", "failed", "condpass"} :
        server' = [server EXCEPT ![s] = [r EXCEPT !.chk = set_check_status(r.chk, res, Rise, ChkFull, TRUE)]]
  BY Zenon DEF CheckResult
<1>3. PICK c \in Chk(ChkFull) : c = set_check_status(r.chk, res, Rise, ChkFull, TRUE)
  BY <1>1, <1>2, Healths, CheckStatus, Zenon
<1>4. server' = [server EXCEPT ![s] = [r EXCEPT !.chk = c]]
  BY <1>2, <1>3
<1> QED
  BY <1>1, <1>4, ChecksOnly, OneRecord, Zenon

LEMMA KeepAgentReply ==
  ASSUME VInv, NEW s \in VServers, AgentReply(s)
  PROVE  VInv'
<1> DEFINE r == server[s]
<1>1. Settled(r) /\ r.chk \in Chk(ChkFull) /\ r.agt \in Chk(AgtFull) /\ vcalls' = vcalls /\ vpast' = vpast
  BY DEF VInv, Settled, Ready, SrvRec, AgentReply
<1>2. PICK up \in BOOLEAN :
        \/ server' = [server EXCEPT
             ![s].chk.hl = IF up THEN ChkFull ELSE 0,
             ![s].agt = [set_check_status(@, IF up THEN "passed" ELSE "failed", ARise, AgtFull, TRUE)
                           EXCEPT !.l7 = TRUE]]
        \/ server' = [server EXCEPT ![s].agt.res = "neutral", ![s].agt.l7 = FALSE]
  BY Zenon DEF AgentReply
<1>3. PICK res \in {"passed", "failed", "condpass"} : res = IF up THEN "passed" ELSE "failed"
  OBVIOUS
<1>4. PICK h \in 0 .. ChkFull : h = IF up THEN ChkFull ELSE 0
  BY Healths
<1>5. PICK a \in Chk(AgtFull) : a = set_check_status(r.agt, res, ARise, AgtFull, TRUE)
  BY <1>1, <1>3, Healths, CheckStatus, Zenon
<1>6. PICK b \in Chk(AgtFull) : b = [a EXCEPT !.l7 = TRUE]
  BY <1>5, Healths, CheckFields, Zenon
<1>7. PICK c \in Chk(ChkFull) : c = [r.chk EXCEPT !.hl = h]
  BY <1>1, <1>4, Healths, CheckFields, Zenon
<1>8. PICK d \in Chk(AgtFull) : d = [r.agt EXCEPT !.res = "neutral", !.l7 = FALSE]
  BY <1>1, Healths, CheckFields, Zenon
<1>9. \/ server' = [server EXCEPT ![s] = [r EXCEPT !.chk = c, !.agt = b]]
      \/ server' = [server EXCEPT ![s] = [r EXCEPT !.agt = d]]
  <2>1. CASE server' = [server EXCEPT ![s].agt.res = "neutral", ![s].agt.l7 = FALSE]
    BY <1>8, <2>1, Zenon
  <2>2. CASE server' = [server EXCEPT
             ![s].chk.hl = IF up THEN ChkFull ELSE 0,
             ![s].agt = [set_check_status(@, IF up THEN "passed" ELSE "failed", ARise, AgtFull, TRUE)
                           EXCEPT !.l7 = TRUE]]
    <3>1. server' = [server EXCEPT ![s].chk.hl = h,
             ![s].agt = [set_check_status(r.agt, res, ARise, AgtFull, TRUE) EXCEPT !.l7 = TRUE]]
      BY <1>3, <1>4, <2>2 DEF VInv, SrvRec
    <3>2. server' = [server EXCEPT ![s].chk.hl = h, ![s].agt = b]
      BY <1>5, <1>6, <3>1, Zenon
    <3> QED
      BY <1>7, <3>2, Zenon DEF VInv, SrvRec
  <2> QED
    BY <1>2, <2>1, <2>2, Zenon
<1>10. Settled([r EXCEPT !.chk = c, !.agt = b]) /\ Settled([r EXCEPT !.agt = d])
  BY <1>1, ChecksOnly, Zenon
<1> QED
  BY <1>1, <1>9, <1>10, OneRecord

LEMMA KeepEndCheck ==
  ASSUME VInv, NEW s \in VServers, EndCheck(s)
  PROVE  VInv'
<1> DEFINE c == IF server[s].chk.res # "unknown" THEN server[s].chk
                ELSE set_check_status(server[s].chk, "failed", Rise, ChkFull, TRUE)
           r == [server[s] EXCEPT !.chk = over(c)]
<1>1. Settled(server[s]) /\ server[s].chk \in Chk(ChkFull) /\ vpast' = vpast
  BY DEF VInv, Settled, Ready, SrvRec, EndCheck
<1>2. set_check_status(server[s].chk, "failed", Rise, ChkFull, TRUE) \in Chk(ChkFull)
  BY <1>1, Healths, CheckStatus, Zenon
<1>3. c \in Chk(ChkFull)
  BY <1>1, <1>2, Zenon
<1>4. perform(s, r, notify(s, r, c, FALSE))
  BY Zenon DEF EndCheck
<1> HIDE DEF c
<1>5. over(c) \in Chk(ChkFull)
  BY <1>3, Healths, CheckFields, Zenon
<1>6. Settled(r)
  BY <1>1, <1>5, ChecksOnly, Zenon
<1> HIDE DEF r
<1>7. notify(s, r, c, FALSE) \in Seq(Calls)
  BY Notified, Zenon
<1> QED
  BY <1>1, <1>4, <1>6, <1>7, OneCall, Zenon

LEMMA KeepEndAgent ==
  ASSUME VInv, NEW s \in VServers, EndAgent(s)
  PROVE  VInv'
<1> DEFINE c == IF server[s].agt.res # "unknown" THEN server[s].agt
                ELSE [server[s].agt EXCEPT !.res = "failed", !.l7 = FALSE]
           r == [server[s] EXCEPT !.agt = over(c)]
<1>1. Settled(server[s]) /\ server[s].agt \in Chk(AgtFull) /\ vpast' = vpast
  BY DEF VInv, Settled, Ready, SrvRec, EndAgent
<1>2. [server[s].agt EXCEPT !.res = "failed", !.l7 = FALSE] \in Chk(AgtFull)
  BY <1>1, Healths, CheckFields, Zenon
<1>3. c \in Chk(AgtFull)
  BY <1>1, <1>2, Zenon
<1>4. perform(s, r, notify(s, r, c, TRUE))
  BY Zenon DEF EndAgent
<1> HIDE DEF c
<1>5. over(c) \in Chk(AgtFull)
  BY <1>3, Healths, CheckFields, Zenon
<1>6. Settled(r)
  BY <1>1, <1>5, ChecksOnly, Zenon
<1> HIDE DEF r
<1>7. notify(s, r, c, TRUE) \in Seq(Calls)
  BY Notified, Zenon
<1> QED
  BY <1>1, <1>4, <1>6, <1>7, OneCall, Zenon

LEMMA KeepObserved ==
  ASSUME VInv, NEW s \in VServers, Observed(s)
  PROVE  VInv'
<1> DEFINE k == server[s].chk
           c == CASE OnError = "sudden-death" /\ k.hl > Rise -> [k EXCEPT !.hl = Rise + 1]
                  [] OnError = "mark-down" -> [k EXCEPT !.hl = Rise]
                  [] OTHER -> k
           f == set_check_status(c, "failed", Rise, ChkFull, TRUE)
           g == IF f.ip THEN f ELSE over(f)
           r == [server[s] EXCEPT !.chk = g]
<1>1. Settled(server[s]) /\ k \in Chk(ChkFull) /\ vpast' \subseteq vpast \cup {<<s, "observed">>}
  <2>1. Settled(server[s]) /\ server[s] \in SrvRec
    BY DEF VInv
  <2>2. vpast' \subseteq vpast \cup {<<s, "observed">>}
    BY DEF Observed
  <2> QED
    BY <2>1, <2>2 DEF SrvRec
<1>2. c \in Chk(ChkFull)
  <2>1. k.hl \in 0 .. ChkFull
    BY <1>1 DEF Chk
  <2>2. [k EXCEPT !.hl = Rise] \in Chk(ChkFull)
    BY <1>1, Healths, CheckFields, Zenon
  <2>3. ASSUME k.hl > Rise PROVE [k EXCEPT !.hl = Rise + 1] \in Chk(ChkFull)
    <3>1. PICK h \in 0 .. ChkFull : h = Rise + 1
      BY <2>1, <2>3, Healths
    <3>2. [k EXCEPT !.hl = h] \in Chk(ChkFull)
      BY <1>1, Healths, CheckFields, Zenon
    <3> QED
      BY <3>1, <3>2, Zenon
  <2> HIDE DEF k
  <2>4. c = k \/ c = [k EXCEPT !.hl = Rise] \/ (k.hl > Rise /\ c = [k EXCEPT !.hl = Rise + 1])
    OBVIOUS
  <2> HIDE DEF c
  <2> QED
    BY <1>1, <2>2, <2>3, <2>4, ZenonT(30)
<1>3. perform(s, r, notify(s, r, f, FALSE))
  BY Zenon DEF Observed
<1> HIDE DEF c
<1>4. f \in Chk(ChkFull)
  BY <1>2, Healths, CheckStatus, Zenon
<1> HIDE DEF f
<1>5. over(f) \in Chk(ChkFull)
  BY <1>4, Healths, CheckFields, Zenon
<1>6. g \in Chk(ChkFull)
  BY <1>4, <1>5, Zenon
<1> HIDE DEF g
<1>7. Settled(r)
  BY <1>1, <1>6, ChecksOnly, Zenon
<1> HIDE DEF r
<1>8. notify(s, r, f, FALSE) \in Seq(Calls)
  BY Notified, Zenon
<1> QED
  BY <1>1, <1>3, <1>7, <1>8, OneCall, ZenonT(30)

LEMMA VInvInit ==
  VInit => VInv
<1> SUFFICES ASSUME VInit PROVE VInv
  OBVIOUS
<1> DEFINE c(s) == [idle_check(s \in Checked) EXCEPT !.hl = Rise]
           a(s) == [idle_check(s \in Agented) EXCEPT !.hl = ARise]
           r(s) == [cs |-> "RUNNING", ns |-> "RUNNING", ca |-> {}, na |-> {}, cw |-> 2, nw |-> 2, uw |-> 1,
                    aged |-> TRUE, lb |-> TRUE, chk |-> c(s), agt |-> a(s)]
<1>1. ASSUME NEW s \in VServers PROVE r(s) \in SrvRec /\ Settled(r(s))
  <2>1. c(s) \in Chk(ChkFull) /\ a(s) \in Chk(AgtFull)
    <3>1. \A b \in BOOLEAN, full \in Nat : \A h \in 0 .. full : [idle_check(b) EXCEPT !.hl = h] \in Chk(full)
      BY Zenon DEF Chk, idle_check
    <3>2. (s \in Checked) \in BOOLEAN
      OBVIOUS
    <3>3. (s \in Agented) \in BOOLEAN
      BY SMTT(30)
    <3> QED
      BY <3>1, <3>2, <3>3, Healths, Zenon
  <2> HIDE DEF c, a
  <2>3. r(s) \in SrvRec
    BY <2>1 DEF SrvRec, SrvStates, Flags
  <2>4. is_usable(r(s)) = TRUE
    BY DEF is_usable, usable
  <2>5. /\ r(s).cs = r(s).ns /\ r(s).ca = r(s).na /\ r(s).cw = r(s).nw /\ r(s).lb = TRUE /\ r(s).ca = {}
    OBVIOUS
  <2> HIDE DEF r
  <2> QED
    BY <2>3, <2>4, <2>5, Zenon DEF Settled, Ready, InMaint
<1>2. server = [s \in VServers |-> r(s)] /\ vcalls = [s \in VServers |-> <<>>] /\ vpast = {}
  BY Zenon DEF VInit
<1> HIDE DEF r
<1>3. <<>> \in Seq(Calls)
  OBVIOUS
<1> QED
  BY <1>1, <1>2, <1>3 DEF VInv

(***************************************************************************)
(* srv_update_status() leaves nothing behind: whatever the order of the    *)
(* state, maintenance, drain and weight changes that checks, agents,       *)
(* operators and tracked servers decide, each server's current state and   *)
(* flags are those decided, and the load balancer has exactly the usable   *)
(* servers.  This for any servers, tracking, rise and fall, operations.    *)
(***************************************************************************)
THEOREM StatusStaysApplied ==
  VSpec => []StatusApplied
<1>1. VInv /\ [VNext]_vVars => VInv'
  <2> SUFFICES ASSUME VInv, [VNext]_vVars PROVE VInv'
    OBVIOUS
  <2>1. CASE UNCHANGED vVars
    BY <2>1 DEF vVars, VInv
  <2>2. CASE VNext
    <3>1. PICK s \in VServers :
            \/ Propagate(s) \/ AdminState(s) \/ AdminHealth(s) \/ AdminCheck(s) \/ SetWeight(s)
            \/ Warmup(s) \/ SlowStartOver(s) \/ StartCheck(s) \/ CheckResult(s) \/ AgentReply(s)
            \/ EndCheck(s) \/ EndAgent(s) \/ Observed(s)
      BY <2>2 DEF VNext
    <3> QED
      BY SMTT(30), <3>1, KeepPropagate, KeepAdminState, KeepAdminHealth, KeepAdminCheck, KeepWeights,
         KeepSlowStartOver, KeepStartCheck, KeepCheckResult, KeepAgentReply, KeepEndCheck,
         KeepEndAgent, KeepObserved
  <2> QED
    BY <2>1, <2>2
<1>2. VInv => StatusApplied
  <2> SUFFICES ASSUME VInv PROVE StatusApplied
    OBVIOUS
  <2>1. ASSUME NEW s \in VServers
        PROVE  /\ server[s].cs \in SrvStates /\ server[s].ns \in SrvStates
               /\ server[s].ca \subseteq Flags /\ server[s].na \subseteq Flags
               /\ server[s].chk.hl \in 0 .. ChkFull /\ server[s].agt.hl \in 0 .. AgtFull
               /\ Settled(server[s])
    BY SMTT(30) DEF VInv, SrvRec, Chk
  <2>2. VTypeOK
    BY <2>1, SMTT(30) DEF VTypeOK, VInv, SrvStates, Flags
  <2>3. LbExact
    BY <2>1 DEF LbExact, Settled, Ready, InMaint
  <2> QED
    BY <2>2, <2>3 DEF StatusApplied
<1> QED
  BY VInvInit, <1>1, <1>2, PTL DEF VSpec
=============================================================================
