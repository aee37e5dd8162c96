----------------------------- MODULE ShctxLock -----------------------------
(***************************************************************************)
(* The lock of a shared context, _shctx_lock() and _shctx_unlock() of      *)
(* src/include/proto/shctx.h, with the futex: waiters is 0 when free, 1    *)
(* when taken, 2 when taken and perhaps waited for.  Each atomic operation *)
(* and each system call is a step.  FUTEX_WAIT sleeps when the word is     *)
(* still 2 and returns otherwise; FUTEX_WAKE wakes one sleeper, if any.    *)
(***************************************************************************)
EXTENDS Naturals, FiniteSets

CONSTANT Lockers

VARIABLES
    waiters,    \* shctx->waiters
    slept,      \* the lockers asleep in the kernel on its address
    lkpc        \* where each locker is

lockVars == <<waiters, slept, lkpc>>

LkInit ==
    /\ waiters = 0
    /\ slept = {}
    /\ lkpc = [p \in Lockers |-> "out"]

step(p, a, b) == lkpc[p] = a /\ lkpc' = [lkpc EXCEPT ![p] = b]

(* x = cmpxchg(&waiters, 0, 1): taken, to be marked, or already marked. *)
TryLock(p) ==
    /\ step(p, "out", CASE waiters = 0 -> "in" [] waiters = 1 -> "mark" [] waiters = 2 -> "wait")
    /\ waiters' = IF waiters = 0 THEN 1 ELSE waiters
    /\ UNCHANGED slept

(* A mutant: the lock is taken again as if nobody else waited. *)
MarkOne(p) ==
    /\ step(p, "mark", IF waiters = 0 THEN "in" ELSE "wait")
    /\ waiters' = IF waiters = 0 THEN 1 ELSE 2
    /\ UNCHANGED slept

(* x = xchg(&waiters, 2): the lock is taken when it was free. *)
Mark(p) ==
    /\ step(p, "mark", IF waiters = 0 THEN "in" ELSE "wait")
    /\ waiters' = 2
    /\ UNCHANGED slept

FutexWait(p) ==
    /\ \/ waiters = 2 /\ step(p, "wait", "asleep") /\ slept' = slept \cup {p}
       \/ waiters # 2 /\ step(p, "wait", "mark") /\ UNCHANGED slept
    /\ UNCHANGED waiters

(* atomic_dec(&waiters). *)
Dec(p) ==
    /\ waiters' = waiters - 1
    /\ step(p, "in", IF waiters' # 0 THEN "clear" ELSE "out")
    /\ UNCHANGED slept

Clear(p) ==
    /\ step(p, "clear", "wake")
    /\ waiters' = 0
    /\ UNCHANGED slept

FutexWake(p) ==
    /\ \/ slept = {} /\ step(p, "wake", "out") /\ UNCHANGED slept
       \/ \E q \in slept :
            /\ lkpc[p] = "wake"
            /\ lkpc' = [lkpc EXCEPT ![p] = "out", ![q] = "mark"]
            /\ slept' = slept \ {q}
    /\ UNCHANGED waiters

LkStep(p) == Mark(p) \/ FutexWait(p) \/ Dec(p) \/ Clear(p) \/ FutexWake(p)

LkNext == \E p \in Lockers : TryLock(p) \/ LkStep(p)

LkSpec == LkInit /\ [][LkNext]_lockVars
-----------------------------------------------------------------------------
(* One locker at a time is between _shctx_lock() and the end of its          *)
(* atomic_dec(): the section is not entered while another one is in it, nor  *)
(* in the time the word is 1 on its way from 2 to 0.                         *)
LockExclusive ==
    Cardinality({p \in Lockers : lkpc[p] \in {"in", "clear"}}) <= 1

(* Nobody sleeps on a free lock that no one is about to take or to wake:     *)
(* whoever took it after a sleeper marked it 2 again, for the next unlock to *)
(* wake another one.                                                         *)
SleeperSeen ==
    slept # {} => \/ waiters = 2
                  \/ \E p \in Lockers : lkpc[p] \in {"clear", "wake", "mark"}

(* The futex lock is a lock: one owner at a time (_shctx_lock()), and no      *)
(* sleeper that nobody will wake (_shctx_unlock()).                          *)
LockSound == LockExclusive /\ SleeperSeen
=============================================================================
