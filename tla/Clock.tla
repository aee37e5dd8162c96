--------------------------------- MODULE Clock ---------------------------------
(***************************************************************************)
(* The date of a thread, tv_update_date() of src/src/time.c.  Each thread  *)
(* keeps a date "now" which it computes from the system's date and an      *)
(* offset of its own; all of them push a common date, global_now, forward  *)
(* with a compare-and-swap.  The system's date may be set to any value     *)
(* between two calls.                                                      *)
(***************************************************************************)
EXTENDS Integers

CONSTANTS
    TmThreads,  \* the threads
    MaxWaits,   \* the time-outs passed to the poller
    MaxDelay,   \* MAX_DELAY_MS
    MaxDate     \* bound: the dates of the system and of the threads are <= MaxDate

ASSUME ClockAssumption == /\ MaxWaits \subseteq Nat /\ MaxWaits # {}
                          /\ MaxDelay \in Nat /\ MaxDate \in Nat

VARIABLES
    global_now, \* the common date; 0 while it was never set
    now,        \* per thread: its date; 0 before the thread has started
    tv_offset,  \* per thread: what it adds to the system's date
    upd,        \* per thread: pc, the locals date, adjusted, old_now of the call, and
                \* floor, the value of returned when it was made
    returned    \* the latest date a call has returned, on any thread

tmVars == <<global_now, now, tv_offset, upd, returned>>

Dates == 1 .. MaxDate

no_call == [pc |-> "out", date |-> 0, adjusted |-> 0, old_now |-> 0, floor |-> 0]

latest(a, b) == IF a < b THEN b ELSE a

TmInit ==
    /\ global_now = 0
    /\ now = [t \in TmThreads |-> 0]
    /\ tv_offset = [t \in TmThreads |-> 0]
    /\ upd = [t \in TmThreads |-> no_call]
    /\ returned = 0

(* tv_update_date(-1, -1), the first call of a thread: its date is the       *)
(* system's, and global_now is set only if it never was.  The others start   *)
(* when the first one has set it.                                            *)
StartThread(t) ==
    /\ now[t] = 0
    /\ \E date \in Dates :
          /\ now' = [now EXCEPT ![t] = date]
          /\ global_now' = IF global_now = 0 THEN date ELSE global_now
    /\ tv_offset' = [tv_offset EXCEPT ![t] = 0]
    /\ UNCHANGED <<upd, returned>>

(* The date of the system and the offset give a date before the previous one *)
(* or farther than the time-out allows.                                      *)
jump(adjusted, was, max_wait) ==
    adjusted < was \/ adjusted > was + max_wait + MaxDelay

(* The local part of the call, up to the read of global_now. *)
Bound(t) ==
    /\ upd[t].pc = "out"
    /\ now[t] # 0
    /\ \E date \in Dates, max_wait \in MaxWaits, interrupted \in BOOLEAN :
          LET adjusted == date + tv_offset[t]
              kept     == IF jump(adjusted, now[t], max_wait)
                          THEN now[t] + (IF interrupted THEN 0 ELSE max_wait)
                          ELSE adjusted
          IN  /\ kept <= MaxDate
              /\ upd' = [upd EXCEPT ![t] = [pc |-> "cas", date |-> date,
                                            adjusted |-> kept, old_now |-> global_now,
                                            floor |-> returned]]
    /\ UNCHANGED <<global_now, now, tv_offset, returned>>

(* A mutant: the thread keeps its own date when global_now is later. *)
CasOwn(t) ==
    /\ upd[t].pc = "cas"
    /\ IF global_now = upd[t].old_now
       THEN /\ global_now' = latest(upd[t].adjusted, global_now)
            /\ now' = [now EXCEPT ![t] = upd[t].adjusted]
            /\ tv_offset' = [tv_offset EXCEPT ![t] = upd[t].adjusted - upd[t].date]
            /\ upd' = [upd EXCEPT ![t] = no_call]
            /\ returned' = latest(returned, now'[t])
       ELSE /\ upd' = [upd EXCEPT ![t].old_now = global_now]
            /\ UNCHANGED <<global_now, now, tv_offset, returned>>

(* One turn of the compare-and-swap loop and, when it succeeds, the end of   *)
(* the call.                                                                 *)
Cas(t) ==
    /\ upd[t].pc = "cas"
    /\ IF global_now = upd[t].old_now
       THEN /\ global_now' = latest(upd[t].adjusted, global_now)
            /\ now' = [now EXCEPT ![t] = global_now']
            /\ tv_offset' = [tv_offset EXCEPT ![t] = global_now' - upd[t].date]
            /\ upd' = [upd EXCEPT ![t] = no_call]
            /\ returned' = latest(returned, now'[t])
       ELSE /\ upd' = [upd EXCEPT ![t].old_now = global_now]
            /\ UNCHANGED <<global_now, now, tv_offset, returned>>

TmStep(t) == StartThread(t) \/ Bound(t) \/ Cas(t)

TmNext == \E t \in TmThreads : TmStep(t)

TmSpec == TmInit /\ [][TmNext]_tmVars

--------------------------------------------------------------------------------

(* The date of a thread and the common date never go backwards, whatever the *)
(* date of the system does and however the calls of the threads interleave   *)
(* ("following a monotonic function", "the global date, which only moves     *)
(* forward").                                                                *)
DatesForward ==
    [][/\ global_now' >= global_now
       /\ \A t \in TmThreads : now'[t] >= now[t]]_tmVars

(* A call that begins after another one has returned, on any thread, does    *)
(* not return an earlier date: a thread that wakes up catches up with the    *)
(* date the others have reached, even when its own offset is stale.          *)
NotBehind ==
    [][\A t \in TmThreads :
          upd[t].pc = "cas" /\ upd'[t].pc = "out" => now'[t] >= upd[t].floor]_tmVars

(* One call moves the date of a thread by at most the time-out and           *)
(* MAX_DELAY_MS, unless it catches up with the common date.                  *)
JumpsBounded ==
    [][\A t \in TmThreads :
          now[t] # 0 => \/ now'[t] <= global_now
                        \/ \E w \in MaxWaits : now'[t] <= now[t] + w + MaxDelay]_tmVars

(* Dates follow a monotonic function that is the same for all threads, with  *)
(* bounded jumps (tv_update_date()).                                         *)
DatesKept == DatesForward /\ NotBehind /\ JumpsBounded
================================================================================
