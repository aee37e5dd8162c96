-------------------------------- MODULE FreqCtr --------------------------------
(***************************************************************************)
(* The frequency counters, include/proto/freq_ctr.h and src/freq_ctr.c:    *)
(* update_freq_ctr() for a period of one second, update_freq_ctr_period()  *)
(* for any other one, and the loop with which read_freq_ctr(),             *)
(* freq_ctr_remain(), next_event_delay() and their _period variants copy a *)
(* counter without taking its lock.                                        *)
(*                                                                         *)
(* A bit of the date of the counter (curr_sec or curr_tick) is its lock.   *)
(* Each thread works with the date it computed after its last poll, which  *)
(* may be behind the date of another one (module Clock).                   *)
(***************************************************************************)
EXTENDS Integers

CONSTANTS
    CtrThreads, \* the threads
    Period,     \* the period given to update_freq_ctr_period(), in ticks
    CtrWrap,    \* modulus of the dates: 2^31 for curr_sec, 2^32 for curr_tick
    FirstDate,  \* the date of the threads when the counter is still zeroed
    MaxTicks,   \* bound: ticks after FirstDate
    MaxAdds     \* bound: events counted

(* The lowest bit of a date in ticks is the lock: a period is two ticks at least. *)
ASSUME CtrAssumption ==
    /\ Period \in Nat /\ Period >= 2
    /\ CtrWrap \in Nat /\ CtrWrap >= 2 /\ CtrWrap % 2 = 0
    /\ FirstDate \in Nat /\ MaxTicks \in Nat /\ MaxAdds \in Nat

VARIABLES
    kind,       \* "second": struct freq_ctr, "period": struct freq_ctr_period
    curr, prev, \* curr_ctr and prev_ctr
    curr_date,  \* curr_sec or curr_tick, without the lock bit
    locked,     \* the lock bit
    absolute,   \* curr_date before it is reduced modulo CtrWrap
    clk,        \* the date of the thread that polled last
    tnow,       \* per thread: its date
    ctrupd,     \* per thread: pc and the local date (and its absolute value)
    copy,       \* per thread: pc and the locals of the reading loop
    added,      \* events counted
    dropped,    \* events that the rotations have discarded
    crossed     \* threads since whose look at the date one with an earlier date has rotated

ctrVars == <<kind, curr, prev, curr_date, locked, absolute, clk, tnow, ctrupd, copy,
             added, dropped, crossed>>
counter == <<kind, curr, prev, curr_date, locked, absolute>>

not_updating == [pc |-> "out", date |-> 0, abs |-> 0]
no_copy == [pc |-> "out", c |-> 0, p |-> 0, d |-> 0, c2 |-> 0, p2 |-> 0, abs |-> 0]

CtrInit ==
    /\ kind \in {"second", "period"}
    /\ curr = 0
    /\ prev = 0
    /\ curr_date = 0
    /\ locked = FALSE
    /\ absolute = 0
    /\ clk = FirstDate
    /\ tnow = [t \in CtrThreads |-> FirstDate]
    /\ ctrupd = [t \in CtrThreads |-> not_updating]
    /\ copy = [t \in CtrThreads |-> no_copy]
    /\ added = 0
    /\ dropped = 0
    /\ crossed = {}

(* Difference of two unsigned dates, the date with its lowest bit clear, the *)
(* date of a thread as the counter stores it, the sign of a difference.      *)
udiff(a, b) == (a - b) % CtrWrap
even(d) == d - (d % 2)
today(t) == tnow[t] % CtrWrap
negative(d) == d >= CtrWrap \div 2

(* The word that holds the date and the lock bit: the highest bit of         *)
(* curr_sec, the lowest one of curr_tick.                                    *)
raw_date ==
    IF ~locked THEN curr_date ELSE IF kind = "second" THEN curr_date + CtrWrap ELSE curr_date + 1

outside(t) == ctrupd[t].pc = "out" /\ copy[t].pc = "out"

(* tv_update_date(): a thread that polls gets the latest date or a new one. *)
CtrPoll(t) ==
    /\ outside(t)
    /\ \E d \in {clk, clk + 1} :
          /\ tnow[t] < d
          /\ d <= FirstDate + MaxTicks
          /\ clk' = d
          /\ tnow' = [tnow EXCEPT ![t] = d]
    /\ UNCHANGED <<counter, ctrupd, copy, added, dropped, crossed>>

(* The date is read and compared with the thread's: the event is added       *)
(* without the lock while the period lasts.                                  *)
current(t) ==
    IF kind = "second" THEN raw_date = today(t) ELSE udiff(today(t), raw_date) < Period

CtrStart(t) ==
    /\ outside(t)
    /\ added < MaxAdds
    /\ ctrupd' = [ctrupd EXCEPT ![t].pc = IF current(t) THEN "add" ELSE "lock",
                                ![t].date = IF current(t) THEN 0 ELSE curr_date]
    /\ UNCHANGED <<counter, clk, tnow, copy, added, dropped, crossed>>

(* The compare-and-swap that sets the lock bit; when it fails the date it    *)
(* read is tried, without the bit.                                           *)
CtrLock(t) ==
    /\ ctrupd[t].pc = "lock"
    /\ IF ~locked /\ curr_date = ctrupd[t].date
       THEN /\ locked' = TRUE
            /\ ctrupd' = [ctrupd EXCEPT ![t].pc = "test", ![t].abs = absolute]
       ELSE /\ ctrupd' = [ctrupd EXCEPT ![t].date = curr_date]
            /\ UNCHANGED locked
    /\ UNCHANGED <<kind, curr, prev, curr_date, absolute, clk, tnow, copy, added, dropped, crossed>>

(* The period is over: elapsed > 0 with signed integers, or                  *)
(* now_ms - curr_tick >= period with unsigned ones.                          *)
period_over(t) ==
    IF kind = "second" THEN today(t) - ctrupd[t].date > 0
                       ELSE udiff(today(t), ctrupd[t].date) >= Period

(* ctr->prev_ctr = ctr->curr_ctr if there is something to rotate *)
Rotate(t) ==
    /\ ctrupd[t].pc = "test"
    /\ IF period_over(t)
       THEN /\ dropped' = dropped + prev
            /\ prev' = curr
            /\ ctrupd' = [ctrupd EXCEPT ![t].pc = "sub"]
            /\ crossed' = IF tnow[t] < absolute THEN CtrThreads ELSE crossed
       ELSE /\ ctrupd' = [ctrupd EXCEPT ![t].pc = "unlock"]
            /\ UNCHANGED <<prev, dropped, crossed>>
    /\ UNCHANGED <<kind, curr, curr_date, locked, absolute, clk, tnow, copy, added>>

(* _HA_ATOMIC_SUB(&ctr->curr_ctr, ctr->prev_ctr): what the others have added *)
(* since prev_ctr was set stays.                                             *)
Sub(t) ==
    /\ ctrupd[t].pc = "sub"
    /\ curr' = curr - prev
    /\ ctrupd' = [ctrupd EXCEPT ![t].pc = "missed"]
    /\ UNCHANGED <<kind, prev, curr_date, locked, absolute, clk, tnow, copy, added, dropped, crossed>>

(* More than one period was missed: nothing of the last one is kept, and the *)
(* new period begins now.                                                    *)
missed(t) ==
    IF kind = "second" THEN today(t) - ctrupd[t].date # 1
                       ELSE udiff(today(t), ctrupd[t].date + Period) >= Period

new_date(t, here, from) ==
    IF kind = "second" THEN here ELSE even(IF missed(t) THEN here ELSE from + Period)

Missed(t) ==
    /\ ctrupd[t].pc = "missed"
    /\ prev' = IF missed(t) THEN 0 ELSE prev
    /\ dropped' = IF missed(t) THEN dropped + prev ELSE dropped
    /\ ctrupd' = [ctrupd EXCEPT ![t] =
                    [pc |-> "unlock", date |-> new_date(t, today(t), @.date) % CtrWrap,
                     abs |-> new_date(t, tnow[t], @.abs)]]
    /\ UNCHANGED <<kind, curr, curr_date, locked, absolute, clk, tnow, copy, added, crossed>>

CtrUnlock(t) ==
    /\ ctrupd[t].pc = "unlock"
    /\ curr_date' = ctrupd[t].date
    /\ absolute' = ctrupd[t].abs
    /\ locked' = FALSE
    /\ ctrupd' = [ctrupd EXCEPT ![t] = [not_updating EXCEPT !.pc = "add"]]
    /\ UNCHANGED <<kind, curr, prev, clk, tnow, copy, added, dropped, crossed>>

(* _HA_ATOMIC_ADD(&ctr->curr_ctr, inc) *)
CtrAdd(t) ==
    /\ ctrupd[t].pc = "add"
    /\ added < MaxAdds
    /\ curr' = curr + 1
    /\ added' = added + 1
    /\ ctrupd' = [ctrupd EXCEPT ![t] = not_updating]
    /\ UNCHANGED <<kind, prev, curr_date, locked, absolute, clk, tnow, copy, dropped, crossed>>

(* The reading loop, one load after the other. *)
loads(t, from) ==
    /\ copy[t].pc = from
    /\ crossed' = IF from = "date" /\ ~locked THEN crossed \ {t} ELSE crossed
    /\ UNCHANGED <<counter, clk, tnow, ctrupd, added, dropped>>

ReadStart(t) == outside(t) /\ loads(t, "out") /\ copy' = [copy EXCEPT ![t].pc = "past", ![t].c = curr]
ReadCurr(t) == loads(t, "curr") /\ copy' = [copy EXCEPT ![t].pc = "past", ![t].c = curr]
ReadPast(t) == loads(t, "past") /\ copy' = [copy EXCEPT ![t].pc = "date", ![t].p = prev]

(* A mutant: the lock bit is not looked at. *)
ReadDateAny(t) ==
    /\ loads(t, "date")
    /\ copy' = [copy EXCEPT ![t].pc = "curr2", ![t].d = raw_date, ![t].abs = absolute]

(* The loop starts again when the date is locked *)
ReadDate(t) ==
    /\ loads(t, "date")
    /\ copy' = [copy EXCEPT ![t] = IF locked THEN [no_copy EXCEPT !.pc = "curr"]
                                             ELSE [@ EXCEPT !.pc = "curr2", !.d = raw_date, !.abs = absolute]]

ReadCurr2(t) == loads(t, "curr2") /\ copy' = [copy EXCEPT ![t].pc = "past2", ![t].c2 = curr]
ReadPast2(t) == loads(t, "past2") /\ copy' = [copy EXCEPT ![t].pc = "date2", ![t].p2 = prev]

(* ... and when a value has changed.  Otherwise the three of them are used.  *)
ReadDate2(t) ==
    /\ loads(t, "date2")
    /\ copy' = [copy EXCEPT ![t] = IF @.c = @.c2 /\ @.p = @.p2 /\ @.d = raw_date
                                   THEN [@ EXCEPT !.pc = "use"]
                                   ELSE [no_copy EXCEPT !.pc = "curr"]]

(* Nothing of the counter is of this period or of the last one: the age is   *)
(* an unsigned integer computed with the whole of now.tv_sec; the time that  *)
(* remains is a signed one.                                                  *)
too_old(t, d) ==
    IF kind = "second" THEN tnow[t] - d \notin {0, 1}
                       ELSE /\ negative(udiff(d + Period, today(t)))
                            /\ negative(udiff(d + 2 * Period, today(t)))

ReadUse(t) == loads(t, "use") /\ copy' = [copy EXCEPT ![t] = no_copy]

CtrStep(t) ==
    \/ CtrPoll(t)
    \/ CtrStart(t) \/ CtrLock(t) \/ Rotate(t) \/ Sub(t) \/ Missed(t) \/ CtrUnlock(t) \/ CtrAdd(t)
    \/ ReadStart(t) \/ ReadCurr(t) \/ ReadPast(t) \/ ReadDate(t)
    \/ ReadCurr2(t) \/ ReadPast2(t) \/ ReadDate2(t) \/ ReadUse(t)

CtrNext == \E t \in CtrThreads : CtrStep(t)

CtrSpec == CtrInit /\ [][CtrNext]_ctrVars

--------------------------------------------------------------------------------

(* No event is lost or counted twice, though curr_ctr is incremented without *)
(* the lock while another thread rotates the counter: the two counters and   *)
(* the periods that were discarded hold all the events (prev_ctr is a copy   *)
(* until it is subtracted).                                                  *)
EventsCounted ==
    curr + dropped + (IF \E t \in CtrThreads : ctrupd[t].pc = "sub" THEN 0 ELSE prev) = added

(* A copy that the reading loop accepts is one the counter had: the last     *)
(* period's count belongs to the date that was read with it, and the count   *)
(* of the current period is not of an earlier one (unless the date went once *)
(* round between the two looks, or, between them, a thread whose date was    *)
(* behind moved it back, and another one to where it was).                   *)
CopyExact ==
    [][\A t \in CtrThreads :
          copy[t].pc = "date2" /\ copy'[t].pc = "use" =>
              \/ ~locked /\ copy[t].p = prev /\ copy[t].c <= curr
              \/ absolute >= copy[t].abs + CtrWrap
              \/ t \in crossed]_ctrVars

(* "It is automatically rotated if the period is over" (freq_ctr.h:32): a    *)
(* thread that adds an event after it took the lock leaves a counter whose   *)
(* period has begun at most one period before its date, and a tick more when *)
(* the period is odd, as the dates are even.  Seconds stop being counted     *)
(* apart when the date exceeds 31 bits: its remainder is then before the     *)
(* date of the counter, whose period seems not to be over.  So does the      *)
(* period of a counter that was left alone until the dates went once round.  *)
RotatedInTime ==
    [][\A t \in CtrThreads :
          ctrupd[t].pc = "unlock" /\ ctrupd'[t].pc = "add" =>
              \/ tnow[t] - absolute' < (IF kind = "second" THEN 1 ELSE Period + (Period % 2))
              \/ kind = "second" /\ tnow[t] >= CtrWrap
              \/ tnow[t] >= absolute + CtrWrap]_ctrVars

(* The date of a counter never moves backwards, except for a counter with a  *)
(* period of its own which a thread with an earlier date updates: the        *)
(* unsigned difference of the dates makes it look like one that was not used *)
(* for a long time (and except when the seconds exceed 31 bits).             *)
DateForward ==
    [][\/ absolute' >= absolute
       \/ kind = "period" /\ \E t \in CtrThreads :
             ctrupd[t].pc = "unlock" /\ ctrupd'[t].pc = "add" /\ tnow[t] < absolute
       \/ kind = "second" /\ clk >= CtrWrap]_ctrVars

(* A reader takes a counter for unused only if it is older than two periods, *)
(* or if its own date is behind the counter's (for ticks, by nearly half the *)
(* turn of the dates), or exceeds 31 bits.                                   *)
UnusedReason ==
    [][\A t \in CtrThreads :
          copy[t].pc = "date2" /\ copy'[t].pc = "use" /\ too_old(t, copy[t].d) =>
              \/ tnow[t] - absolute >= (IF kind = "second" THEN 2 ELSE 2 * Period)
              \/ kind = "second" /\ (tnow[t] < absolute \/ tnow[t] >= CtrWrap)
              \/ kind = "period" /\ absolute - tnow[t] >= (CtrWrap \div 2) - 2 * Period]_ctrVars

(* A frequency counter loses no event and is rotated in time (both           *)
(* update_freq_ctr()), and what is read of it is what it was at some moment  *)
(* (read_freq_ctr()), though no reader takes its lock.                       *)
CountersTrue == /\ []EventsCounted
                /\ CopyExact /\ RotatedInTime /\ DateForward /\ UnusedReason
================================================================================
