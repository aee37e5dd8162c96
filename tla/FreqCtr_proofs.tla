---------------------------- MODULE FreqCtr_proofs ----------------------------
(***************************************************************************)
(* Proofs about the frequency counters, for any number of threads, any     *)
(* period and any width of the dates.                                      *)
(***************************************************************************)
EXTENDS FreqCtr, TLAPS

(***************************************************************************)
(* The frequency counters (update_freq_ctr(), update_freq_ctr_period(),    *)
(* read_freq_ctr()).  The dates are kept modulo CtrWrap, so that arithmetic *)
(* comes first: remainders, differences of remainders, the date without    *)
(* the bit that is the lock of a counter in ticks.                         *)
(***************************************************************************)
\* What the constants are, without the parity of CtrWrap.
LEMMA CtrConstants ==
  /\ CtrWrap \in Nat /\ CtrWrap > 0
  /\ Period \in Nat /\ Period >= 2
  /\ FirstDate \in Nat
  BY CtrAssumption

\* Quotient and remainder.
LEMMA IntDivMod ==
  ASSUME NEW n \in Int, NEW w \in Nat, w > 0
  PROVE  /\ n \div w \in Int
         /\ n % w \in 0 .. w - 1
         /\ n = w * (n \div w) + (n % w)
  OBVIOUS

\* A remainder does not depend on the quotient it comes with.
LEMMA RemainderUnique ==
  ASSUME NEW w \in Nat, w > 0, NEW q \in Int, NEW r \in 0 .. w - 1,
         NEW s \in Int, NEW u \in 0 .. w - 1, w * q + r = w * s + u
  PROVE  r = u
<1>1. w * (q - s) = u - r
  OBVIOUS
<1>2. q - s < 1
  <2> SUFFICES ASSUME q - s >= 1 PROVE FALSE
    OBVIOUS
  <2>1. w * (q - s) >= w * 1
    OBVIOUS
  <2> QED BY <2>1, <1>1
<1>3. q - s > -1
  <2> SUFFICES ASSUME s - q >= 1 PROVE FALSE
    OBVIOUS
  <2>1. w * (s - q) >= w * 1
    OBVIOUS
  <2>2. w * (s - q) = r - u
    BY <1>1
  <2> QED BY <2>1, <2>2
<1>4. q - s = 0
  BY <1>2, <1>3
<1> QED
  BY <1>1, <1>4

\* A whole number of turns does not change a remainder.
LEMMA ModShift ==
  ASSUME NEW n \in Int, NEW w \in Nat, w > 0, NEW k \in Int
  PROVE  (n + w * k) % w = n % w
<1> DEFINE m == n + w * k
<1>1. m \in Int
  OBVIOUS
<1>2. n = w * (n \div w) + (n % w) /\ n \div w \in Int /\ n % w \in 0 .. w - 1
  BY IntDivMod
<1>3. m = w * (m \div w) + (m % w) /\ m \div w \in Int /\ m % w \in 0 .. w - 1
  BY <1>1, IntDivMod
<1>4. w * (m \div w) + (m % w) = w * (n \div w + k) + (n % w)
  BY <1>2, <1>3
<1>5. n \div w + k \in Int
  BY <1>2
<1> HIDE DEF m
<1>6. m % w = n % w
  BY <1>2, <1>3, <1>4, <1>5, RemainderUnique, Zenon
<1> QED
  BY <1>6 DEF m

\* The remainder of a number that is less than the modulus is the number.
LEMMA ModSmall ==
  ASSUME NEW n \in Nat, NEW w \in Nat, w > 0
  PROVE  /\ n % w <= n
         /\ n < w => n % w = n
         /\ (n % w) % w = n % w
  OBVIOUS

\* Dates less than a turn apart with the same remainder are the same date.
LEMMA ModClose ==
  ASSUME NEW n \in Nat, NEW m \in Nat, NEW w \in Nat, w > 0,
         n % w = m % w, n <= m, m < n + w
  PROVE  n = m
<1>1. n = w * (n \div w) + (n % w) /\ n \div w \in Int /\ n % w \in 0 .. w - 1
  BY IntDivMod
<1>2. m = w * (m \div w) + (m % w) /\ m \div w \in Int
  BY IntDivMod
<1> DEFINE q == m \div w - n \div w
           r == m - n
<1>3. w * q = r /\ q \in Int
  BY <1>1, <1>2
<1>4. r \in 0 .. w - 1
  OBVIOUS
<1> HIDE DEF q, r
<1>5. w * q + 0 = w * 0 + r
  BY <1>3, <1>4
<1>6. 0 \in 0 .. w - 1 /\ 0 \in Int
  OBVIOUS
<1>7. 0 = r
  BY <1>3, <1>4, <1>5, <1>6, RemainderUnique
<1> QED BY <1>7 DEF r

\* The dates of the counter, reduced, are as far apart as the dates.
LEMMA DatesApart ==
  ASSUME NEW a \in Int, NEW b \in Int, NEW k \in Int
  PROVE  /\ udiff((a % CtrWrap) + k, b % CtrWrap) = ((a + k) - b) % CtrWrap
         /\ udiff(b % CtrWrap, (a % CtrWrap) + k) = (b - (a + k)) % CtrWrap
<1>1. CtrWrap \in Nat /\ CtrWrap > 0
  BY CtrConstants
<1>2. a = CtrWrap * (a \div CtrWrap) + (a % CtrWrap) /\ a \div CtrWrap \in Int /\ a % CtrWrap \in Int
  BY <1>1, IntDivMod
<1>3. b = CtrWrap * (b \div CtrWrap) + (b % CtrWrap) /\ b \div CtrWrap \in Int /\ b % CtrWrap \in Int
  BY <1>1, IntDivMod
<1> DEFINE j == b \div CtrWrap - a \div CtrWrap
           i == a \div CtrWrap - b \div CtrWrap
           x == (a + k) - b
           y == ((a % CtrWrap) + k) - (b % CtrWrap)
           v == b - (a + k)
           z == (b % CtrWrap) - ((a % CtrWrap) + k)
<1>4. y = x + CtrWrap * j /\ j \in Int /\ x \in Int
  BY <1>1, <1>2, <1>3
<1>5. z = v + CtrWrap * i /\ i \in Int /\ v \in Int
  BY <1>1, <1>2, <1>3
<1>6. /\ udiff((a % CtrWrap) + k, b % CtrWrap) = y % CtrWrap
      /\ udiff(b % CtrWrap, (a % CtrWrap) + k) = z % CtrWrap
  BY Zenon DEF udiff
<1> HIDE DEF i, j, x, y, z, v
<1>7. y % CtrWrap = x % CtrWrap
  BY <1>1, <1>4, ModShift, Zenon
<1>8. z % CtrWrap = v % CtrWrap
  BY <1>1, <1>5, ModShift, Zenon
<1> QED
  BY <1>6, <1>7, <1>8, Zenon DEF x, v

\* The same without an offset.
LEMMA DatesDiffer ==
  ASSUME NEW a \in Int, NEW b \in Int
  PROVE  udiff(a % CtrWrap, b % CtrWrap) = (a - b) % CtrWrap
<1>1. CtrWrap \in Nat /\ CtrWrap > 0
  BY CtrConstants
<1>2. a = CtrWrap * (a \div CtrWrap) + (a % CtrWrap) /\ a \div CtrWrap \in Int /\ a % CtrWrap \in Int
  BY <1>1, IntDivMod
<1>3. b = CtrWrap * (b \div CtrWrap) + (b % CtrWrap) /\ b \div CtrWrap \in Int /\ b % CtrWrap \in Int
  BY <1>1, IntDivMod
<1> DEFINE j == b \div CtrWrap - a \div CtrWrap
           x == a - b
           y == (a % CtrWrap) - (b % CtrWrap)
<1>4. y = x + CtrWrap * j /\ j \in Int /\ x \in Int
  BY <1>1, <1>2, <1>3
<1>5. udiff(a % CtrWrap, b % CtrWrap) = y % CtrWrap
  BY Zenon DEF udiff
<1> HIDE DEF j, x, y
<1>6. y % CtrWrap = x % CtrWrap
  BY <1>1, <1>4, ModShift, Zenon
<1> QED
  BY <1>5, <1>6, Zenon DEF x

\* CtrWrap is even: a whole number of turns leaves the lowest bit alone.
LEMMA EvenShift ==
  ASSUME NEW n \in Int, NEW k \in Int
  PROVE  even(n + CtrWrap * k) = even(n) + CtrWrap * k
<1>1. CtrWrap \in Nat /\ CtrWrap % 2 = 0
  BY CtrAssumption
<1>2. PICK h \in Int : CtrWrap = 2 * h
  BY <1>1
<1>3. CtrWrap * k = 2 * (h * k) /\ h * k \in Int
  BY <1>2
<1>4. (n + 2 * (h * k)) % 2 = n % 2
  BY <1>3, ModShift
<1> QED
  BY <1>3, <1>4 DEF even

\* Dates that are equal once reduced still are without their lowest bit.
LEMMA EvenMod ==
  ASSUME NEW m \in Int, NEW n \in Int, NEW q \in Int, n = m + CtrWrap * q
  PROVE  even(m) % CtrWrap = even(n) % CtrWrap
<1>1. CtrWrap \in Nat /\ CtrWrap > 0
  BY CtrConstants
<1>2. even(n) = even(m) + CtrWrap * q
  BY EvenShift
<1> DEFINE e == even(m)
<1>3. e \in Int
  BY DEF even
<1> HIDE DEF e
<1>4. (e + CtrWrap * q) % CtrWrap = e % CtrWrap
  BY <1>1, <1>3, ModShift, Zenon
<1> QED BY <1>2, <1>4, Zenon DEF e

\* What clearing the lowest bit does (curr_tick &= ~1).
LEMMA EvenFacts ==
  ASSUME NEW n \in Nat
  PROVE  /\ even(n) \in Nat /\ even(n) % 2 = 0
         /\ even(n) <= n /\ n <= even(n) + 1
         /\ n % 2 = 0 => even(n) = n
         /\ n % 2 = 1 => even(n) = n - 1
  BY DEF even

\* An even date is even once it is reduced.
LEMMA EvenReduced ==
  ASSUME NEW n \in Nat, n % 2 = 0
  PROVE  (n % CtrWrap) % 2 = 0
<1>1. CtrWrap \in Nat /\ CtrWrap > 0 /\ CtrWrap % 2 = 0
  BY CtrAssumption
<1>2. n = CtrWrap * (n \div CtrWrap) + (n % CtrWrap) /\ n \div CtrWrap \in Int /\ n % CtrWrap \in Nat
  BY <1>1, IntDivMod
<1>3. even((n % CtrWrap) + CtrWrap * (n \div CtrWrap)) = even(n % CtrWrap) + CtrWrap * (n \div CtrWrap)
  BY <1>2, EvenShift
<1>4. even(n) = n
  BY EvenFacts
<1>5. even(n % CtrWrap) = n % CtrWrap
  BY <1>1, <1>2, <1>3, <1>4 DEF even
<1> QED BY <1>2, <1>5, EvenFacts

(***************************************************************************)
(* The invariant of a counter.  The thread that has the lock knows its     *)
(* date; between the rotation and the new date, nothing a reader has seen  *)
(* can be accepted; and without a thread whose date is behind, every       *)
(* rotation moves the date forward, so that the same date means the same   *)
(* period.                                                                 *)
(***************************************************************************)
CtrPcs == {"out", "add", "lock", "test", "sub", "missed", "unlock"}
CopyPcs == {"out", "curr", "past", "date", "curr2", "past2", "date2", "use"}

\* The types, but for the lock bit, which is only tested.
CtrTypes ==
  /\ kind \in {"second", "period"}
  /\ curr \in Int /\ prev \in Int /\ added \in Int /\ dropped \in Int
  /\ curr_date \in Nat /\ absolute \in Nat /\ clk \in Nat
  /\ tnow \in [CtrThreads -> Nat]
  /\ ctrupd \in [CtrThreads -> [pc : CtrPcs, date : Nat, abs : Nat]]
  /\ copy \in [CtrThreads -> [pc : CopyPcs, c : Int, p : Int, d : Nat,
                               c2 : Int, p2 : Int, abs : Nat]]

\* The thread has set the lock bit.
Locker(t) == ctrupd[t].pc \in {"test", "sub", "missed", "unlock"}

\* The thread has discarded the last period and has not yet written the new date.
Rotating(t) == \/ ctrupd[t].pc \in {"sub", "missed"}
               \/ ctrupd[t].pc = "unlock" /\ ctrupd[t].abs # absolute

\* No thread is between a rotation and the new date.
NoneRotating == \A t \in CtrThreads : ~Rotating(t)

\* A thread whose date is behind the counter's found its period over; no reader has looked
\* at the date since.
Behind(t) == /\ tnow[t] < absolute
             /\ \A u \in CtrThreads : u \in crossed
             /\ kind = "second" => absolute >= CtrWrap

\* Why the thread that has the lock found the period over.
Over(t) == \/ kind = "second" /\ tnow[t] > absolute
           \/ kind = "period" /\ tnow[t] >= absolute + Period
           \/ Behind(t)

\* The date the thread is about to write is not too old (RotatedInTime).
InTime(t) == \/ tnow[t] - ctrupd[t].abs < (IF kind = "second" THEN 1 ELSE Period + (Period % 2))
             \/ kind = "second" /\ tnow[t] >= CtrWrap
             \/ tnow[t] >= absolute + CtrWrap

\* The date is stored reduced; in ticks its lowest bit is the lock's; in seconds it is a
\* date that some thread has had.
DateOk(date, abs) == /\ date = abs % CtrWrap
                     /\ kind = "period" => date % 2 = 0
                     /\ kind = "second" => abs <= clk

\* What holds of a thread that updates the counter.
CtrHolder(t) ==
  /\ ctrupd[t].pc \in {"test", "sub", "missed"} => ctrupd[t].date = curr_date /\ ctrupd[t].abs = absolute
  /\ ctrupd[t].pc \in {"sub", "missed"} => Over(t)
  /\ ctrupd[t].pc = "unlock" =>
        /\ DateOk(ctrupd[t].date, ctrupd[t].abs)
        /\ kind = "period" => ctrupd[t].abs % 2 = 0
        /\ ctrupd[t].abs >= absolute \/ Behind(t)
        /\ InTime(t)

\* What holds of a thread that has read the date once: as long as that is the date of the
\* counter, and no rotation goes on, what it reads after the date is what the counter has.
CtrReader(t) ==
  copy[t].pc \in {"curr2", "past2", "date2"} =>
    /\ copy[t].d = copy[t].abs % CtrWrap
    /\ kind = "period" => copy[t].d % 2 = 0
    /\ t \notin crossed => absolute >= copy[t].abs
    /\ (t \notin crossed /\ absolute = copy[t].abs /\ NoneRotating) =>
          /\ copy[t].pc # "curr2" => copy[t].c2 <= curr
          /\ copy[t].pc = "date2" => copy[t].p2 = prev

\* The events are all there; prev_ctr is a copy of curr_ctr until it is subtracted from it.
CtrCounts ==
  /\ \A t \in CtrThreads : ctrupd[t].pc = "sub" => curr + dropped = added
  /\ (\A t \in CtrThreads : ctrupd[t].pc # "sub") => curr + dropped + prev = added

\* The inductive invariant.
CtrInv ==
  /\ CtrTypes
  /\ DateOk(curr_date, absolute)
  /\ kind = "period" => absolute % 2 = 0
  /\ \A t \in CtrThreads : tnow[t] <= clk
  /\ \A t \in CtrThreads : Locker(t) => locked
  /\ \A t, u \in CtrThreads : Locker(t) /\ Locker(u) => t = u
  /\ CtrCounts
  /\ \A t \in CtrThreads : CtrHolder(t)
  /\ \A t \in CtrThreads : CtrReader(t)

\* A zeroed counter satisfies the invariant.
LEMMA CtrInvInit == CtrInit => CtrInv
<1> SUFFICES ASSUME CtrInit PROVE CtrInv
  OBVIOUS
<1>0. CtrWrap \in Nat /\ CtrWrap > 0 /\ Period \in Nat /\ Period >= 2 /\ FirstDate \in Nat
  BY CtrConstants
<1>1. CtrTypes
  BY <1>0 DEF CtrInit, CtrTypes, CtrPcs, CopyPcs, not_updating, no_copy
<1>2. DateOk(curr_date, absolute)
  <2>1. 0 % CtrWrap = 0
    BY <1>0, ModSmall
  <2>2. curr_date = 0 /\ absolute = 0 /\ clk = FirstDate
    BY Zenon DEF CtrInit
  <2> QED BY <1>0, <2>1, <2>2 DEF DateOk
<1>3. ASSUME NEW u \in CtrThreads
      PROVE  ctrupd[u].pc = "out" /\ copy[u].pc = "out" /\ tnow[u] <= clk
  BY <1>0 DEF CtrInit, not_updating, no_copy
<1>4. CtrCounts
  BY <1>3 DEF CtrInit, CtrCounts
<1>5. \A t \in CtrThreads : CtrHolder(t) /\ CtrReader(t)
  BY <1>3 DEF CtrHolder, CtrReader
<1>6. kind = "period" => absolute % 2 = 0
  BY DEF CtrInit
<1> QED
  BY <1>0, <1>1, <1>2, <1>3, <1>4, <1>5, <1>6 DEF CtrInv, Locker

\* What the test of the period says of the dates.
LEMMA TestedOver ==
  ASSUME NEW t \in CtrThreads, CtrInv, ctrupd[t].pc = "test", period_over(t)
  PROVE  \/ kind = "second" /\ tnow[t] > absolute
         \/ kind = "period" /\ tnow[t] >= absolute + Period
         \/ tnow[t] < absolute /\ (kind = "second" => absolute >= CtrWrap)
<1>0. CtrWrap \in Nat /\ CtrWrap > 0 /\ Period \in Nat /\ Period >= 2 /\ FirstDate \in Nat
  BY CtrConstants
<1>1. /\ tnow[t] \in Nat /\ absolute \in Nat /\ kind \in {"second", "period"}
      /\ ctrupd[t].date = absolute % CtrWrap
  BY DEF CtrInv, CtrTypes, CtrHolder, DateOk
<1> DEFINE n == tnow[t]
           a == absolute
<1> HIDE DEF n, a
<1>2. CASE kind = "second"
  <2>1. (n % CtrWrap) - (a % CtrWrap) > 0
    BY <1>0, <1>1, <1>2 DEF period_over, today, n, a
  <2>2. n # a
    BY <1>0, <1>1, <2>1 DEF n, a
  <2>3. ASSUME n < a, a < CtrWrap PROVE FALSE
    BY <1>0, <1>1, <2>1, <2>3, ModSmall DEF n, a
  <2> QED BY <1>0, <1>1, <1>2, <2>2, <2>3 DEF n, a
<1>3. CASE kind = "period"
  <2>1. udiff(n % CtrWrap, a % CtrWrap) >= Period
    BY <1>1, <1>3, Zenon DEF period_over, today, n, a
  <2>2. udiff(n % CtrWrap, a % CtrWrap) = (n - a) % CtrWrap
    <3>1. n \in Int /\ a \in Int
      BY <1>1 DEF n, a
    <3> QED BY <3>1, DatesDiffer
  <2>3. ASSUME n >= a PROVE n >= a + Period
    <3>1. n - a \in Nat
      BY <1>0, <1>1, <2>3 DEF n, a
    <3>2. (n - a) % CtrWrap <= n - a
      BY <1>0, <3>1, ModSmall
    <3>3. (n - a) % CtrWrap >= Period
      BY <2>1, <2>2, <3>1, Zenon
    <3> QED BY <1>0, <1>1, <3>1, <3>2, <3>3, IntDivMod DEF n, a
  <2> QED BY <1>0, <1>1, <1>3, <2>3 DEF n, a
<1> QED BY <1>0, <1>1, <1>2, <1>3

\* What it says when it finds the period not over.
LEMMA TestedNotOver ==
  ASSUME NEW t \in CtrThreads, CtrInv, ctrupd[t].pc = "test", ~period_over(t)
  PROVE  \/ tnow[t] - absolute < (IF kind = "second" THEN 1 ELSE Period + (Period % 2))
         \/ kind = "second" /\ tnow[t] >= CtrWrap
         \/ tnow[t] >= absolute + CtrWrap
<1>0. CtrWrap \in Nat /\ CtrWrap > 0 /\ Period \in Nat /\ Period >= 2 /\ FirstDate \in Nat
  BY CtrConstants
<1>1. /\ tnow[t] \in Nat /\ absolute \in Nat /\ kind \in {"second", "period"}
      /\ ctrupd[t].date = absolute % CtrWrap
  BY DEF CtrInv, CtrTypes, CtrHolder, DateOk
<1> DEFINE n == tnow[t]
           a == absolute
<1>4. n \in Nat /\ a \in Nat
  BY <1>1
<1> HIDE DEF n, a
<1>2. CASE kind = "second"
  <2>1. ~((n % CtrWrap) - (a % CtrWrap) > 0)
    BY <1>0, <1>1, <1>2 DEF period_over, today, n, a
  <2>2. ASSUME n < CtrWrap PROVE n <= a
    <3>1. n % CtrWrap = n /\ a % CtrWrap <= a /\ a % CtrWrap \in Int
      BY <1>0, <1>4, <2>2, ModSmall, IntDivMod
    <3> DEFINE r == n % CtrWrap
               s == a % CtrWrap
    <3>2. r = n /\ s <= a /\ s \in Int /\ ~(r - s > 0)
      BY <2>1, <3>1, Zenon
    <3> HIDE DEF r, s
    <3> QED BY <1>4, <3>2
  <2> QED BY <1>0, <1>1, <1>2, <2>2 DEF n, a
<1>3. CASE kind = "period"
  <2>1. ~(udiff(n % CtrWrap, a % CtrWrap) >= Period)
    BY <1>1, <1>3, Zenon DEF period_over, today, n, a
  <2>2. udiff(n % CtrWrap, a % CtrWrap) = (n - a) % CtrWrap
    <3>1. n \in Int /\ a \in Int
      BY <1>1 DEF n, a
    <3> QED BY <3>1, DatesDiffer
  <2>3. ASSUME n >= a, n - a < CtrWrap PROVE n - a < Period
    <3>1. n - a \in Nat
      BY <1>0, <1>1, <2>3 DEF n, a
    <3>2. (n - a) % CtrWrap = n - a
      BY <1>0, <2>3, <3>1, ModSmall
    <3> QED BY <1>0, <1>1, <2>1, <2>2, <3>1, <3>2 DEF n, a
  <2>4. Period % 2 \in Nat
    BY <1>0
  <2> QED BY <1>0, <1>1, <1>3, <2>3, <2>4 DEF n, a
<1> QED BY <1>0, <1>1, <1>2, <1>3

\* The date that follows a rotation.
LEMMA NewDate ==
  ASSUME NEW t \in CtrThreads, CtrInv, ctrupd[t].pc = "missed",
         NEW abs, abs = new_date(t, tnow[t], ctrupd[t].abs),
         NEW date, date = new_date(t, today(t), ctrupd[t].date) % CtrWrap
  PROVE  /\ abs \in Nat /\ date \in Nat
         /\ DateOk(date, abs)
         /\ kind = "period" => abs % 2 = 0
         /\ abs > absolute \/ Behind(t)
         /\ \/ tnow[t] - abs < (IF kind = "second" THEN 1 ELSE Period + (Period % 2))
            \/ tnow[t] >= absolute + CtrWrap
<1>0. CtrWrap \in Nat /\ CtrWrap > 0 /\ Period \in Nat /\ Period >= 2 /\ Period % 2 \in 0 .. 1
  BY CtrConstants
<1>1. /\ tnow[t] \in Nat /\ absolute \in Nat /\ kind \in {"second", "period"}
      /\ clk \in Nat /\ tnow[t] <= clk
      /\ ctrupd[t].date = absolute % CtrWrap /\ ctrupd[t].abs = absolute
      /\ Over(t)
      /\ kind = "period" => absolute % 2 = 0
  BY DEF CtrInv, CtrTypes, CtrHolder, DateOk
<1> DEFINE n == tnow[t]
           a == absolute
<1>2. n \in Nat /\ a \in Nat
  BY <1>1
<1> HIDE DEF n, a
<1>3. CASE kind = "second"
  <2>1. abs = n
    BY <1>1, <1>3 DEF new_date, n
  <2>2. date = (n % CtrWrap) % CtrWrap
    BY <1>1, <1>3, Zenon DEF new_date, today, n
  <2>3. date = n % CtrWrap /\ date \in Nat
    BY <1>0, <1>2, <2>2, ModSmall, IntDivMod
  <2>4. abs > absolute \/ Behind(t)
    BY <1>1, <1>3, <2>1 DEF Over, n
  <2> QED BY <1>1, <1>2, <1>3, <2>1, <2>3, <2>4 DEF DateOk, n
<1>4. CASE kind = "period"
  <2>0. n >= a + Period \/ Behind(t)
    BY <1>1, <1>4 DEF Over, n, a
  <2>1. missed(t) <=> udiff(n % CtrWrap, (a % CtrWrap) + Period) >= Period
    BY <1>1, <1>4, Zenon DEF missed, today, n, a
  <2>2. udiff(n % CtrWrap, (a % CtrWrap) + Period) = (n - (a + Period)) % CtrWrap
    <3>1. n \in Int /\ a \in Int /\ Period \in Int
      BY <1>0, <1>2
    <3> QED BY <3>1, DatesApart, Zenon
  <2>3. CASE missed(t)
    <3>1. abs = even(n) /\ date = even(n % CtrWrap) % CtrWrap
      BY <1>1, <1>4, <2>3, Zenon DEF new_date, today, n
    <3>2. date = even(n) % CtrWrap
      <4> DEFINE q == n \div CtrWrap
                 m == n % CtrWrap
      <4>1. n = m + CtrWrap * q /\ q \in Int /\ m \in Int
        BY <1>0, <1>2, IntDivMod
      <4> HIDE DEF q, m
      <4>2. even(m) % CtrWrap = even(n) % CtrWrap
        BY <1>2, <4>1, EvenMod
      <4> QED BY <3>1, <4>2, Zenon DEF m
    <3>3. /\ abs \in Nat /\ abs % 2 = 0 /\ abs <= n /\ n <= abs + 1
      BY <1>2, <3>1, EvenFacts
    <3>4. date = abs % CtrWrap
      BY <3>1, <3>2, Zenon
    <3> QED BY <1>0, <1>1, <1>2, <1>4, <2>0, <3>3, <3>4, EvenReduced, IntDivMod DEF DateOk, n, a
  <2>4. CASE ~missed(t)
    <3>1. abs = even(a + Period) /\ date = even((a % CtrWrap) + Period) % CtrWrap
      BY <1>1, <1>4, <2>4, Zenon DEF new_date, a
    <3>2. date = even(a + Period) % CtrWrap
      <4> DEFINE q == a \div CtrWrap
                 m == (a % CtrWrap) + Period
                 p == a + Period
      <4>1. p = m + CtrWrap * q /\ q \in Int /\ m \in Int /\ p \in Int
        BY <1>0, <1>2, IntDivMod
      <4> HIDE DEF q, m, p
      <4>2. even(m) % CtrWrap = even(p) % CtrWrap
        BY <4>1, EvenMod
      <4> QED BY <3>1, <4>2, Zenon DEF m, p
    <3>3. /\ abs \in Nat /\ abs % 2 = 0
          /\ Period % 2 = 0 => abs = a + Period
          /\ Period % 2 = 1 => abs = (a + Period) - 1
      <4> DEFINE p == a + Period
      <4>1. p \in Nat /\ p % 2 = Period % 2
        BY <1>0, <1>1, <1>2, <1>4 DEF a
      <4>2. abs = even(p)
        BY <3>1
      <4> HIDE DEF p
      <4>3. /\ abs \in Nat /\ abs % 2 = 0
            /\ p % 2 = 0 => abs = p
            /\ p % 2 = 1 => abs = p - 1
        BY <4>1, <4>2, EvenFacts, SMTT(30)
      <4> QED BY <4>1, <4>3 DEF p
    <3>4. date = abs % CtrWrap
      BY <3>1, <3>2, Zenon
    <3>5. ASSUME n >= a + Period, n - (a + Period) < CtrWrap
          PROVE  n - (a + Period) < Period
      <4>1. n - (a + Period) \in Nat
        BY <1>0, <1>2, <3>5
      <4>2. (n - (a + Period)) % CtrWrap = n - (a + Period)
        BY <1>0, <3>5, <4>1, ModSmall
      <4>3. ~((n - (a + Period)) % CtrWrap >= Period)
        BY <2>1, <2>2, <2>4, Zenon
      <4> QED BY <1>0, <4>1, <4>2, <4>3
    <3>6. \/ n - abs < Period + (Period % 2)
          \/ n >= a + CtrWrap
      BY <1>0, <1>2, <3>3, <3>5
    <3>7. abs > a
      BY <1>0, <1>2, <3>3
    <3> QED BY <1>0, <1>1, <1>2, <1>4, <3>3, <3>4, <3>6, <3>7, EvenReduced, IntDivMod, SMTT(30) DEF DateOk, n, a
  <2> QED BY <2>3, <2>4
<1> QED BY <1>1, <1>3, <1>4

\* One thread at a time has the lock.
LockOne == /\ \A t \in CtrThreads : Locker(t) => locked
           /\ \A t, u \in CtrThreads : Locker(t) /\ Locker(u) => t = u

\* What other threads do to the dates of the threads leaves a thread that has the lock alone.
LEMMA HolderFrame ==
  ASSUME NEW u \in CtrThreads, CtrTypes, CtrHolder(u),
         ctrupd'[u] = ctrupd[u], Locker(u) => tnow'[u] = tnow[u],
         kind' = kind, curr_date' = curr_date, absolute' = absolute,
         clk' \in Nat, clk <= clk', \A v \in CtrThreads : v \in crossed => v \in crossed'
  PROVE  CtrHolder(u)'
<1>1. ctrupd[u].abs \in Nat /\ clk \in Nat
  BY DEF CtrTypes
<1>2. Locker(u) => (Behind(u) => Behind(u)') /\ (Over(u) => Over(u)') /\ (InTime(u) => InTime(u)')
  BY DEF Over, Behind, InTime
<1>3. DateOk(ctrupd[u].date, ctrupd[u].abs) => DateOk(ctrupd[u].date, ctrupd[u].abs)'
  BY <1>1 DEF DateOk
<1> QED BY <1>2, <1>3 DEF CtrHolder, Locker

\* A step that neither moves the date nor changes the counts outside a rotation leaves a
\* reader alone.
LEMMA ReaderFrame ==
  ASSUME NEW u \in CtrThreads, CtrTypes, CtrReader(u), copy'[u] = copy[u],
         kind' = kind, absolute' = absolute, u \in crossed => u \in crossed', curr' \in Int,
         (NoneRotating' /\ u \notin crossed') => (NoneRotating /\ curr <= curr' /\ prev' = prev)
  PROVE  CtrReader(u)'
<1>1. curr \in Int /\ copy[u].c2 \in Int
  BY DEF CtrTypes
<1> QED BY <1>1 DEF CtrReader

\* A step of the reading loop changes no more than the copy of its thread.
LEMMA ReadFrame ==
  ASSUME CtrInv, UNCHANGED <<counter, clk, tnow, ctrupd, added, dropped>>, CtrTypes',
         NEW t \in CtrThreads, CtrReader(t)',
         crossed' = crossed \/ (~locked /\ crossed' = crossed \ {t}),
         \A u \in CtrThreads \ {t} : copy'[u] = copy[u]
  PROVE  CtrInv'
<1>0. /\ kind' = kind /\ curr' = curr /\ prev' = prev /\ curr_date' = curr_date /\ absolute' = absolute
      /\ clk' = clk /\ tnow' = tnow /\ ctrupd' = ctrupd /\ added' = added /\ dropped' = dropped
  BY DEF counter
<1>1. locked' = locked
  BY DEF counter
<1>2. (\A u \in CtrThreads : CtrHolder(u))'
  <2>1. CASE crossed' = crossed
    BY <1>0, <2>1 DEF CtrInv, CtrHolder, Over, Behind, InTime, DateOk
  <2>2. CASE ~locked
    <3>1. \A u \in CtrThreads : ~Locker(u)'
      BY <1>0, <2>2 DEF CtrInv, Locker
    <3> QED BY <3>1 DEF CtrHolder, Locker
  <2> QED BY <2>1, <2>2
<1>3. ASSUME NEW u \in CtrThreads PROVE CtrReader(u)'
  <2>1. NoneRotating' <=> NoneRotating
    BY <1>0 DEF NoneRotating, Rotating
  <2>2. CASE u # t
    BY <1>0, <2>1, <2>2, ReaderFrame DEF CtrInv, CtrTypes
  <2> QED BY <2>2
<1>4. CtrCounts' /\ DateOk(curr_date, absolute)' /\ (kind = "period" => absolute % 2 = 0)'
  BY <1>0 DEF CtrInv, CtrCounts, DateOk
<1>5. (\A u \in CtrThreads : tnow[u] <= clk)'
  BY <1>0 DEF CtrInv
<1>6. LockOne'
  BY <1>0, <1>1 DEF CtrInv, LockOne, Locker
<1> QED BY <1>2, <1>3, <1>4, <1>5, <1>6 DEF CtrInv, LockOne

\* tv_update_date() of a thread outside the counter preserves the invariant.
LEMMA PollKeeps ==
  ASSUME CtrInv, NEW t \in CtrThreads, CtrPoll(t)
  PROVE  CtrInv'
<1>1. PICK d \in {clk, clk + 1} : clk' = d /\ tnow' = [tnow EXCEPT ![t] = d]
  BY Zenon DEF CtrPoll
<1>2. /\ kind' = kind /\ curr' = curr /\ prev' = prev /\ curr_date' = curr_date /\ absolute' = absolute
      /\ ctrupd' = ctrupd /\ copy' = copy /\ added' = added /\ dropped' = dropped /\ crossed' = crossed
  BY DEF CtrPoll, counter
<1>3. locked' = locked
  BY DEF CtrPoll, counter
<1>4. ctrupd[t].pc = "out"
  BY DEF CtrPoll, outside
<1>5. clk \in Nat /\ clk' \in Nat /\ clk <= clk'
  BY <1>1 DEF CtrInv, CtrTypes
<1>6. CtrTypes'
  BY <1>1, <1>2, <1>5 DEF CtrInv, CtrTypes
<1>7. ASSUME NEW u \in CtrThreads PROVE CtrHolder(u)'
  <2>1. Locker(u) => tnow'[u] = tnow[u]
    BY <1>1, <1>4 DEF CtrInv, CtrTypes, Locker
  <2> QED BY <1>2, <1>5, <2>1, HolderFrame DEF CtrInv
<1>8. ASSUME NEW u \in CtrThreads PROVE CtrReader(u)'
  <2>1. NoneRotating' <=> NoneRotating
    BY <1>2 DEF NoneRotating, Rotating
  <2> QED BY <1>2, <2>1, ReaderFrame DEF CtrInv, CtrTypes
<1>9. CtrCounts' /\ DateOk(curr_date, absolute)' /\ (kind = "period" => absolute % 2 = 0)'
  BY <1>2, <1>5 DEF CtrInv, CtrTypes, CtrCounts, DateOk
<1>10. ASSUME NEW u \in CtrThreads PROVE tnow'[u] <= clk'
  BY <1>1, <1>5 DEF CtrInv, CtrTypes
<1>11. LockOne'
  BY <1>2, <1>3 DEF CtrInv, LockOne, Locker
<1> QED BY <1>6, <1>7, <1>8, <1>9, <1>10, <1>11 DEF CtrInv, LockOne

\* The first look at the date preserves it.
LEMMA StartKeeps ==
  ASSUME CtrInv, NEW t \in CtrThreads, CtrStart(t)
  PROVE  CtrInv'
<1>1. PICK pc \in {"add", "lock"}, date \in Nat :
         ctrupd' = [ctrupd EXCEPT ![t].pc = pc, ![t].date = date]
  BY Zenon DEF CtrStart, CtrInv, CtrTypes
<1>2. /\ kind' = kind /\ curr' = curr /\ prev' = prev /\ curr_date' = curr_date /\ absolute' = absolute
      /\ clk' = clk /\ tnow' = tnow /\ copy' = copy /\ added' = added /\ dropped' = dropped /\ crossed' = crossed
  BY DEF CtrStart, counter
<1>3. locked' = locked
  BY DEF CtrStart, counter
<1>4. ctrupd[t].pc = "out"
  BY DEF CtrStart, outside
<1>5. CtrTypes'
  BY <1>1, <1>2, ZenonT(30) DEF CtrInv, CtrTypes, CtrPcs
<1>6. /\ ctrupd'[t].pc \in {"add", "lock"}
      /\ \A u \in CtrThreads \ {t} : ctrupd'[u] = ctrupd[u]
  BY <1>1 DEF CtrInv, CtrTypes
<1>7. ASSUME NEW u \in CtrThreads PROVE CtrHolder(u)'
  <2>1. CASE u = t
    BY <1>6, <2>1 DEF CtrHolder
  <2>2. CASE u # t
    BY <1>2, <1>6, <2>2, HolderFrame DEF CtrInv, CtrTypes
  <2> QED BY <2>1, <2>2
<1>8. NoneRotating' <=> NoneRotating
  BY <1>2, <1>4, <1>6 DEF NoneRotating, Rotating
<1>9. ASSUME NEW u \in CtrThreads PROVE CtrReader(u)'
  BY <1>2, <1>8, ReaderFrame DEF CtrInv, CtrTypes
<1>10. CtrCounts'
  BY <1>2, <1>4, <1>6 DEF CtrInv, CtrCounts
<1>11. DateOk(curr_date, absolute)' /\ (kind = "period" => absolute % 2 = 0)'
  BY <1>2 DEF CtrInv, DateOk
<1>12. LockOne'
  BY <1>3, <1>4, <1>6 DEF CtrInv, LockOne, Locker
<1> QED BY <1>2, <1>5, <1>7, <1>9, <1>10, <1>11, <1>12 DEF CtrInv, LockOne

\* The compare-and-swap of the lock bit preserves it.
LEMMA LockKeeps ==
  ASSUME CtrInv, NEW t \in CtrThreads, CtrLock(t)
  PROVE  CtrInv'
<1>1. /\ kind' = kind /\ curr' = curr /\ prev' = prev /\ curr_date' = curr_date /\ absolute' = absolute
      /\ clk' = clk /\ tnow' = tnow /\ copy' = copy /\ added' = added /\ dropped' = dropped /\ crossed' = crossed
  BY DEF CtrLock
<1>2. ctrupd[t].pc = "lock"
  BY DEF CtrLock
<1>3. \/ /\ ~locked /\ locked'
         /\ curr_date = ctrupd[t].date
         /\ ctrupd' = [ctrupd EXCEPT ![t].pc = "test", ![t].abs = absolute]
      \/ /\ locked' = locked
         /\ ctrupd' = [ctrupd EXCEPT ![t].date = curr_date]
  BY Zenon DEF CtrLock
<1>4. CtrTypes'
  BY <1>1, <1>3 DEF CtrInv, CtrTypes, CtrPcs
<1>5. /\ \A u \in CtrThreads \ {t} : ctrupd'[u] = ctrupd[u]
      /\ \/ /\ ctrupd'[t].pc = "test" /\ ctrupd'[t].date = curr_date
            /\ ctrupd'[t].abs = absolute
         \/ ctrupd'[t].pc = "lock"
  BY <1>2, <1>3 DEF CtrInv, CtrTypes
<1>6. ASSUME NEW u \in CtrThreads PROVE CtrHolder(u)'
  <2>1. CASE u = t
    BY <1>1, <1>5, <2>1 DEF CtrHolder
  <2>2. CASE u # t
    BY <1>1, <1>5, <2>2, HolderFrame DEF CtrInv, CtrTypes
  <2> QED BY <2>1, <2>2
<1>7. NoneRotating' <=> NoneRotating
  BY <1>1, <1>2, <1>5 DEF NoneRotating, Rotating
<1>8. ASSUME NEW u \in CtrThreads PROVE CtrReader(u)'
  BY <1>1, <1>7, ReaderFrame DEF CtrInv, CtrTypes
<1>9. CtrCounts'
  BY <1>1, <1>2, <1>5 DEF CtrInv, CtrCounts
<1>10. DateOk(curr_date, absolute)' /\ (kind = "period" => absolute % 2 = 0)'
  BY <1>1 DEF CtrInv, DateOk
<1>11. LockOne'
  <2>1. CASE /\ ~locked /\ locked'
    <3>1. \A u \in CtrThreads : ~Locker(u)
      BY <2>1 DEF CtrInv
    <3>2. \A u \in CtrThreads \ {t} : ~Locker(u)'
      BY <1>5, <3>1 DEF Locker
    <3> QED BY <2>1, <3>2, Zenon DEF LockOne
  <2>2. CASE locked' = locked /\ ctrupd' = [ctrupd EXCEPT ![t].date = curr_date]
    <3>1. \A u \in CtrThreads : ctrupd'[u].pc = ctrupd[u].pc
      BY <2>2 DEF CtrInv, CtrTypes
    <3> QED BY <2>2, <3>1 DEF CtrInv, LockOne, Locker
  <2> QED BY <1>3, <2>1, <2>2
<1> QED BY <1>1, <1>4, <1>6, <1>8, <1>9, <1>10, <1>11 DEF CtrInv, LockOne

\* The test of the period and the copy to prev_ctr preserve it.
LEMMA RotateKeeps ==
  ASSUME CtrInv, NEW t \in CtrThreads, Rotate(t)
  PROVE  CtrInv'
<1>1. /\ kind' = kind /\ curr' = curr /\ curr_date' = curr_date /\ absolute' = absolute
      /\ clk' = clk /\ tnow' = tnow /\ copy' = copy /\ added' = added
  BY DEF Rotate
<1>2. ctrupd[t].pc = "test" /\ locked' = locked
  BY DEF Rotate
<1>3. /\ curr \in Int /\ prev \in Int /\ dropped \in Int /\ added \in Int
      /\ clk \in Nat /\ absolute \in Nat /\ tnow[t] \in Nat
  BY DEF CtrInv, CtrTypes
<1>4. /\ ctrupd[t].date = curr_date /\ ctrupd[t].abs = absolute
  BY <1>2 DEF CtrInv, CtrHolder
<1>5. \A u \in CtrThreads \ {t} : ~Locker(u)
  BY <1>2 DEF CtrInv, Locker
<1>6. CASE period_over(t)
  <2>1. /\ dropped' = dropped + prev /\ prev' = curr
        /\ ctrupd' = [ctrupd EXCEPT ![t].pc = "sub"]
        /\ crossed' = IF tnow[t] < absolute THEN CtrThreads ELSE crossed
    BY <1>6 DEF Rotate
  <2>2. CtrTypes'
    BY <1>1, <1>3, <2>1, SMTT(30) DEF CtrInv, CtrTypes, CtrPcs
  <2>3. /\ \A u \in CtrThreads \ {t} : ctrupd'[u] = ctrupd[u]
        /\ ctrupd'[t].pc = "sub" /\ ctrupd'[t].date = curr_date /\ ctrupd'[t].abs = absolute
    BY <1>4, <2>1 DEF CtrInv, CtrTypes
  <2>4. /\ \A u \in CtrThreads : u \in crossed => u \in crossed'
        /\ tnow[t] < absolute => \A u \in CtrThreads : u \in crossed'
    BY <2>1
  <2>5. Over(t)'
    <3>1. \/ kind = "second" /\ tnow[t] > absolute
          \/ kind = "period" /\ tnow[t] >= absolute + Period
          \/ tnow[t] < absolute /\ (kind = "second" => absolute >= CtrWrap)
      BY <1>2, <1>6, TestedOver
    <3> QED BY <1>1, <2>4, <3>1 DEF Over, Behind
  <2>6. ASSUME NEW u \in CtrThreads PROVE CtrHolder(u)'
    <3>1. CASE u = t
      BY <1>1, <2>3, <2>5, <3>1 DEF CtrHolder
    <3>2. CASE u # t
      BY <1>1, <1>3, <2>3, <2>4, <3>2, HolderFrame DEF CtrInv
    <3> QED BY <3>1, <3>2
  <2>7. ~NoneRotating'
    BY <2>3 DEF NoneRotating, Rotating
  <2>8. ASSUME NEW u \in CtrThreads PROVE CtrReader(u)'
    BY <1>1, <1>3, <2>4, <2>7, ReaderFrame DEF CtrInv
  <2>9. CtrCounts'
    <3>1. \A u \in CtrThreads : ctrupd[u].pc # "sub"
      BY <1>2, <1>5 DEF Locker
    <3>2. curr + dropped + prev = added
      BY <3>1 DEF CtrInv, CtrCounts
    <3>3. curr' + dropped' = added'
      BY <1>1, <1>3, <2>1, <3>2
    <3> QED BY <2>3, <3>3 DEF CtrCounts
  <2>10. LockOne'
    <3>1. \A u \in CtrThreads : Locker(u)' <=> Locker(u)
      BY <1>2, <2>3 DEF Locker
    <3> QED BY <1>2, <3>1 DEF CtrInv, LockOne
  <2>11. DateOk(curr_date, absolute)' /\ (kind = "period" => absolute % 2 = 0)'
    BY <1>1 DEF CtrInv, DateOk
  <2> QED BY <1>1, <2>2, <2>6, <2>8, <2>9, <2>10, <2>11 DEF CtrInv, LockOne
<1>7. CASE ~period_over(t)
  <2>1. /\ ctrupd' = [ctrupd EXCEPT ![t].pc = "unlock"]
        /\ prev' = prev /\ dropped' = dropped /\ crossed' = crossed
    BY <1>7 DEF Rotate
  <2>2. CtrTypes'
    BY <1>1, <2>1 DEF CtrInv, CtrTypes, CtrPcs
  <2>3. /\ \A u \in CtrThreads \ {t} : ctrupd'[u] = ctrupd[u]
        /\ ctrupd'[t].pc = "unlock" /\ ctrupd'[t].date = curr_date /\ ctrupd'[t].abs = absolute
    BY <1>4, <2>1 DEF CtrInv, CtrTypes
  <2>4. ASSUME NEW u \in CtrThreads PROVE CtrHolder(u)'
    <3>1. CASE u = t
      <4>1. InTime(t)'
        BY <1>1, <1>2, <1>7, <2>3, TestedNotOver DEF InTime
      <4>2. DateOk(curr_date, absolute) /\ (kind = "period" => absolute % 2 = 0)
        BY DEF CtrInv
      <4>3. DateOk(ctrupd[t].date, ctrupd[t].abs)'
        BY <1>1, <2>3, <4>2 DEF DateOk
      <4> QED BY <1>1, <1>3, <2>3, <3>1, <4>1, <4>2, <4>3 DEF CtrHolder
    <3>2. CASE u # t
      BY <1>1, <1>3, <2>1, <2>3, <3>2, HolderFrame DEF CtrInv
    <3> QED BY <3>1, <3>2
  <2>5. NoneRotating' <=> NoneRotating
    BY <1>1, <1>2, <2>3 DEF NoneRotating, Rotating
  <2>6. ASSUME NEW u \in CtrThreads PROVE CtrReader(u)'
    BY <1>1, <1>3, <2>1, <2>5, ReaderFrame DEF CtrInv
  <2>7. CtrCounts'
    BY <1>1, <1>2, <2>1, <2>3 DEF CtrInv, CtrCounts
  <2>8. LockOne'
    <3>1. \A u \in CtrThreads : Locker(u)' <=> Locker(u)
      BY <1>2, <2>3 DEF Locker
    <3> QED BY <1>2, <3>1 DEF CtrInv, LockOne
  <2>9. DateOk(curr_date, absolute)' /\ (kind = "period" => absolute % 2 = 0)'
    BY <1>1 DEF CtrInv, DateOk
  <2> QED BY <1>1, <2>2, <2>4, <2>6, <2>7, <2>8, <2>9 DEF CtrInv, LockOne
<1> QED BY <1>6, <1>7

\* The subtraction from curr_ctr preserves it.
LEMMA SubKeeps ==
  ASSUME CtrInv, NEW t \in CtrThreads, Sub(t)
  PROVE  CtrInv'
<1>1. /\ kind' = kind /\ prev' = prev /\ curr_date' = curr_date /\ absolute' = absolute
      /\ clk' = clk /\ tnow' = tnow /\ copy' = copy /\ added' = added /\ dropped' = dropped /\ crossed' = crossed
  BY DEF Sub
<1>2. /\ ctrupd[t].pc = "sub" /\ locked' = locked /\ curr' = curr - prev
      /\ ctrupd' = [ctrupd EXCEPT ![t].pc = "missed"]
  BY DEF Sub
<1>3. /\ curr \in Int /\ prev \in Int /\ dropped \in Int /\ added \in Int /\ clk \in Nat
  BY DEF CtrInv, CtrTypes
<1>4. \A u \in CtrThreads \ {t} : ~Locker(u)
  BY <1>2 DEF CtrInv, Locker
<1>5. CtrTypes'
  BY <1>1, <1>2, <1>3 DEF CtrInv, CtrTypes, CtrPcs
<1>6. /\ \A u \in CtrThreads \ {t} : ctrupd'[u] = ctrupd[u]
      /\ ctrupd'[t].pc = "missed" /\ ctrupd'[t].date = ctrupd[t].date /\ ctrupd'[t].abs = ctrupd[t].abs
  BY <1>2 DEF CtrInv, CtrTypes
<1>7. ASSUME NEW u \in CtrThreads PROVE CtrHolder(u)'
  <2>1. CASE u = t
    <3>1. Over(t) /\ ctrupd[t].date = curr_date /\ ctrupd[t].abs = absolute
      BY <1>2 DEF CtrInv, CtrHolder
    <3>2. Over(t)'
      BY <1>1, <3>1 DEF Over, Behind
    <3> QED BY <1>1, <1>6, <2>1, <3>1, <3>2 DEF CtrHolder
  <2>2. CASE u # t
    BY <1>1, <1>3, <1>6, <2>2, HolderFrame DEF CtrInv
  <2> QED BY <2>1, <2>2
<1>8. ~NoneRotating'
  BY <1>6 DEF NoneRotating, Rotating
<1>9. ASSUME NEW u \in CtrThreads PROVE CtrReader(u)'
  <2>1. curr' \in Int
    BY <1>2, <1>3
  <2> QED BY <1>1, <1>8, <2>1, ReaderFrame DEF CtrInv
<1>10. CtrCounts'
  <2>1. \A u \in CtrThreads : ctrupd'[u].pc # "sub"
    BY <1>4, <1>6 DEF Locker
  <2>2. curr + dropped = added
    BY <1>2 DEF CtrInv, CtrCounts
  <2>3. curr' + dropped' + prev' = added'
    BY <1>1, <1>2, <1>3, <2>2
  <2> QED BY <2>1, <2>3 DEF CtrCounts
<1>11. LockOne'
  <2>1. \A u \in CtrThreads : Locker(u)' <=> Locker(u)
    BY <1>2, <1>6 DEF Locker
  <2> QED BY <1>2, <2>1 DEF CtrInv, LockOne
<1>12. DateOk(curr_date, absolute)' /\ (kind = "period" => absolute % 2 = 0)'
  BY <1>1 DEF CtrInv, DateOk
<1> QED BY <1>1, <1>5, <1>7, <1>9, <1>10, <1>11, <1>12 DEF CtrInv, LockOne

\* The test for a missed period and the choice of the new date preserve it.
LEMMA MissedKeeps ==
  ASSUME CtrInv, NEW t \in CtrThreads, Missed(t)
  PROVE  CtrInv'
<1>1. /\ kind' = kind /\ curr' = curr /\ curr_date' = curr_date /\ absolute' = absolute
      /\ clk' = clk /\ tnow' = tnow /\ copy' = copy /\ added' = added /\ crossed' = crossed
  BY DEF Missed
<1>2. ctrupd[t].pc = "missed" /\ locked' = locked
  BY DEF Missed
<1>3. /\ curr \in Int /\ prev \in Int /\ dropped \in Int /\ added \in Int
      /\ clk \in Nat /\ absolute \in Nat /\ tnow[t] \in Nat
  BY DEF CtrInv, CtrTypes
<1>4. \/ prev' = 0 /\ dropped' = dropped + prev
      \/ prev' = prev /\ dropped' = dropped
  BY DEF Missed
<1>5. \A u \in CtrThreads \ {t} : ~Locker(u)
  BY <1>2 DEF CtrInv, Locker
<1> DEFINE date == new_date(t, today(t), ctrupd[t].date) % CtrWrap
           abs == new_date(t, tnow[t], ctrupd[t].abs)
<1>6. /\ abs \in Nat /\ date \in Nat
      /\ DateOk(date, abs)
      /\ kind = "period" => abs % 2 = 0
      /\ abs > absolute \/ Behind(t)
      /\ \/ tnow[t] - abs < (IF kind = "second" THEN 1 ELSE Period + (Period % 2))
         \/ tnow[t] >= absolute + CtrWrap
  BY <1>2, NewDate, Zenon
<1>7. ctrupd' = [ctrupd EXCEPT ![t] = [pc |-> "unlock", date |-> date, abs |-> abs]]
  BY DEF Missed, CtrInv, CtrTypes
<1> HIDE DEF date, abs
<1>8. CtrTypes'
  BY <1>1, <1>3, <1>4, <1>6, <1>7 DEF CtrInv, CtrTypes, CtrPcs
<1>9. /\ \A u \in CtrThreads \ {t} : ctrupd'[u] = ctrupd[u]
      /\ ctrupd'[t].pc = "unlock" /\ ctrupd'[t].date = date /\ ctrupd'[t].abs = abs
  BY <1>7 DEF CtrInv, CtrTypes
<1>10. Behind(t) => Behind(t)'
  BY <1>1 DEF Behind
<1>11. ASSUME NEW u \in CtrThreads PROVE CtrHolder(u)'
  <2>1. CASE u = t
    <3>1. InTime(t)'
      BY <1>1, <1>6, <1>9 DEF InTime
    <3>2. DateOk(ctrupd[t].date, ctrupd[t].abs)'
      BY <1>1, <1>6, <1>9 DEF DateOk
    <3>3. (ctrupd[t].abs >= absolute \/ Behind(t))'
      BY <1>1, <1>3, <1>6, <1>9, <1>10
    <3> QED BY <1>1, <1>6, <1>9, <2>1, <3>1, <3>2, <3>3 DEF CtrHolder
  <2>2. CASE u # t
    BY <1>1, <1>3, <1>9, <2>2, HolderFrame DEF CtrInv
  <2> QED BY <2>1, <2>2
<1>12. ~NoneRotating' \/ \A u \in CtrThreads : u \in crossed'
  BY <1>1, <1>3, <1>6, <1>9 DEF NoneRotating, Rotating, Behind
<1>13. ASSUME NEW u \in CtrThreads PROVE CtrReader(u)'
  BY <1>1, <1>3, <1>12, ReaderFrame DEF CtrInv
<1>14. CtrCounts'
  <2>1. \A u \in CtrThreads : ctrupd[u].pc # "sub" /\ ctrupd'[u].pc # "sub"
    BY <1>2, <1>5, <1>9 DEF Locker
  <2>2. curr + dropped + prev = added
    BY <2>1 DEF CtrInv, CtrCounts
  <2>3. curr' + dropped' + prev' = added'
    BY <1>1, <1>3, <1>4, <2>2
  <2> QED BY <2>1, <2>3 DEF CtrCounts
<1>15. LockOne'
  <2>1. \A u \in CtrThreads : Locker(u)' <=> Locker(u)
    BY <1>2, <1>9 DEF Locker
  <2> QED BY <1>2, <2>1 DEF CtrInv, LockOne
<1>16. DateOk(curr_date, absolute)' /\ (kind = "period" => absolute % 2 = 0)'
  BY <1>1 DEF CtrInv, DateOk
<1> QED BY <1>1, <1>8, <1>11, <1>13, <1>14, <1>15, <1>16 DEF CtrInv, LockOne

\* Writing the date without the lock bit preserves it.
LEMMA UnlockKeeps ==
  ASSUME CtrInv, NEW t \in CtrThreads, CtrUnlock(t)
  PROVE  CtrInv'
<1>1. /\ kind' = kind /\ curr' = curr /\ prev' = prev /\ clk' = clk /\ tnow' = tnow /\ copy' = copy
      /\ added' = added /\ dropped' = dropped /\ crossed' = crossed
  BY DEF CtrUnlock
<1>2. /\ ctrupd[t].pc = "unlock" /\ curr_date' = ctrupd[t].date /\ absolute' = ctrupd[t].abs
      /\ ctrupd' = [ctrupd EXCEPT ![t] = [not_updating EXCEPT !.pc = "add"]]
  BY DEF CtrUnlock
<1>3. \A u \in CtrThreads \ {t} : ~Locker(u)
  BY <1>2 DEF CtrInv, Locker
<1>4. /\ absolute \in Nat /\ ctrupd[t].abs \in Nat /\ ctrupd[t].date \in Nat /\ curr \in Int
  BY DEF CtrInv, CtrTypes
<1>5. /\ DateOk(ctrupd[t].date, ctrupd[t].abs)
      /\ kind = "period" => ctrupd[t].abs % 2 = 0
      /\ ctrupd[t].abs >= absolute \/ Behind(t)
  BY <1>2 DEF CtrInv, CtrHolder
<1>6. CtrTypes'
  BY <1>1, <1>2, <1>4 DEF CtrInv, CtrTypes, CtrPcs, not_updating
<1>7. /\ \A u \in CtrThreads \ {t} : ctrupd'[u] = ctrupd[u]
      /\ ctrupd'[t].pc = "add"
  BY <1>2 DEF CtrInv, CtrTypes, not_updating
<1>8. \A u \in CtrThreads : ~Locker(u)'
  BY <1>3, <1>7 DEF Locker
<1>9. ASSUME NEW u \in CtrThreads PROVE CtrHolder(u)'
  BY <1>8 DEF CtrHolder, Locker
<1>10. ASSUME NEW u \in CtrThreads PROVE CtrReader(u)'
  <2>1. CtrReader(u) /\ copy[u].abs \in Nat
    BY DEF CtrInv, CtrTypes
  <2>2. CASE Behind(t)
    BY <1>1, <2>1, <2>2 DEF CtrReader, Behind
  <2>3. CASE ctrupd[t].abs > absolute
    <3>1. absolute' > absolute
      BY <1>2, <2>3
    <3> QED BY <1>1, <1>2, <1>4, <2>1, <3>1 DEF CtrReader
  <2>4. CASE ctrupd[t].abs = absolute
    <3>1. NoneRotating
      BY <1>2, <1>3, <2>4 DEF NoneRotating, Rotating, Locker
    <3>2. absolute' = absolute
      BY <1>2, <2>4
    <3> QED BY <1>1, <1>4, <3>1, <3>2, ReaderFrame DEF CtrInv
  <2> QED BY <1>4, <1>5, <2>2, <2>3, <2>4
<1>11. CtrCounts'
  <2>1. \A u \in CtrThreads : ctrupd[u].pc # "sub" /\ ctrupd'[u].pc # "sub"
    BY <1>2, <1>3, <1>8 DEF Locker
  <2> QED BY <1>1, <2>1 DEF CtrInv, CtrCounts
<1>12. LockOne'
  BY <1>8, Zenon DEF LockOne
<1>13. DateOk(curr_date, absolute)' /\ (kind = "period" => absolute % 2 = 0)'
  BY <1>1, <1>2, <1>5 DEF DateOk
<1> QED BY <1>1, <1>6, <1>9, <1>10, <1>11, <1>12, <1>13 DEF CtrInv, LockOne

\* Counting an event, with or without the lock of another thread, preserves it.
LEMMA AddKeeps ==
  ASSUME CtrInv, NEW t \in CtrThreads, CtrAdd(t)
  PROVE  CtrInv'
<1>1. /\ kind' = kind /\ prev' = prev /\ curr_date' = curr_date /\ absolute' = absolute
      /\ clk' = clk /\ tnow' = tnow /\ copy' = copy /\ dropped' = dropped /\ crossed' = crossed
  BY DEF CtrAdd
<1>2. /\ ctrupd[t].pc = "add" /\ curr' = curr + 1 /\ added' = added + 1
      /\ ctrupd' = [ctrupd EXCEPT ![t] = not_updating]
  BY DEF CtrAdd
<1>3. locked' = locked
  BY DEF CtrAdd
<1>4. /\ curr \in Int /\ prev \in Int /\ dropped \in Int /\ added \in Int /\ clk \in Nat
  BY DEF CtrInv, CtrTypes
<1>5. CtrTypes'
  BY <1>1, <1>2, <1>4 DEF CtrInv, CtrTypes, CtrPcs, not_updating
<1>6. /\ \A u \in CtrThreads \ {t} : ctrupd'[u] = ctrupd[u]
      /\ ctrupd'[t].pc = "out"
  BY <1>2 DEF CtrInv, CtrTypes, not_updating
<1>7. ASSUME NEW u \in CtrThreads PROVE CtrHolder(u)'
  <2>1. CASE u = t
    BY <1>6, <2>1 DEF CtrHolder
  <2>2. CASE u # t
    BY <1>1, <1>4, <1>6, <2>2, HolderFrame DEF CtrInv
  <2> QED BY <2>1, <2>2
<1>8. NoneRotating' <=> NoneRotating
  BY <1>1, <1>2, <1>6 DEF NoneRotating, Rotating
<1>9. ASSUME NEW u \in CtrThreads PROVE CtrReader(u)'
  <2>1. curr' \in Int /\ curr <= curr'
    BY <1>2, <1>4
  <2> QED BY <1>1, <1>8, <2>1, ReaderFrame DEF CtrInv
<1>10. CtrCounts'
  <2>1. \A u \in CtrThreads : ctrupd'[u].pc = "sub" <=> ctrupd[u].pc = "sub"
    BY <1>2, <1>6
  <2>2. curr + dropped = added => curr' + dropped' = added'
    BY <1>1, <1>2, <1>4
  <2>3. curr + dropped + prev = added => curr' + dropped' + prev' = added'
    BY <1>1, <1>2, <1>4
  <2> QED BY <2>1, <2>2, <2>3 DEF CtrInv, CtrCounts
<1>11. LockOne'
  <2>1. \A u \in CtrThreads : Locker(u)' <=> Locker(u)
    BY <1>2, <1>6 DEF Locker
  <2> QED BY <1>3, <2>1 DEF CtrInv, LockOne
<1>12. DateOk(curr_date, absolute)' /\ (kind = "period" => absolute % 2 = 0)'
  BY <1>1 DEF CtrInv, DateOk
<1> QED BY <1>1, <1>5, <1>7, <1>9, <1>10, <1>11, <1>12 DEF CtrInv, LockOne

\* A step of the reading loop.
CtrRead(t) == \/ ReadStart(t) \/ ReadCurr(t) \/ ReadPast(t) \/ ReadDate(t)
              \/ ReadCurr2(t) \/ ReadPast2(t) \/ ReadDate2(t) \/ ReadUse(t)

\* What a step of the reading loop does to the copy.
LEMMA CopyStep ==
  ASSUME CtrInv, NEW t \in CtrThreads, CtrRead(t)
  PROVE  /\ UNCHANGED <<counter, clk, tnow, ctrupd, added, dropped>>
         /\ crossed' = crossed \/ (~locked /\ crossed' = crossed \ {t})
         /\ CtrTypes'
         /\ \A u \in CtrThreads \ {t} : copy'[u] = copy[u]
         /\ \/ copy'[t].pc \in {"out", "curr", "past", "date"}
            \/ /\ ~locked /\ copy'[t].pc = "curr2"
               /\ copy'[t].d = curr_date /\ copy'[t].abs = absolute
            \/ /\ crossed' = crossed /\ copy[t].pc = "curr2" /\ copy'[t].pc = "past2"
               /\ copy'[t].d = copy[t].d /\ copy'[t].abs = copy[t].abs /\ copy'[t].c2 = curr
            \/ /\ crossed' = crossed /\ copy[t].pc = "past2" /\ copy'[t].pc = "date2"
               /\ copy'[t].d = copy[t].d /\ copy'[t].abs = copy[t].abs
               /\ copy'[t].c2 = copy[t].c2 /\ copy'[t].p2 = prev
            \/ /\ copy[t].pc = "date2" /\ copy'[t].pc = "use"
               /\ copy[t].c = copy[t].c2 /\ copy[t].p = copy[t].p2 /\ copy[t].d = raw_date
<1>0. /\ kind \in {"second", "period"} /\ curr \in Int /\ prev \in Int /\ curr_date \in Nat /\ absolute \in Nat
      /\ copy \in [CtrThreads -> [pc : CopyPcs, c : Int, p : Int, d : Nat,
                                  c2 : Int, p2 : Int, abs : Nat]]
  BY DEF CtrInv, CtrTypes
<1>1. PICK from : loads(t, from)
  BY DEF CtrRead, ReadStart, ReadCurr, ReadPast, ReadDate, ReadCurr2, ReadPast2, ReadDate2, ReadUse
<1>2. /\ UNCHANGED <<counter, clk, tnow, ctrupd, added, dropped>>
      /\ crossed' = crossed \/ (~locked /\ crossed' = crossed \ {t})
  BY <1>1 DEF loads
<1>3. ASSUME copy' \in [CtrThreads -> [pc : CopyPcs, c : Int, p : Int, d : Nat,
                                       c2 : Int, p2 : Int, abs : Nat]]
      PROVE  CtrTypes'
  BY <1>2, <1>3 DEF CtrInv, CtrTypes, counter
<1>4. CASE \/ ReadStart(t) \/ ReadCurr(t) \/ ReadPast(t)
  BY <1>0, <1>2, <1>3, <1>4, SMTT(30) DEF ReadStart, ReadCurr, ReadPast, CopyPcs
<1>5. CASE ReadDate(t)
  <2>1. CASE locked
    <3>1. copy' = [copy EXCEPT ![t] = [no_copy EXCEPT !.pc = "curr"]]
      BY <1>5, <2>1 DEF ReadDate
    <3> QED BY <1>0, <1>2, <1>3, <3>1 DEF no_copy, CopyPcs
  <2>2. CASE ~locked
    <3>1. copy' = [copy EXCEPT ![t] = [@ EXCEPT !.pc = "curr2", !.d = curr_date, !.abs = absolute]]
      BY <1>5, <2>2 DEF ReadDate, raw_date
    <3>2. /\ copy' \in [CtrThreads -> [pc : CopyPcs, c : Int, p : Int, d : Nat,
                                       c2 : Int, p2 : Int, abs : Nat]]
          /\ \A u \in CtrThreads \ {t} : copy'[u] = copy[u]
          /\ copy'[t].pc = "curr2" /\ copy'[t].d = curr_date /\ copy'[t].abs = absolute
      BY <1>0, <3>1, Zenon DEF CopyPcs
    <3> QED BY <1>2, <1>3, <2>2, <3>2, Zenon
  <2> QED BY <2>1, <2>2
<1>6. CASE ReadCurr2(t)
  BY <1>0, <1>2, <1>3, <1>6, ZenonT(30) DEF ReadCurr2, loads, CopyPcs
<1>7. CASE ReadPast2(t)
  BY <1>0, <1>2, <1>3, <1>7, ZenonT(30) DEF ReadPast2, loads, CopyPcs
<1>8. CASE ReadDate2(t)
  BY <1>0, <1>2, <1>3, <1>8 DEF ReadDate2, loads, no_copy, CopyPcs
<1>9. CASE ReadUse(t)
  BY <1>0, <1>2, <1>3, <1>9 DEF ReadUse, no_copy, CopyPcs
<1> QED BY <1>4, <1>5, <1>6, <1>7, <1>8, <1>9, Zenon DEF CtrRead

\* The loads of the reading loop preserve the invariant.
LEMMA ReadKeeps ==
  ASSUME CtrInv, NEW t \in CtrThreads, CtrRead(t)
  PROVE  CtrInv'
<1>1. /\ UNCHANGED <<counter, clk, tnow, ctrupd, added, dropped>>
      /\ crossed' = crossed \/ (~locked /\ crossed' = crossed \ {t})
      /\ CtrTypes'
      /\ \A u \in CtrThreads \ {t} : copy'[u] = copy[u]
  BY CopyStep
<1>2. /\ kind' = kind /\ curr' = curr /\ prev' = prev /\ curr_date' = curr_date
      /\ absolute' = absolute /\ ctrupd' = ctrupd
  BY <1>1 DEF counter
<1>3. NoneRotating' <=> NoneRotating
  BY <1>2 DEF NoneRotating, Rotating
<1>4. /\ DateOk(curr_date, absolute) /\ CtrReader(t)
      /\ curr \in Int /\ prev \in Int /\ absolute \in Nat
  BY SMTT(30) DEF CtrInv, CtrTypes
<1>5. CtrReader(t)'
  <2>1. CASE copy'[t].pc \in {"out", "curr", "past", "date", "use"}
    BY <2>1 DEF CtrReader
  <2>2. CASE /\ copy'[t].pc = "curr2"
             /\ copy'[t].d = curr_date /\ copy'[t].abs = absolute
    BY <1>2, <1>4, <2>2 DEF CtrReader, DateOk
  <2>3. CASE /\ crossed' = crossed /\ copy[t].pc = "curr2" /\ copy'[t].pc = "past2"
             /\ copy'[t].d = copy[t].d /\ copy'[t].abs = copy[t].abs /\ copy'[t].c2 = curr
    BY <1>2, <1>3, <1>4, <2>3 DEF CtrReader
  <2>4. CASE /\ crossed' = crossed /\ copy[t].pc = "past2" /\ copy'[t].pc = "date2"
             /\ copy'[t].d = copy[t].d /\ copy'[t].abs = copy[t].abs
             /\ copy'[t].c2 = copy[t].c2 /\ copy'[t].p2 = prev
    BY <1>2, <1>3, <1>4, <2>4 DEF CtrReader
  <2> QED BY <2>1, <2>2, <2>3, <2>4, CopyStep
<1> QED BY <1>1, <1>5, ReadFrame

\* Every step preserves the invariant.
LEMMA CtrInvNext == CtrInv /\ [CtrNext]_ctrVars => CtrInv'
<1> SUFFICES ASSUME CtrInv, [CtrNext]_ctrVars PROVE CtrInv'
  OBVIOUS
<1>1. ASSUME NEW t \in CtrThreads, CtrStep(t) PROVE CtrInv'
  BY <1>1, PollKeeps, StartKeeps, LockKeeps, RotateKeeps, SubKeeps, MissedKeeps, UnlockKeeps,
     AddKeeps, ReadKeeps DEF CtrStep, CtrRead
<1>2. CASE UNCHANGED ctrVars
  <2>1. UNCHANGED <<counter, clk, tnow, ctrupd, added, dropped, crossed>> /\ copy' = copy
    BY <1>2 DEF ctrVars, counter
  <2>2. CtrTypes'
    BY <2>1 DEF CtrInv, CtrTypes, counter
  <2>3. CASE CtrThreads = {}
    <3>1. /\ kind' = kind /\ curr' = curr /\ prev' = prev /\ curr_date' = curr_date /\ absolute' = absolute
          /\ clk' = clk /\ added' = added /\ dropped' = dropped
      BY <2>1 DEF counter
    <3>2. CtrCounts' /\ DateOk(curr_date, absolute)' /\ (kind = "period" => absolute % 2 = 0)'
      BY <2>3, <3>1 DEF CtrInv, CtrCounts, DateOk
    <3> QED BY <2>2, <2>3, <3>2 DEF CtrInv
  <2>4. ASSUME NEW t \in CtrThreads PROVE CtrInv'
    <3>1. NoneRotating' <=> NoneRotating
      BY <2>1 DEF NoneRotating, Rotating, counter
    <3>2. CtrReader(t)'
      BY <2>1, <3>1 DEF CtrInv, CtrReader, counter
    <3> QED BY <2>1, <2>2, <3>2, ReadFrame
  <2> QED BY <2>3, <2>4
<1> QED BY <1>1, <1>2 DEF CtrNext

\* The invariant contains the count of the events.
LEMMA CtrInvCounted == CtrInv => EventsCounted
<1> SUFFICES ASSUME CtrInv PROVE EventsCounted
  OBVIOUS
<1>1. /\ curr \in Int /\ prev \in Int /\ dropped \in Int /\ added \in Int /\ CtrCounts
  BY DEF CtrInv, CtrTypes
<1>2. CASE \E t \in CtrThreads : ctrupd[t].pc = "sub"
  <2>1. curr + dropped = added
    BY <1>1, <1>2 DEF CtrCounts
  <2> QED BY <1>1, <1>2, <2>1 DEF EventsCounted
<1>3. CASE ~\E t \in CtrThreads : ctrupd[t].pc = "sub"
  <2>1. curr + dropped + prev = added
    BY <1>1, <1>3 DEF CtrCounts
  <2> QED BY <1>1, <1>3, <2>1 DEF EventsCounted
<1> QED BY <1>2, <1>3

\* Only the last load of the loop accepts a copy.
LEMMA Accepted ==
  ASSUME CtrInv, [CtrNext]_ctrVars, NEW t \in CtrThreads,
         copy[t].pc = "date2", copy'[t].pc = "use"
  PROVE  /\ UNCHANGED <<counter, clk, tnow, ctrupd, added, dropped>>
         /\ copy[t].c = copy[t].c2 /\ copy[t].p = copy[t].p2 /\ copy[t].d = raw_date
<1>1. copy' # copy
  OBVIOUS
<1>2. PICK u \in CtrThreads : CtrStep(u)
  BY <1>1 DEF CtrNext, ctrVars
<1>3. CtrRead(u)
  BY <1>1, <1>2 DEF CtrStep, CtrRead, CtrPoll, CtrStart, CtrLock, Rotate, Sub, Missed, CtrUnlock, CtrAdd
<1>4. u = t
  BY <1>3, CopyStep
<1> QED BY <1>3, <1>4, CopyStep

\* A word that equals a date without the lock bit has no lock bit.
LEMMA NotLocked ==
  ASSUME CtrInv, NEW d \in Nat, d < CtrWrap, kind = "period" => d % 2 = 0, d = raw_date
  PROVE  ~locked /\ d = curr_date
<1>0. CtrWrap \in Nat
  BY CtrConstants
<1>1. /\ curr_date \in Nat /\ kind \in {"second", "period"}
      /\ kind = "period" => curr_date % 2 = 0
  BY DEF CtrInv, CtrTypes, DateOk
<1>2. ASSUME locked PROVE FALSE
  <2>1. CASE kind = "second"
    <3>1. d = curr_date + CtrWrap
      BY <1>2, <2>1 DEF raw_date
    <3> QED BY <1>0, <1>1, <3>1
  <2>2. CASE kind = "period"
    <3>1. d = curr_date + 1
      BY <1>2, <2>2 DEF raw_date
    <3> QED BY <1>1, <2>2, <3>1
  <2> QED BY <1>1, <2>1, <2>2
<1>3. ~locked
  BY <1>2
<1>4. d = curr_date
  BY <1>3 DEF raw_date
<1> QED BY <1>3, <1>4

\* The copy that the loop accepts is the counter's.
LEMMA AcceptedExact ==
  ASSUME CtrInv, [CtrNext]_ctrVars, NEW t \in CtrThreads,
         copy[t].pc = "date2", copy'[t].pc = "use"
  PROVE  \/ ~locked /\ copy[t].p = prev /\ copy[t].c <= curr
         \/ absolute >= copy[t].abs + CtrWrap
         \/ t \in crossed
<1>0. CtrWrap \in Nat /\ CtrWrap > 0
  BY CtrConstants
<1>1. copy[t].c = copy[t].c2 /\ copy[t].p = copy[t].p2 /\ copy[t].d = raw_date
  BY Accepted
<1>2. /\ copy[t].d \in Nat /\ copy[t].abs \in Nat /\ absolute \in Nat
      /\ CtrReader(t) /\ curr_date = absolute % CtrWrap
  BY DEF CtrInv, CtrTypes, DateOk
<1>3. /\ copy[t].d = copy[t].abs % CtrWrap
      /\ kind = "period" => copy[t].d % 2 = 0
      /\ t \notin crossed => absolute >= copy[t].abs
      /\ (t \notin crossed /\ absolute = copy[t].abs /\ NoneRotating) =>
            copy[t].c2 <= curr /\ copy[t].p2 = prev
  BY <1>2 DEF CtrReader
<1>4. copy[t].d < CtrWrap
  BY <1>0, <1>2, <1>3, IntDivMod
<1>5. ~locked /\ copy[t].d = curr_date
  BY <1>1, <1>2, <1>3, <1>4, NotLocked
<1>6. NoneRotating
  BY <1>5 DEF CtrInv, NoneRotating, Rotating, Locker
<1>7. ASSUME t \notin crossed, absolute < copy[t].abs + CtrWrap
      PROVE  absolute = copy[t].abs
  BY <1>0, <1>2, <1>3, <1>5, <1>7, ModClose, Zenon
<1>8. CASE t \notin crossed /\ absolute < copy[t].abs + CtrWrap
  BY <1>1, <1>3, <1>5, <1>6, <1>7, <1>8
<1>9. CASE t \in crossed \/ absolute >= copy[t].abs + CtrWrap
  BY <1>9
<1> QED BY <1>0, <1>2, <1>8, <1>9

\* Only the release of the lock moves the date.
LEMMA Unlocked ==
  ASSUME CtrInv, [CtrNext]_ctrVars
  PROVE  \/ absolute' = absolute
         \/ \E t \in CtrThreads : CtrUnlock(t)
<1>1. ASSUME NEW t \in CtrThreads, CtrStep(t), ~CtrUnlock(t) PROVE absolute' = absolute
  <2>1. CASE CtrRead(t)
    BY <2>1, CopyStep DEF counter
  <2> QED BY <1>1, <2>1 DEF CtrStep, CtrRead, CtrPoll, CtrStart, CtrLock, Rotate, Sub, Missed, CtrAdd, counter
<1> QED BY <1>1 DEF CtrNext, ctrVars

\* The date moves forward, unless a thread with an earlier date moves it.
LEMMA MovedForward ==
  ASSUME CtrInv, [CtrNext]_ctrVars
  PROVE  \/ absolute' >= absolute
         \/ kind = "period" /\ \E t \in CtrThreads :
               ctrupd[t].pc = "unlock" /\ ctrupd'[t].pc = "add" /\ tnow[t] < absolute
         \/ kind = "second" /\ clk >= CtrWrap
<1>0. CtrWrap \in Nat
  BY CtrConstants
<1>1. absolute \in Nat /\ clk \in Nat /\ kind \in {"second", "period"}
  BY DEF CtrInv, CtrTypes
<1>2. CASE absolute' = absolute
  BY <1>1, <1>2
<1>3. ASSUME NEW u \in CtrThreads, CtrUnlock(u)
      PROVE  \/ absolute' >= absolute
             \/ kind = "period" /\ \E t \in CtrThreads :
                   ctrupd[t].pc = "unlock" /\ ctrupd'[t].pc = "add" /\ tnow[t] < absolute
             \/ kind = "second" /\ clk >= CtrWrap
  <2>1. ctrupd[u].pc = "unlock" /\ absolute' = ctrupd[u].abs /\ ctrupd'[u].pc = "add"
    BY <1>3, SMTT(30) DEF CtrUnlock, CtrInv, CtrTypes, not_updating
  <2>2. ctrupd[u].abs >= absolute \/ Behind(u)
    BY <2>1 DEF CtrInv, CtrHolder
  <2>3. kind = "second" => absolute <= clk
    BY SMTT(30) DEF CtrInv, DateOk
  <2> QED BY <1>0, <1>1, <2>1, <2>2, <2>3 DEF Behind
<1> QED BY <1>2, <1>3, Unlocked

\* The counter that a thread leaves is of a period its date is in.
LEMMA RotatedBy ==
  ASSUME CtrInv, [CtrNext]_ctrVars, NEW t \in CtrThreads,
         ctrupd[t].pc = "unlock", ctrupd'[t].pc = "add"
  PROVE  \/ tnow[t] - absolute' < (IF kind = "second" THEN 1 ELSE Period + (Period % 2))
         \/ kind = "second" /\ tnow[t] >= CtrWrap
         \/ tnow[t] >= absolute + CtrWrap
<1>1. InTime(t) /\ ctrupd \in [CtrThreads -> [pc : CtrPcs, date : Nat, abs : Nat]]
  BY DEF CtrInv, CtrHolder, CtrTypes
<1>2. PICK u \in CtrThreads : CtrStep(u)
  BY DEF CtrNext, ctrVars
<1>3. CASE CtrUnlock(t)
  BY <1>1, <1>3 DEF CtrUnlock, InTime
<1>4. CASE CtrRead(u)
  BY <1>4, CopyStep
<1>5. CASE CtrPoll(u) \/ CtrStart(u) \/ CtrLock(u) \/ Rotate(u) \/ Sub(u) \/ Missed(u) \/ CtrAdd(u)
  <2>1. ctrupd'[t].pc # "add" \/ ctrupd[t].pc # "unlock"
    BY <1>1, <1>5 DEF CtrPoll, CtrStart, CtrLock, Rotate, Sub, Missed, CtrAdd, outside, not_updating
  <2> QED BY <2>1
<1>6. CASE CtrUnlock(u) /\ u # t
  BY <1>1, <1>6 DEF CtrUnlock
<1> QED BY <1>2, <1>3, <1>4, <1>5, <1>6, ZenonT(30) DEF CtrStep, CtrRead

\* The counter that a reader takes for unused is.
LEMMA UnusedBecause ==
  ASSUME CtrInv, [CtrNext]_ctrVars, NEW t \in CtrThreads,
         copy[t].pc = "date2", copy'[t].pc = "use", too_old(t, copy[t].d)
  PROVE  \/ tnow[t] - absolute >= (IF kind = "second" THEN 2 ELSE 2 * Period)
         \/ kind = "second" /\ (tnow[t] < absolute \/ tnow[t] >= CtrWrap)
         \/ kind = "period" /\ absolute - tnow[t] >= (CtrWrap \div 2) - 2 * Period
<1>0. CtrWrap \in Nat /\ CtrWrap > 0 /\ Period \in Nat /\ CtrWrap \div 2 \in Nat
  BY CtrConstants
<1>1. copy[t].d = raw_date
  BY Accepted
<1>2. /\ copy[t].d \in Nat /\ copy[t].abs \in Nat /\ absolute \in Nat /\ tnow[t] \in Nat
      /\ CtrReader(t) /\ curr_date = absolute % CtrWrap /\ kind \in {"second", "period"}
  BY DEF CtrInv, CtrTypes, DateOk
<1>3. /\ copy[t].d = copy[t].abs % CtrWrap
      /\ kind = "period" => copy[t].d % 2 = 0
  BY <1>2 DEF CtrReader
<1>4. copy[t].d < CtrWrap
  BY <1>0, <1>2, <1>3, IntDivMod
<1>5. copy[t].d = absolute % CtrWrap
  BY <1>1, <1>2, <1>3, <1>4, NotLocked
<1> DEFINE n == tnow[t]
           a == absolute
<1>6. n \in Nat /\ a \in Nat
  BY <1>2
<1> HIDE DEF n, a
<1>7. CASE kind = "second"
  <2>1. n - (a % CtrWrap) \notin {0, 1}
    BY <1>5, <1>7, Zenon DEF too_old, n, a
  <2>2. ASSUME a < CtrWrap PROVE n - a >= 2 \/ n < a
    BY <1>0, <1>6, <2>1, <2>2, ModSmall
  <2> QED BY <1>0, <1>6, <1>7, <2>2 DEF n, a
<1>8. CASE kind = "period"
  <2> DEFINE k == 2 * Period
  <2>1. k \in Nat
    BY <1>0
  <2>2. udiff((a % CtrWrap) + k, n % CtrWrap) >= CtrWrap \div 2
    BY <1>5, <1>8 DEF too_old, negative, today, n, a
  <2> HIDE DEF k
  <2>3. udiff((a % CtrWrap) + k, n % CtrWrap) = ((a + k) - n) % CtrWrap
    <3>1. n \in Int /\ a \in Int /\ k \in Int
      BY <1>6, <2>1
    <3> QED BY <3>1, DatesApart, Zenon
  <2>4. ASSUME n - a < k PROVE a - n >= (CtrWrap \div 2) - k
    <3> DEFINE x == (a + k) - n
    <3>1. x \in Nat
      BY <1>6, <2>1, <2>4
    <3>2. x % CtrWrap >= CtrWrap \div 2
      BY <2>2, <2>3, Zenon
    <3> HIDE DEF x
    <3>3. x % CtrWrap <= x /\ x % CtrWrap \in Nat
      BY <1>0, <3>1, ModSmall, IntDivMod
    <3>4. x >= CtrWrap \div 2
      BY <1>0, <3>1, <3>2, <3>3
    <3> QED BY <1>0, <1>6, <2>1, <3>4 DEF x
  <2> QED BY <1>6, <1>8, <2>1, <2>4 DEF n, a, k
<1> QED BY <1>2, <1>7, <1>8

\* For any number of threads, any period of at least two ticks and any turn of the dates, no
\* frequency counter loses an event or counts one twice, its periods begin in time, its date
\* goes forward, and what a reader accepts is what the counter was, with the exceptions that
\* the properties name (update_freq_ctr(), update_freq_ctr_period(), read_freq_ctr()).
THEOREM CountersStayTrue == CtrSpec => CountersTrue
<1>1. CtrInit => CtrInv
  BY CtrInvInit
<1>2. CtrInv /\ [CtrNext]_ctrVars => CtrInv'
  BY CtrInvNext
<1>3. CtrInv => EventsCounted
  BY CtrInvCounted
<1>4. CtrInv /\ [CtrNext]_ctrVars =>
        [\A t \in CtrThreads :
          copy[t].pc = "date2" /\ copy'[t].pc = "use" =>
              \/ ~locked /\ copy[t].p = prev /\ copy[t].c <= curr
              \/ absolute >= copy[t].abs + CtrWrap
              \/ t \in crossed]_ctrVars
  BY AcceptedExact
<1>5. CtrInv /\ [CtrNext]_ctrVars =>
        [\A t \in CtrThreads :
          ctrupd[t].pc = "unlock" /\ ctrupd'[t].pc = "add" =>
              \/ tnow[t] - absolute' < (IF kind = "second" THEN 1 ELSE Period + (Period % 2))
              \/ kind = "second" /\ tnow[t] >= CtrWrap
              \/ tnow[t] >= absolute + CtrWrap]_ctrVars
  BY RotatedBy
<1>6. CtrInv /\ [CtrNext]_ctrVars =>
        [\/ absolute' >= absolute
         \/ kind = "period" /\ \E t \in CtrThreads :
               ctrupd[t].pc = "unlock" /\ ctrupd'[t].pc = "add" /\ tnow[t] < absolute
         \/ kind = "second" /\ clk >= CtrWrap]_ctrVars
  BY MovedForward
<1>7. CtrInv /\ [CtrNext]_ctrVars =>
        [\A t \in CtrThreads :
          copy[t].pc = "date2" /\ copy'[t].pc = "use" /\ too_old(t, copy[t].d) =>
              \/ tnow[t] - absolute >= (IF kind = "second" THEN 2 ELSE 2 * Period)
              \/ kind = "second" /\ (tnow[t] < absolute \/ tnow[t] >= CtrWrap)
              \/ kind = "period" /\ absolute - tnow[t] >= (CtrWrap \div 2) - 2 * Period]_ctrVars
  BY UnusedBecause
<1> QED
  BY <1>1, <1>2, <1>3, <1>4, <1>5, <1>6, <1>7, PTL
     DEF CtrSpec, CountersTrue, CopyExact, RotatedInTime, DateForward, UnusedReason
===============================================================================
