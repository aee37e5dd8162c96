------------------------------ MODULE FdList -------------------------------
(***************************************************************************)
(* The global list of file descriptors whose polling changed: the list     *)
(* without lock of src/fd.c, its producers (updt_fd_polling()) and its     *)
(* consumers, the pollers of all the threads (include/proto/fd.h and the   *)
(* scan of src/ev_epoll.c).  A step is one access to the shared memory.    *)
(* The descriptors belong to all the threads, and an entry is locked with  *)
(* a compare-and-swap on both its words.                                   *)
(***************************************************************************)
EXTENDS Integers, FiniteSets

CONSTANTS FThreads,
          Fds,          \* descriptors, which are numbers from 0
          MaxUpdates    \* bound on the changes of polling

VARIABLES fnext, fprev,  \* [Fds -> Int]: update.next and update.prev
          ffirst, flast, \* update_list
          update_mask,   \* [Fds -> SUBSET FThreads]
          fth,           \* [FThreads -> [pc, fd, p, n, then, old]]; p, n: prev or last, next
          updates        \* number of changes so far

links == <<fnext, fprev>>
ends == <<ffirst, flast>>
fVars == <<links, ends, update_mask, fth, updates>>

Nil == -1       \* end of the list
Locked == -2
Out == -3       \* and below: not in the list

FInit ==
  /\ fnext = [f \in Fds |-> Out] /\ fprev = [f \in Fds |-> Out]
  /\ ffirst = Nil /\ flast = Nil
  /\ update_mask = [f \in Fds |-> {}]
  /\ fth = [i \in FThreads |-> [pc |-> "idle", fd |-> Nil, p |-> Nil, n |-> Nil, then |-> "", old |-> Nil]]
  /\ updates = 0

On(i, pc) == fth[i].pc = pc
Jump(i, pc) == fth' = [fth EXCEPT ![i].pc = pc]
\* The end of an operation on an entry.
Back(i) == fth' = [fth EXCEPT ![i].pc = fth[i].then, ![i].p = Nil, ![i].n = Nil]
Fd(i) == fth[i].fd
-----------------------------------------------------------------------------
\* fd_add_to_fd_list()
AddLock(i) ==
  /\ On(i, "add") /\ fnext[Fd(i)] # Locked
  /\ IF fnext[Fd(i)] > Locked THEN Jump(i, fth[i].then) /\ UNCHANGED fnext
     ELSE fnext' = [fnext EXCEPT ![Fd(i)] = Locked] /\ Jump(i, "add_last")
  /\ UNCHANGED <<fprev, ends, update_mask, updates>>

AddLast(i) ==
  /\ On(i, "add_last")
  /\ fth' = [fth EXCEPT ![i].p = flast, ![i].pc = "add_cas"]
  /\ fprev' = [fprev EXCEPT ![Fd(i)] = Locked]
  /\ UNCHANGED <<fnext, ends, update_mask, updates>>

AddCas(i) ==
  LET last == fth[i].p
  IN  /\ On(i, "add_cas")
      /\ CASE last = Nil /\ flast = Nil ->
                Jump(i, "add_first") /\ flast' = Fd(i) /\ UNCHANGED fnext
           [] last # Nil /\ fnext[last] = Nil ->
                Jump(i, "add_end") /\ fnext' = [fnext EXCEPT ![last] = Fd(i)] /\ UNCHANGED flast
           [] OTHER -> Jump(i, "add_last") /\ UNCHANGED <<flast, fnext>>
      /\ UNCHANGED <<fprev, ffirst, update_mask, updates>>

AddFirst(i) ==
  /\ On(i, "add_first")
  /\ ffirst' = Fd(i) /\ Jump(i, "add_prev")
  /\ UNCHANGED <<links, flast, update_mask, updates>>

AddEnd(i) ==
  /\ On(i, "add_end")
  /\ flast' = Fd(i) /\ Jump(i, "add_prev")
  /\ UNCHANGED <<links, ffirst, update_mask, updates>>

AddPrev(i) ==
  /\ On(i, "add_prev")
  /\ fprev' = [fprev EXCEPT ![Fd(i)] = fth[i].p] /\ Jump(i, "add_next")
  /\ UNCHANGED <<fnext, ends, update_mask, updates>>

AddNext(i) ==
  /\ On(i, "add_next")
  /\ fnext' = [fnext EXCEPT ![Fd(i)] = Nil] /\ Back(i)
  /\ UNCHANGED <<fprev, ends, update_mask, updates>>
-----------------------------------------------------------------------------
\* fd_rm_from_fd_list()
RmLock(i) ==
  LET f == Fd(i)
  IN  /\ On(i, "rm")
      /\ IF fnext[f] <= Out THEN Jump(i, fth[i].then) /\ UNCHANGED links
         ELSE /\ fnext[f] # Locked /\ fprev[f] # Locked
              /\ fth' = [fth EXCEPT ![i].p = fprev[f], ![i].n = fnext[f], ![i].pc = "rm_prev"]
              /\ fnext' = [fnext EXCEPT ![f] = Locked] /\ fprev' = [fprev EXCEPT ![f] = Locked]
      /\ UNCHANGED <<ends, update_mask, updates>>

\* Lock the previous entry, or give up if it is locked.
RmLockPrev(i) ==
  LET f == Fd(i)
      p == fth[i].p
  IN  /\ On(i, "rm_prev")
      /\ CASE p = Nil -> Jump(i, "rm_next") /\ UNCHANGED fnext
           [] p # Nil /\ fnext[p] = f ->
                fnext' = [fnext EXCEPT ![p] = Locked] /\ Jump(i, "rm_next")
           [] p # Nil /\ fnext[p] = Locked -> Jump(i, "rm_unlock") /\ UNCHANGED fnext
           [] OTHER -> UNCHANGED <<fth, fnext>>
      /\ UNCHANGED <<fprev, ends, update_mask, updates>>

RmLockNext(i) ==
  LET f == Fd(i)
      n == fth[i].n
  IN  /\ On(i, "rm_next")
      /\ CASE n = Nil -> Jump(i, "rm_first") /\ UNCHANGED fprev
           [] n # Nil /\ fprev[n] = f ->
                fprev' = [fprev EXCEPT ![n] = Locked] /\ Jump(i, "rm_first")
           [] n # Nil /\ fprev[n] = Locked -> Jump(i, "rm_unprev") /\ UNCHANGED fprev
           [] OTHER -> UNCHANGED <<fth, fprev>>
      /\ UNCHANGED <<fnext, ends, update_mask, updates>>

\* Give up: unlock the previous entry, then both words of this one.
RmUnlockPrev(i) ==
  /\ On(i, "rm_unprev")
  /\ fnext' = IF fth[i].p = Nil THEN fnext ELSE [fnext EXCEPT ![fth[i].p] = Fd(i)]
  /\ Jump(i, "rm_unlock")
  /\ UNCHANGED <<fprev, ends, update_mask, updates>>

RmUnlock(i) ==
  /\ On(i, "rm_unlock")
  /\ fprev' = [fprev EXCEPT ![Fd(i)] = fth[i].p] /\ Jump(i, "rm_relink")
  /\ UNCHANGED <<fnext, ends, update_mask, updates>>

RmRelink(i) ==
  /\ On(i, "rm_relink")
  /\ fnext' = [fnext EXCEPT ![Fd(i)] = fth[i].n] /\ Jump(i, "rm")
  /\ UNCHANGED <<fprev, ends, update_mask, updates>>

RmFirst(i) ==
  /\ On(i, "rm_first")
  /\ ffirst' = IF ffirst = Fd(i) THEN fth[i].n ELSE ffirst
  /\ Jump(i, "rm_last")
  /\ UNCHANGED <<links, flast, update_mask, updates>>

RmLast(i) ==
  /\ On(i, "rm_last")
  /\ flast' = IF flast = Fd(i) THEN fth[i].p ELSE flast
  /\ Jump(i, "rm_out_prev")
  /\ UNCHANGED <<links, ffirst, update_mask, updates>>

RmOutPrev(i) ==
  /\ On(i, "rm_out_prev")
  /\ fnext' = IF fth[i].p = Nil THEN fnext ELSE [fnext EXCEPT ![fth[i].p] = fth[i].n]
  /\ Jump(i, "rm_out_next")
  /\ UNCHANGED <<fprev, ends, update_mask, updates>>

RmOutNext(i) ==
  /\ On(i, "rm_out_next")
  /\ fprev' = IF fth[i].n = Nil THEN fprev ELSE [fprev EXCEPT ![fth[i].n] = fth[i].p]
  /\ Jump(i, "rm_out")
  /\ UNCHANGED <<fnext, ends, update_mask, updates>>

\* The entry keeps its successor in a form which says it is out.
RmOut(i) ==
  /\ On(i, "rm_out")
  /\ fnext' = [fnext EXCEPT ![Fd(i)] = -(fth[i].n + 4)]
  /\ Back(i)
  /\ UNCHANGED <<fprev, ends, update_mask, updates>>
-----------------------------------------------------------------------------
\* updt_fd_polling() of a descriptor of several threads
Updt(i, f) ==
  /\ On(i, "idle") /\ updates < MaxUpdates /\ update_mask[f] # FThreads
  /\ update_mask' = [update_mask EXCEPT ![f] = FThreads]
  /\ fth' = [fth EXCEPT ![i].pc = "add", ![i].fd = f, ![i].then = "idle"]
  /\ updates' = updates + 1
  /\ UNCHANGED <<links, ends>>

\* The scan of the list by the poller.
Scan(i) ==
  /\ On(i, "idle") /\ ffirst # Nil
  /\ fth' = [fth EXCEPT ![i].pc = "scan", ![i].fd = ffirst, ![i].old = ffirst]
  /\ UNCHANGED <<links, ends, update_mask, updates>>

\* The scan meets an entry: done_update_polling() if this thread has to handle it.
ScanEntry(i) ==
  LET m == update_mask[Fd(i)] \ {i}
  IN  /\ On(i, "scan")
      /\ update_mask' = [update_mask EXCEPT ![Fd(i)] = m]
      /\ fth' = [fth EXCEPT ![i].pc = IF m = {} /\ i \in update_mask[Fd(i)] THEN "rm" ELSE "next",
                            ![i].then = IF m = {} /\ i \in update_mask[Fd(i)] THEN "done" ELSE ""]
      /\ UNCHANGED <<links, ends, updates>>

\* A mutation of DoneTest: the mask is not read again after the removal.
DoneTestNot(i) ==
  /\ On(i, "done")
  /\ fth' = [fth EXCEPT ![i].pc = "next", ![i].then = ""]
  /\ UNCHANGED <<links, ends, update_mask, updates>>

\* Was it updated again meanwhile, and wrongly removed?
DoneTest(i) ==
  /\ On(i, "done")
  /\ IF update_mask[Fd(i)] # {}
     THEN fth' = [fth EXCEPT ![i].pc = "add", ![i].then = "recheck"]
     ELSE fth' = [fth EXCEPT ![i].pc = "next", ![i].then = ""]
  /\ UNCHANGED <<links, ends, update_mask, updates>>

Recheck(i) ==
  /\ On(i, "recheck")
  /\ IF update_mask[Fd(i)] = {}
     THEN fth' = [fth EXCEPT ![i].pc = "rm", ![i].then = "done"]
     ELSE fth' = [fth EXCEPT ![i].pc = "next", ![i].then = ""]
  /\ UNCHANGED <<links, ends, update_mask, updates>>

\* The next entry; a locked link sends the scan back to the entry it began with.
ScanNext(i) ==
  LET n == fnext[Fd(i)]
      f == IF n <= Out THEN -n - 4 ELSE n
  IN  /\ On(i, "next")
      /\ fth' = CASE f = Locked -> [fth EXCEPT ![i].fd = fth[i].old]
                  [] f = Nil -> [fth EXCEPT ![i].pc = "idle", ![i].fd = Nil, ![i].old = Nil]
                  [] OTHER -> [fth EXCEPT ![i].pc = "scan", ![i].fd = f]
      /\ UNCHANGED <<links, ends, update_mask, updates>>

FStep(i) ==
  \/ AddLock(i) \/ AddLast(i) \/ AddCas(i) \/ AddFirst(i) \/ AddEnd(i) \/ AddPrev(i) \/ AddNext(i)
  \/ RmLock(i) \/ RmLockPrev(i) \/ RmLockNext(i) \/ RmUnlockPrev(i) \/ RmUnlock(i) \/ RmRelink(i)
  \/ RmFirst(i) \/ RmLast(i) \/ RmOutPrev(i) \/ RmOutNext(i) \/ RmOut(i)
  \/ Scan(i) \/ ScanEntry(i) \/ DoneTest(i) \/ Recheck(i) \/ ScanNext(i)

FNext == \E i \in FThreads : FStep(i) \/ \E f \in Fds : Updt(i, f)
FSpec == FInit /\ [][FNext]_fVars
-----------------------------------------------------------------------------
\* No operation on the list is in progress.
Quiet == \A i \in FThreads : fth[i].pc \in {"idle", "scan", "next"}
Listed == {f \in Fds : fnext[f] >= Nil}

\* The list the updates form when no operation is in progress is well formed: each entry
\* is linked to its neighbours both ways, and the ends are those of the list.
WellFormed ==
  Quiet =>
    /\ (ffirst = Nil) <=> (Listed = {})
    /\ (flast = Nil) <=> (Listed = {})
    /\ \A f \in Listed : /\ IF fnext[f] = Nil THEN flast = f
                            ELSE fnext[f] \in Listed /\ fprev[fnext[f]] = f
                         /\ IF fprev[f] = Nil THEN ffirst = f
                            ELSE fprev[f] \in Listed /\ fnext[fprev[f]] = f

\* No change is forgotten: a descriptor some thread has still to look at is in the list, or
\* a thread is adding it or checking whether it must (done_update_polling()).
UpdateKept ==
  \A f \in Fds : update_mask[f] # {} =>
    \/ fnext[f] > Out
    \/ \E i \in FThreads : Fd(i) = f /\ fth[i].pc \notin {"idle", "scan", "next"}

\* An entry whose update every thread has handled leaves the list in the end of the
\* operations: nothing is scanned for ever.
NoneLeft ==
  Quiet => \A f \in Listed : update_mask[f] # {}

\* The list of updates without lock (fd_add_to_fd_list(), fd_rm_from_fd_list()) loses no
\* update and keeps none, and is a list again whenever nobody works on it.
UpdatesListed == WellFormed /\ UpdateKept /\ NoneLeft
=============================================================================
