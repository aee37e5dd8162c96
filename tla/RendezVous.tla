---------------------------- MODULE RendezVous -----------------------------
(***************************************************************************)
(* The rendez-vous point of the threads (src/hathreads.c and               *)
(* include/common/hathreads.h): a thread isolates itself, which lets it    *)
(* work while all the others promise not to touch anything shared, and     *)
(* each thread is harmless while it waits in the poller.  A step is one    *)
(* atomic operation or one test of a mask.                                 *)
(***************************************************************************)
EXTENDS FiniteSets

CONSTANTS RThreads,   \* the threads of all_threads_mask
          RObserved   \* those whose progress is looked at: the threads are all alike

VARIABLES threads_want_rdv_mask,
          threads_harmless_mask,
          rpc,        \* where each thread is
          rold        \* [RThreads -> SUBSET RThreads]: old, in thread_isolate()

masks == <<threads_want_rdv_mask, threads_harmless_mask>>
rdvVars == <<masks, rpc, rold>>

RInit ==
  /\ threads_want_rdv_mask = {} /\ threads_harmless_mask = {}
  /\ rpc = [i \in RThreads |-> "work"]
  /\ rold = [i \in RThreads |-> {}]

Step(i, from, to) == rpc[i] = from /\ rpc' = [rpc EXCEPT ![i] = to]
want(S) == threads_want_rdv_mask' = S
harmless(S) == threads_harmless_mask' = S
Wanted == threads_want_rdv_mask # {}
-----------------------------------------------------------------------------
\* thread_harmless_now() and thread_harmless_end(), around the poller
HarmlessNow(i) ==
  /\ Step(i, "work", "poll")
  /\ harmless(threads_harmless_mask \cup {i})
  /\ UNCHANGED <<threads_want_rdv_mask, rold>>

HarmlessEnd(i) ==
  /\ Step(i, "poll", "end")
  /\ harmless(threads_harmless_mask \ {i})
  /\ UNCHANGED <<threads_want_rdv_mask, rold>>

EndTest(i) ==
  /\ Step(i, "end", IF Wanted THEN "again" ELSE "work")
  /\ UNCHANGED <<masks, rold>>

\* thread_harmless_till_end()
HarmlessAgain(i) ==
  /\ Step(i, "again", "till")
  /\ harmless(threads_harmless_mask \cup {i})
  /\ UNCHANGED <<threads_want_rdv_mask, rold>>

TillEnd(i) == ~Wanted /\ Step(i, "till", "poll") /\ UNCHANGED <<masks, rold>>
-----------------------------------------------------------------------------
\* thread_isolate()
Isolate(i) ==
  /\ Step(i, "work", "want")
  /\ harmless(threads_harmless_mask \cup {i})
  /\ UNCHANGED <<threads_want_rdv_mask, rold>>

Want(i) ==
  /\ Step(i, "want", "read")
  /\ want(threads_want_rdv_mask \cup {i})
  /\ UNCHANGED <<threads_harmless_mask, rold>>

ReadMask(i) ==
  /\ rold[i] # RThreads
  /\ Step(i, "read", "read")
  /\ rold' = [rold EXCEPT ![i] = threads_harmless_mask]
  /\ rold' # rold
  /\ UNCHANGED masks

\* A mutation of CompareAndSwap: the mask is not compared again.
SwapOnly(i) ==
  /\ rold[i] = RThreads
  /\ Step(i, "read", "isolated") /\ harmless(threads_harmless_mask \ {i})
  /\ rold' = [rold EXCEPT ![i] = {}]
  /\ UNCHANGED threads_want_rdv_mask

CompareAndSwap(i) ==
  /\ rold[i] = RThreads
  /\ IF threads_harmless_mask = RThreads
     THEN /\ Step(i, "read", "isolated") /\ harmless(RThreads \ {i})
          /\ rold' = [rold EXCEPT ![i] = {}]
     ELSE /\ Step(i, "read", "read") /\ UNCHANGED threads_harmless_mask
          /\ rold' = [rold EXCEPT ![i] = threads_harmless_mask]
  /\ UNCHANGED threads_want_rdv_mask
-----------------------------------------------------------------------------
\* thread_release()
Release(i) ==
  /\ Step(i, "isolated", "rel")
  /\ want(threads_want_rdv_mask \ {i})
  /\ UNCHANGED <<threads_harmless_mask, rold>>

\* A mutation of RelTest: the thread goes back to work although others are isolated.
RelTestNot(i) == Step(i, "rel", "work") /\ UNCHANGED <<masks, rold>>

\* The thread is harmless as long as others want the rendez-vous.
RelTest(i) ==
  /\ Step(i, "rel", IF Wanted THEN "rel_or" ELSE "work")
  /\ UNCHANGED <<masks, rold>>

RelHarmless(i) ==
  /\ Step(i, "rel_or", "rel_wait")
  /\ harmless(threads_harmless_mask \cup {i})
  /\ UNCHANGED <<threads_want_rdv_mask, rold>>

RelWait(i) == ~Wanted /\ Step(i, "rel_wait", "rel_and") /\ UNCHANGED <<masks, rold>>

RelHarmful(i) ==
  /\ Step(i, "rel_and", "rel")
  /\ harmless(threads_harmless_mask \ {i})
  /\ UNCHANGED <<threads_want_rdv_mask, rold>>

\* What a thread does in time: the poller returns, isolated work ends.
RStep(i) ==
  \/ HarmlessNow(i) \/ HarmlessEnd(i) \/ EndTest(i) \/ HarmlessAgain(i) \/ TillEnd(i)
  \/ Want(i) \/ ReadMask(i) \/ CompareAndSwap(i)
  \/ Release(i) \/ RelTest(i) \/ RelHarmless(i) \/ RelWait(i) \/ RelHarmful(i)

RNext == \E i \in RThreads : RStep(i) \/ Isolate(i)

RFairness == \A i \in RThreads : WF_rdvVars(RStep(i))
RSpec == RInit /\ [][RNext]_rdvVars
-----------------------------------------------------------------------------
\* A thread that left thread_isolate() works alone: no other thread is isolated or at work
\* until it calls thread_release(), and thread_isolated() is true
\* for it alone.
Isolation ==
  \A i \in RThreads : rpc[i] = "isolated" =>
    /\ \A j \in RThreads \ {i} : rpc[j] \notin {"work", "isolated"}
    /\ threads_want_rdv_mask \ threads_harmless_mask = {i}

\* A thread that asks for the rendez-vous obtains it: every thread goes back to the poller
\* or to the rendez-vous, and those which have left it wait for those which ask.
IsolateServed == \A i \in RObserved : (rpc[i] = "want") ~> (rpc[i] = "isolated")

\* A thread held by the rendez-vous works again once the requests stop.  It may miss the
\* moments when nobody wants it as long as they do not: the tests of the mask are spins.
Released ==
  <>[](\A j \in RThreads : rpc[j] # "want") =>
    \A i \in RObserved : (rpc[i] \in {"till", "rel"}) ~> (rpc[i] = "work")

\* The rendez-vous serves everybody: those that ask for it obtain it, and those that it
\* holds go back to work (thread_isolate() and thread_release(), thread_harmless_end()).
RdvServed == IsolateServed /\ Released
=============================================================================
