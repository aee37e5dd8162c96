----------------------------- MODULE MCThreads -----------------------------
(*****************************************************************************)
(* What the threads must get done once it has begun, in one model: the tasks of *)
(* the scheduler, the rendez-vous, the packets built in the ring of TX buffers of *)
(* a QUIC connection and those it has received.  The components share no state: *)
(* each behaviour is one of a single component.                              *)
(*****************************************************************************)
EXTENDS Scheduler, RendezVous, QuicTxRing, QuicReceive

VARIABLE part    \* the component that runs

MCMask == [t \in STasks |-> IF t = "shared" THEN SThreads ELSE {1}]
MCTid == [k \in STasklets |-> 1]
pkt(t, n, k, c) == [type |-> t, pn |-> n, crypto |-> k, cid |-> c]
MCDgrams == {<<pkt("initial", 0, 0, "o")>>, <<pkt("initial", 1, 1, "o")>>,
             <<pkt("initial", 2, 1, "s"), pkt("handshake", 0, 0, "s")>>,
             <<pkt("handshake", 1, 1, "s")>>,
             <<pkt("handshake", 2, -1, "s"), pkt("app", 0, -1, "s")>>,
             <<pkt("initial", 1, 1, "o"), pkt("handshake", 0, 0, "s")>>,
             <<pkt("app", 0, -1, "s")>>}

vars == <<part, sVars, rdvVars, ringVars, rxVars>>

Init == /\ part \in {"scheduler", "rdv", "txring", "receive"}
        /\ SInit
        /\ RInit
        /\ RingInit
        /\ RxInit
        /\ part # "receive" => ~rxq.early

\* component c takes the step, the others do not move
Only(c) == /\ part = c /\ UNCHANGED part
           /\ c # "scheduler" => UNCHANGED sVars
           /\ c # "rdv" => UNCHANGED rdvVars
           /\ c # "txring" => UNCHANGED ringVars
           /\ c # "receive" => UNCHANGED rxVars

Next == \/ Only("scheduler") /\ SNext
        \/ Only("rdv") /\ RNext
        \/ Only("txring") /\ RingNext
        \/ Only("receive") /\ RxNext

\* one step of a thread in its loop (a connection belongs to one thread)
ThreadStep(i) == \/ i \in SThreads /\ Loop(i) /\ Only("scheduler")
                 \/ i \in RThreads /\ RStep(i) /\ Only("rdv")
                 \/ i = 1 /\ Only("txring") /\ (EndPrep \/ Send \/ EndSend)
                 \/ i = 1 /\ Only("receive") /\ (StartHdshk \/ HdshkLevel \/ TreatApp)

Fairness == \A i \in SThreads \cup RThreads : WF_vars(ThreadStep(i))

Spec == Init /\ [][Next]_vars /\ Fairness
=============================================================================
