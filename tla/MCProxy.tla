------------------------------ MODULE MCProxy ------------------------------
(*****************************************************************************)
(* What the threads of the proxy work on, in one model: the descriptors they *)
(* poll, the listeners, the queues of streams and the states of the servers.  *)
(* The components share no state: each behaviour is one of a single component. *)
(*****************************************************************************)
EXTENDS FdList, FdPolling, SrvQueue, Listener, ServerState

VARIABLE part    \* the component that runs

MinusOne == -1
One == [v \in QServers |-> 1]
MCProxy == [l1 |-> "p1", l2 |-> "p2"]
MCBind == [l1 |-> {1, 2}, l2 |-> {1}]
MCMax == [l1 |-> 1, l2 |-> 0]
MCTrack == [s \in VServers |-> IF s = "b" THEN "a" ELSE "none"]
MCOps == [s \in VServers |->
             IF s = "a" THEN {"maint", "ready", "drain", "health", "agent", "switch",
                              "switchagent", "lost"}
                        ELSE {"maint", "weight"}]

vars == <<part, fVars, pVars, qVars, lVars, vVars>>

Init == /\ part \in {"fdlist", "fdpolling", "queue", "listener", "server"}
        /\ FInit
        /\ PInit
        /\ QInit
        /\ LInit
        /\ VInit
        /\ part # "queue" => nbthread = 1

\* component c takes the step, the others do not move
Only(c) == /\ part = c /\ UNCHANGED part
           /\ c # "fdlist" => UNCHANGED fVars
           /\ c # "fdpolling" => UNCHANGED pVars
           /\ c # "queue" => UNCHANGED qVars
           /\ c # "listener" => UNCHANGED lVars
           /\ c # "server" => UNCHANGED vVars

Next == \/ Only("fdlist") /\ FNext
        \/ Only("fdpolling") /\ PNext
        \/ Only("queue") /\ QNext
        \/ Only("listener") /\ LNext
        \/ Only("server") /\ VNext

Spec == Init /\ [][Next]_vars
=============================================================================
