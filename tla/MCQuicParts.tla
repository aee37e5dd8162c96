---------------------------- MODULE MCQuicParts ----------------------------
(*****************************************************************************)
(* Parts of the QUIC transport that are modelled each on its own, in one model: *)
(* the RTT estimator, the congestion controller, the packet numbers and the  *)
(* CRYPTO data.  They share no state: each behaviour is one of a single component. *)
(*****************************************************************************)
EXTENDS QuicRtt, QuicCC, QuicPktNum, QuicCrypto

VARIABLE part    \* the component that runs

MCData == [l \in CryptoLevels |-> IF l = "I" THEN 1 ELSE 3]

vars == <<part, rttVars, ccVars, pnVars, cryptoVars>>

Init == /\ part \in {"rtt", "cc", "pktnum", "crypto"}
        /\ RttInit
        /\ CCInit
        /\ PnInit
        /\ CryptoInit

\* component c takes the step, the others do not move
Only(c) == /\ part = c /\ UNCHANGED part
           /\ c # "rtt" => UNCHANGED rttVars
           /\ c # "cc" => UNCHANGED ccVars
           /\ c # "pktnum" => UNCHANGED pnVars
           /\ c # "crypto" => UNCHANGED cryptoVars

Next == \/ Only("rtt") /\ RttNext
        \/ Only("cc") /\ CCNext
        \/ Only("pktnum") /\ PnNext
        \/ Only("crypto") /\ CryptoNext

Spec == Init /\ [][Next]_vars
=============================================================================
