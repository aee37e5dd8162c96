---------------------------- MODULE MCStructures ----------------------------
(*****************************************************************************)
(* The structures of HAProxy, in one model: those that threads or processes share *)
(* without a lock or around a lock of its own, the caches of shared blocks, the *)
(* table of headers, the blocks of a message, the ranges to acknowledge and the *)
(* trees of the round robin.  The components share no state: each behaviour is *)
(* one of a single component.                                                *)
(*****************************************************************************)
EXTENDS AcceptQueue, Pools, LogRing, ShctxLock, Clock, FreqCtr, HttpCache,
        SslSessCache, HpackDht, HtxBuffers, QuicAckRanges, LbFwrr

VARIABLE part    \* the component that runs

MCUriKey == [uri \in Uris |-> 2]    \* two requests with the same hash
MCServers == <<"a", "b", "c", "d">>
MCWeights == [s \in {"a", "b", "c", "d"} |->
                CASE s = "a" -> {1, 2} [] s = "b" -> {0, 2} [] s = "c" -> {0, 1} [] s = "d" -> {1}]

vars == <<part, aqVars, plVars, rgVars, lockVars, tmVars, ctrVars, cVars, ssVars, dht,
          hVars, ackVars, lbVars>>

Init == /\ part \in {"acceptq", "pools", "ring", "shctxlock", "clock", "freqctr",
                       "cache", "sslsess", "hpack", "htx", "ackranges", "lb"}
        /\ AqInit
        /\ PlInit
        /\ RgInit
        /\ LkInit
        /\ TmInit
        /\ CtrInit
        /\ CInit
        /\ SsInit
        /\ DInit
        /\ HtInit
        /\ AckInit
        /\ LbInit
        /\ part # "freqctr" => kind = "second"
        /\ part # "lb" => lbprm.all /\ \A s \in Servers : \A x \in MCWeights[s] : x <= lbsrv[s].cur.eweight

\* component c takes the step, the others do not move
Only(c) == /\ part = c /\ UNCHANGED part
           /\ c # "acceptq" => UNCHANGED aqVars
           /\ c # "pools" => UNCHANGED plVars
           /\ c # "ring" => UNCHANGED rgVars
           /\ c # "shctxlock" => UNCHANGED lockVars
           /\ c # "clock" => UNCHANGED tmVars
           /\ c # "freqctr" => UNCHANGED ctrVars
           /\ c # "cache" => UNCHANGED cVars
           /\ c # "sslsess" => UNCHANGED ssVars
           /\ c # "hpack" => UNCHANGED dht
           /\ c # "htx" => UNCHANGED hVars
           /\ c # "ackranges" => UNCHANGED ackVars
           /\ c # "lb" => UNCHANGED lbVars

Next == \/ Only("acceptq") /\ AqNext
        \/ Only("pools") /\ PlNext
        \/ Only("ring") /\ RgNext
        \/ Only("shctxlock") /\ LkNext
        \/ Only("clock") /\ TmNext
        \/ Only("freqctr") /\ CtrNext
        \/ Only("cache") /\ CNext
        \/ Only("sslsess") /\ SsNext
        \/ Only("hpack") /\ DNext
        \/ Only("htx") /\ HtNext
        \/ Only("ackranges") /\ AckNext
        \/ Only("lb") /\ LbNext

Spec == Init /\ [][Next]_vars
=============================================================================
