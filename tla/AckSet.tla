------------------------------- MODULE AckSet -------------------------------
(***************************************************************************)
(* What the receiving side of a packet number space promises: a set of     *)
(* packet numbers to acknowledge.  Treating a packet adds its number and   *)
(* nothing else.  Making room in an ACK frame forgets the lowest numbers   *)
(* and nothing else, so that the newest packets are the last to be         *)
(* forgotten.                                                              *)
(***************************************************************************)
EXTENDS Integers

CONSTANT Pns           \* the packet numbers

VARIABLE acks

Init == acks = {}

Add(pn) == acks' = acks \cup {pn}

Forget(pn) == acks' = {n \in acks : n > pn}

Next == \E pn \in Pns : Add(pn) \/ Forget(pn)

Spec == Init /\ [][Next]_acks
=============================================================================
