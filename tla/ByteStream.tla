----------------------------- MODULE ByteStream -----------------------------
(***************************************************************************)
(* What CRYPTO streams promise to the two TLS stacks that use them, one    *)
(* stream for each encryption level: the receiver is given the bytes the   *)
(* sender has provided, in order, each of them once, and none before it    *)
(* was provided.                                                           *)
(***************************************************************************)
EXTENDS Integers, Sequences

CONSTANT Levels

VARIABLES sent,   \* number of bytes provided in each stream; byte n is the number n
          given   \* bytes given to the receiver

Init ==
  /\ sent = [l \in Levels |-> 0]
  /\ given = [l \in Levels |-> <<>>]

Provide(l) ==
  /\ sent'[l] > sent[l]
  /\ sent' = [sent EXCEPT ![l] = sent'[l]]
  /\ UNCHANGED given

Give(l) ==
  /\ Len(given'[l]) \in Len(given[l]) + 1 .. sent[l]
  /\ given' = [given EXCEPT ![l] = [i \in 1 .. Len(given'[l]) |-> i - 1]]
  /\ UNCHANGED sent

Next == \E l \in Levels : Provide(l) \/ Give(l)

Spec == Init /\ [][Next]_<<sent, given>>
=============================================================================
