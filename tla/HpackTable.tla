----------------------------- MODULE HpackTable -----------------------------
(***************************************************************************)
(* What the dynamic table of HPACK is: the header fields last inserted,    *)
(* newest first, as many as fit when each costs its length and Overhead;   *)
(* the oldest are evicted first, and a field larger than the table empties *)
(* it without being inserted.                                              *)
(***************************************************************************)
EXTENDS Naturals, Sequences

CONSTANTS HFields,   \* header fields: [len, id]
          HSize,     \* size of the table
          Overhead   \* cost of a field besides its length

VARIABLE fields

cost(s) == LET c[i \in 0..Len(s)] == IF i = 0 THEN 0 ELSE c[i - 1] + s[i].len + Overhead
           IN c[Len(s)]

(* The longest prefix of s that costs at most n. *)
fitting(s, n) ==
    LET k == CHOOSE k \in 0..Len(s) : /\ cost(SubSeq(s, 1, k)) <= n
                                      /\ k = Len(s) \/ cost(SubSeq(s, 1, k + 1)) > n
    IN SubSeq(s, 1, k)

HInit == fields = <<>>

Insert(f) ==
    fields' = IF f.len + Overhead > HSize THEN <<>>
              ELSE <<f>> \o fitting(fields, HSize - f.len - Overhead)

(* No memory: what had to be evicted is, the field is not inserted. *)
InsertFails(f) == fields' = fitting(fields, HSize - f.len - Overhead)

HNext == \E f \in HFields : Insert(f) \/ InsertFails(f)

HSpec == HInit /\ [][HNext]_fields
=============================================================================
