----------------------------- MODULE HttpBlocks -----------------------------
(***************************************************************************)
(* What the two HTTP buffers of a stream promise, whatever their layout:   *)
(* two sequences of units.  A unit is a start line, a header, a marker, or *)
(* one byte of body (where blocks of body are cut does not matter).  The   *)
(* receive buffer of the multiplexer (rx) grows at its end, its beginning  *)
(* moves to the end of the channel (ch), the beginning of which is sent.   *)
(* In between the analysers edit the channel in place.                     *)
(***************************************************************************)
EXTENDS Naturals, Sequences, SequencesExt

CONSTANTS Reply,      \* a reply generated by the proxy
          UnitLens    \* lengths of a start line or of a header

VARIABLES rx, ch

Data == [type |-> "DATA", len |-> 1]
Body == {"SL", "HDR", "EOH", "DATA"}

first_n(s, n) == SubSeq(s, 1, n)
but_n(s, n) == SubSeq(s, n + 1, Len(s))

BInit == rx = <<>> /\ ch = <<>>

Receive == IsPrefix(rx, rx') /\ UNCHANGED ch

Transfer == \E n \in 0..Len(rx) : ch' = ch \o first_n(rx, n) /\ rx' = but_n(rx, n)

Sent == \E n \in 1..Len(ch) : ch' = but_n(ch, n) /\ UNCHANGED rx

Edited(i, s) == ch' = first_n(ch, i - 1) \o s \o but_n(ch, i) /\ UNCHANGED rx

Resize == \E i \in 1..Len(ch), n \in UnitLens :
             ch[i].type \in {"SL", "HDR"} /\ Edited(i, <<[ch[i] EXCEPT !.len = n]>>)

RemoveHeader == \E i \in 1..Len(ch) : ch[i].type = "HDR" /\ Edited(i, <<>>)

(* Just before the end of headers; anywhere after the start line when that  *)
(* end is missing.                                                          *)
AddHeader == \E i \in 0..Len(ch), n \in UnitLens :
                /\ \/ i < Len(ch) /\ ch[i + 1].type = "EOH"
                   \/ i > 0 /\ \A j \in 1..Len(ch) : ch[j].type # "EOH"
                /\ ch' = first_n(ch, i) \o <<[type |-> "HDR", len |-> n]>> \o but_n(ch, i)
                /\ UNCHANGED rx

(* A part of the body is encoded in another size. *)
Encode == \E i \in 1..Len(ch), n \in UnitLens :
             LET k == Len(ch) - Len(ch') + i - 1 + n
             IN /\ k \in i..Len(ch)
                /\ \A j \in i..k : ch[j] = Data
                /\ ch' = first_n(ch, i - 1) \o [j \in 1..n |-> Data] \o but_n(ch, k)
                /\ UNCHANGED rx

(* The end of the encoded body comes after the body, before the trailers    *)
(* and the end of the message.                                              *)
Flush == \E i \in 0..Len(ch), n \in UnitLens :
            /\ \A j \in 1..Len(ch) : ch[j].type \in Body <=> j <= i
            /\ ch' = first_n(ch, i) \o [j \in 1..n |-> Data] \o but_n(ch, i)
            /\ UNCHANGED rx

(* What was not forwarded yet is dropped and the reply takes its place,     *)
(* entirely or not at all.                                                  *)
ReplyInstead == \E n \in 0..Len(ch), r \in {<<>>, Reply} :
                   ch' = first_n(ch, n) \o r /\ UNCHANGED rx

BNext == \/ Receive \/ Transfer \/ Sent \/ Resize \/ RemoveHeader \/ AddHeader
         \/ Encode \/ Flush \/ ReplyInstead

BSpec == BInit /\ [][BNext]_<<rx, ch>>
=============================================================================
