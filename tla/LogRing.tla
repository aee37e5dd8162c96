-------------------------------- MODULE LogRing --------------------------------
(***************************************************************************)
(* The ring of events of src/src/ring.c: messages written under the lock,  *)
(* the oldest ones being overwritten, and readers (the CLI's "show events")*)
(* that hold their place by a counter kept in front of each message.       *)
(* Positions are absolute offsets (ring->ofs plus the offset in the        *)
(* buffer); a message is its number and the bytes it takes, its encoded    *)
(* length and the counter that follows it included.                        *)
(***************************************************************************)
EXTENDS Naturals, FiniteSets, Sequences, SequencesExt

CONSTANTS
    Readers,    \* appctx that watch the ring
    RSize,      \* b_size(buf)
    Sizes,      \* bytes a message takes: encoded length, text, counter
    Follow,     \* the readers that wait for new events (bit 0 of i0)
    FromEnd,    \* the readers that start with the next event (bit 1 of i0)
    MaxWrites   \* bound: messages written

VARIABLES
    msgs,       \* the messages of the ring, oldest first: [id, size]
    ofs,        \* ring->ofs: the absolute offset of the first byte of the ring
    rc,         \* the read counter in front of each message, by absolute offset
    ring_waiters, \* ring->waiters
    readers_count,
    rdr,        \* per reader: pc, o0 (<<>> before it has a place), woken, got
    writes,     \* messages written so far
    entered,    \* history: the messages for which there was room
    rgpast      \* history: the readers that queued themselves behind a message

rgVars == <<msgs, ofs, rc, ring_waiters, readers_count, rdr, writes, entered, rgpast>>

away == [pc |-> "away", o0 |-> <<>>, woken |-> FALSE, got |-> <<>>]

RgInit ==
    /\ msgs = <<>>
    /\ ofs = 0
    /\ rc = [p \in {0} |-> 0]
    /\ ring_waiters = {}
    /\ readers_count = 0
    /\ rdr = [r \in Readers |-> away]
    /\ writes = 0
    /\ entered = {}
    /\ rgpast = {}

bytes(s) == LET sum[i \in 0 .. Len(s)] == IF i = 0 THEN 0 ELSE sum[i - 1] + s[i].size IN sum[Len(s)]
ring_data == 1 + bytes(msgs)
end == ofs + bytes(msgs)
(* The messages that follow position p, which is in front of one of them or at the end. *)
after(p) == SelectSeq(msgs, LAMBDA m : m.pos >= p)


(* The oldest messages are deleted for <size> bytes, as far as no reader is there. *)
deleted(size) ==
    LET room(k) == RSize - 1 - bytes(SubSeq(msgs, k + 1, Len(msgs)))
        free(k) == \A i \in 1 .. k : rc[msgs[i].pos] = 0
        ok == {k \in 0 .. Len(msgs) : free(k) /\ \A j \in 0 .. k - 1 : room(j) < size}
    IN CHOOSE k \in ok : \A j \in ok : j <= k

(* ring_write(): the message is written if there is room, and the waiters are woken. *)
RingWrite(size) ==
    /\ writes < MaxWrites
    /\ size + 1 <= RSize
    /\ writes' = writes + 1
    /\ LET k == deleted(size)
           kept == SubSeq(msgs, k + 1, Len(msgs))
           fits == RSize - 1 - bytes(kept) >= size
           first == IF k = 0 THEN ofs ELSE msgs[k].pos + msgs[k].size
           new == [id |-> writes + 1, pos |-> end, size |-> size]
       IN /\ ofs' = first
          /\ msgs' = IF fits THEN Append(kept, new) ELSE kept
          /\ rc' = [p \in {x \in DOMAIN rc : x >= first} \cup (IF fits THEN {end + size} ELSE {})
                       |-> IF p \in DOMAIN rc THEN rc[p] ELSE 0]
          /\ rdr' = [r \in Readers |-> IF fits /\ r \in ring_waiters THEN [rdr[r] EXCEPT !.woken = TRUE] ELSE rdr[r]]
          /\ entered' = entered \cup IF fits THEN {writes + 1} ELSE {}
    /\ UNCHANGED <<ring_waiters, readers_count, rgpast>>

(* ring_attach() *)
Attach(r) ==
    /\ rdr[r].pc = "away"
    /\ readers_count' = readers_count + 1
    /\ rdr' = [rdr EXCEPT ![r] = [away EXCEPT !.pc = "idle", !.woken = TRUE]]
    /\ UNCHANGED <<msgs, ofs, rc, ring_waiters, writes, entered, rgpast>>

(* cli_io_handler_show_ring() is called: the reader leaves the list of waiters. *)
Called(r) ==
    /\ rdr[r].pc = "idle"
    /\ rdr[r].woken
    /\ ring_waiters' = ring_waiters \ {r}
    /\ rdr' = [rdr EXCEPT ![r].pc = "read", ![r].woken = FALSE]
    /\ UNCHANGED <<msgs, ofs, rc, readers_count, writes, entered, rgpast>>

(* Under the read lock: the reader leaves its place, takes messages until the
   last one or until its output is full, and marks its new place. *)
ReadEvents(r) ==
    /\ rdr[r].pc = "read"
    /\ LET from == IF rdr[r].o0 # <<>> THEN rdr[r].o0[1] ELSE IF r \in FromEnd THEN end ELSE ofs
           left == IF rdr[r].o0 # <<>> THEN [rc EXCEPT ![from] = @ - 1] ELSE rc
           avail == after(from)
       IN \E n \in 0 .. Len(avail) :
             LET dest == IF n = 0 THEN from ELSE avail[n].pos + avail[n].size IN
             /\ rc' = [left EXCEPT ![dest] = @ + 1]
             /\ rdr' = [rdr EXCEPT ![r].o0 = <<dest>>,
                                   ![r].got = @ \o [i \in 1 .. n |-> avail[i].id],
                                   ![r].pc = IF n < Len(avail) THEN "idle" ELSE IF r \in Follow THEN "wait" ELSE "done",
                                   ![r].woken = n < Len(avail)]
    /\ UNCHANGED <<msgs, ofs, ring_waiters, readers_count, writes, entered, rgpast>>

(* A reader that has got everything queues itself, in another section of the lock. *)
WaitEvents(r) ==
    /\ rdr[r].pc = "wait"
    /\ ring_waiters' = ring_waiters \cup {r}
    /\ rdr' = [rdr EXCEPT ![r].pc = "idle"]
    /\ rgpast' = IF rdr[r].o0[1] # end THEN rgpast \cup {r} ELSE rgpast \ {r}
    /\ UNCHANGED <<msgs, ofs, rc, readers_count, writes, entered>>

(* ring_detach_appctx(), when the watch ends or its client leaves *)
Detach(r) ==
    /\ rdr[r].pc \in {"idle", "done"}
    /\ rc' = IF rdr[r].o0 # <<>> THEN [rc EXCEPT ![rdr[r].o0[1]] = @ - 1] ELSE rc
    /\ ring_waiters' = ring_waiters \ {r}
    /\ readers_count' = readers_count - 1
    /\ rdr' = [rdr EXCEPT ![r] = away]
    /\ rgpast' = rgpast \ {r}
    /\ UNCHANGED <<msgs, ofs, writes, entered>>

RgNext ==
    \/ \E s \in Sizes : RingWrite(s)
    \/ \E r \in Readers : Attach(r) \/ Called(r) \/ ReadEvents(r) \/ WaitEvents(r) \/ Detach(r)
RgSpec == RgInit /\ [][RgNext]_rgVars

--------------------------------------------------------------------------------
(* The counter in front of a message is the number of the readers that are
   there, and every reader is at a message of the ring or at its end: what a
   reader has still to read is never overwritten. *)
PlacesHeld ==
    /\ \A r \in Readers : rdr[r].o0 # <<>> => rdr[r].o0[1] \in DOMAIN rc
    /\ \A p \in DOMAIN rc : rc[p] = Cardinality({r \in Readers : rdr[r].o0 = <<p>>})
    /\ DOMAIN rc = {end} \cup {msgs[i].pos : i \in DOMAIN msgs}
    /\ ring_data <= RSize

(* Between the messages it has got, a reader misses none that entered the ring. *)
EventsInOrder ==
    \A r \in Readers : LET got == rdr[r].got IN
        \A i \in 1 .. Len(got) - 1 :
            /\ got[i] < got[i + 1]
            /\ \A m \in entered : ~(got[i] < m /\ m < got[i + 1])

(* The reader waits, nothing has woken it, and a message is left. *)
behind(r) == rdr[r].pc = "idle" /\ ~rdr[r].woken /\ rdr[r].o0 # <<>> /\ rdr[r].o0[1] # end
(* A reader that waits, and that nothing has woken, has got every message,
   unless one was written between the last look of its I/O handler and its
   queueing. *)
MissedReason == \A r \in Readers : behind(r) => r \in rgpast

================================================================================
