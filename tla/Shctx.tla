------------------------------- MODULE Shctx -------------------------------
(***************************************************************************)
(* The rows of blocks of src/src/shctx.c, as operators on a shared         *)
(* context: [avail, hot] are its two lists, nbav its counter, and len,     *)
(* count, ref, last and lastapp the fields len, block_count, refcount,     *)
(* last_reserved and last_append of the blocks.  A row is its first block  *)
(* and the count - 1 blocks that follow it in the list it is in.           *)
(***************************************************************************)
EXTENDS Integers, Sequences, SequencesExt

CONSTANTS
    NBlocks,      \* maxblocks
    BlockSize,    \* shctx->block_size
    MaxObjSize    \* shctx->max_obj_size, 0 when there is no limit

Blocks == 1 .. NBlocks
None == 0         \* the NULL block

shctx_init ==
    [avail   |-> [i \in Blocks |-> i],
     hot     |-> <<>>,
     nbav    |-> NBlocks,
     len     |-> [b \in Blocks |-> 0],
     count   |-> [b \in Blocks |-> 1],
     ref     |-> [b \in Blocks |-> 0],
     last    |-> [b \in Blocks |-> None],
     lastapp |-> [b \in Blocks |-> None]]

from(list, b) == LET i == CHOOSE k \in DOMAIN list : list[k] = b IN SubSeq(list, i, Len(list))
first_of(seq, n) == SubSeq(seq, 1, n)
without_blocks(list, s) == SelectSeq(list, LAMBDA b : ~ \E i \in DOMAIN s : s[i] = b)
insert_after(list, b, s) ==
    LET i == CHOOSE k \in DOMAIN list : list[k] = b
    IN SubSeq(list, 1, i) \o s \o SubSeq(list, i + 1, Len(list))

(* The blocks of the row of <b>, and the block that follows one in the hot list. *)
row_in(list, c, b) == first_of(from(list, b), c.count[b])
row(c, b) == row_in(IF \E i \in DOMAIN c.hot : c.hot[i] = b THEN c.hot ELSE c.avail, c, b)
list_next(c, b) == LET l == from(c.hot, b) IN IF Len(l) > 1 THEN l[2] ELSE None

row_room(c, b) == BlockSize * c.count[b] - c.len[b]

(* What a reservation has to take: the blocks beyond the room the row has. *)
blocks_for(c, first, data_len) ==
    LET missing == IF first = None THEN data_len ELSE data_len - row_room(c, first)
    IN (missing + BlockSize - 1) \div BlockSize

reserve_refused(c, first, data_len) ==
    \/ data_len > c.nbav * BlockSize
    \/ /\ MaxObjSize > 0
       /\ data_len + (IF first = None THEN 0 ELSE c.len[first]) > MaxObjSize

(* Whole rows are released from the head of avail until n blocks are. *)
freed_blocks(c, n) ==
    LET upto[p \in 0 .. Len(c.avail)] ==
          IF p >= n \/ p = Len(c.avail) THEN p ELSE upto[p + c.count[c.avail[p + 1]]]
    IN first_of(c.avail, upto[0])

(* The rows released by a reservation that held data: free_block() is called on them. *)
rows_freed(c, n) ==
    {b \in Blocks :
       /\ c.len[b] > 0
       /\ LET s == freed_blocks(c, n) IN \E i \in DOMAIN s : s[i] = b}

(* Every block that is released, taken or not, is a row of one empty block. *)
emptied(c, freed) == [b \in Blocks |-> IF \E i \in DOMAIN freed : freed[i] = b THEN 0 ELSE c.len[b]]

(* shctx_row_reserve_hot() once it is not refused: a new row of the freed  *)
(* blocks at the end of the hot list, or the blocks that follow the last   *)
(* one the row has reserved.                                               *)
shctx_row_reserve_hot(c, first, data_len) ==
    LET n     == blocks_for(c, first, data_len)
        freed == freed_blocks(c, n)
        taken == first_of(freed, n)
        isfreed(b) == \E i \in DOMAIN freed : freed[i] = b
        head  == IF first = None THEN taken[1] ELSE first
    IN IF first # None /\ n <= 0 THEN c
       ELSE [c EXCEPT
          !.avail   = without_blocks(@, taken),
          !.hot     = IF first = None THEN @ \o taken ELSE insert_after(@, c.last[first], taken),
          !.nbav    = @ - n,
          !.len     = emptied(c, freed),
          !.count   = [b \in Blocks |-> IF b = head
                                        THEN n + (IF first = None THEN 0 ELSE @[b])
                                        ELSE IF isfreed(b) THEN 1 ELSE @[b]],
          !.ref     = [b \in Blocks |-> IF first = None /\ b = head THEN 1
                                        ELSE IF b = taken[1] THEN 0 ELSE @[b]],
          !.last    = [b \in Blocks |-> IF b = head THEN taken[n]
                                        ELSE IF b = taken[1] THEN None ELSE @[b]],
          !.lastapp = IF first # None /\ row_room(c, first) = 0
                      THEN [@ EXCEPT ![first] = taken[1]] ELSE @]

(* The row moves to the end of the hot list when nobody uses it yet. *)
shctx_row_inc_hot(c, first) ==
    LET s == row_in(c.avail, c, first)
    IN IF c.ref[first] > 0 THEN [c EXCEPT !.ref[first] = @ + 1]
       ELSE [c EXCEPT !.ref[first] = @ + 1,
                      !.avail = without_blocks(@, s),
                      !.hot   = @ \o s,
                      !.nbav  = @ - Len(s)]

(* It moves to the end of avail with its last user. *)
shctx_row_dec_hot(c, first) ==
    LET s == row_in(c.hot, c, first)
    IN IF c.ref[first] > 1 THEN [c EXCEPT !.ref[first] = @ - 1]
       ELSE [c EXCEPT !.ref[first] = @ - 1,
                      !.hot   = without_blocks(@, s),
                      !.avail = @ \o s,
                      !.nbav  = @ + Len(s)]

(* Where shctx_row_data_append() writes the k-th of <n> bytes: it starts in *)
(* <from>, behind the bytes that follow a multiple of the block size.       *)
append_refused(c, first, n) == n > row_room(c, first)

append_place(c, first, block, k) ==
    LET pos == (c.len[first] % BlockSize) + k - 1
    IN <<from(c.hot, block)[1 + pos \div BlockSize], pos % BlockSize>>

shctx_row_data_append(c, first, block, n) ==
    [c EXCEPT !.len[first] = @ + n,
              !.lastapp[first] = IF n = 0 THEN @ ELSE append_place(c, first, block, n)[1]]

-----------------------------------------------------------------------------
(* Each block is in one of the two lists, once; nbav counts those of avail. *)
lists_exact(c) ==
    /\ Len(c.avail) + Len(c.hot) = NBlocks
    /\ \A b \in Blocks : \E i \in DOMAIN (c.avail \o c.hot) : (c.avail \o c.hot)[i] = b
    /\ c.nbav = Len(c.avail)

(* A list is cut into whole rows, all in use or all unused. *)
in_rows(c, list, used) ==
    LET upto[p \in 0 .. Len(list)] ==
          IF p = Len(list) THEN TRUE
          ELSE LET b == list[p + 1] IN
               /\ (c.ref[b] > 0) = used
               /\ c.count[b] >= 1 /\ p + c.count[b] <= Len(list)
               /\ c.len[b] <= c.count[b] * BlockSize
               /\ used => c.last[b] = list[p + c.count[b]]
               /\ upto[p + c.count[b]]
    IN upto[0]
=============================================================================
