----------------------------- MODULE HtxBuffers -----------------------------
(***************************************************************************)
(* The HTX messages of a stream over HTTP/2: the multiplexer decodes       *)
(* frames into the stream's receive buffer (h2_make_htx_response(),        *)
(* h2_frt_transfer_data() and the trailers, src/src/h2.c and mux_h2.c),    *)
(* h2_rcv_buf() transfers it to the channel, the analysers and filters     *)
(* edit it there (src/src/http_htx.c, flt_http_comp.c, http_ana.c) and the *)
(* other side's multiplexer consumes it (mux_h1.c).  All of it runs on one *)
(* thread.                                                                 *)
(*                                                                         *)
(* A message (src/src/htx.c, src/include/common/htx.h) is one area, the    *)
(* payloads growing up from its beginning, the blocks' descriptors growing *)
(* down from its end.  Payloads may wrap once into the free space at the   *)
(* beginning, between head_addr and end_addr; blocks removed from the      *)
(* middle leave a hole and an UNUSED descriptor until the message is       *)
(* defragmented.  A message is a record; the functions of the source are   *)
(* operators from messages to messages.                                    *)
(***************************************************************************)
EXTENDS Integers, Sequences, FiniteSets

CONSTANTS HtxSize,   \* htx->size
          BlkSz      \* sizeof(struct htx_blk)

U32 == 65536         \* stands for 2^32, far above any size here
less(a, b) == (a - b) % U32

type_rank == [SL |-> 0, HDR |-> 2, EOH |-> 3, DATA |-> 4, TLR |-> 5, EOT |-> 6, EOM |-> 7,
              UNUSED |-> 15]

(* htx_reset() *)
htx_empty == [data |-> 0, head |-> -1, tail |-> -1, first |-> -1,
              tail_addr |-> 0, head_addr |-> 0, end_addr |-> 0, blk |-> <<>>]

htx_is_empty(h) == h.head = -1

positions(h) == IF htx_is_empty(h) THEN {} ELSE h.head..h.tail
in_use(h) == {p \in positions(h) : h.blk[p].type # "UNUSED"}

(* Descriptors out of head..tail are not read. *)
tidy_blks(h) == [h EXCEPT !.blk = [p \in positions(h) |-> @[p]]]

htx_pos_to_addr(pos) == less(HtxSize, (pos + 1) * BlkSz)
htx_meta_space(h) == IF h.tail = -1 THEN 0 ELSE (h.tail + 1 - h.head) * BlkSz
htx_used_space(h) == h.data + htx_meta_space(h)
htx_free_space(h) == less(HtxSize, htx_used_space(h))
htx_get_max_blksz(h, max) ==
    LET free == IF htx_free_space(h) > max THEN max ELSE htx_free_space(h)
    IN IF free < BlkSz THEN 0 ELSE free - BlkSz
htx_free_data_space(h) == htx_get_max_blksz(h, HtxSize)

(* The descriptors of the blocks in use, the oldest first. *)
order(h) == LET nth[n \in 0..(h.tail + 1)] ==
                    IF n <= h.head THEN <<>>
                    ELSE nth[n - 1] \o (IF h.blk[n - 1].type = "UNUSED" THEN <<>> ELSE <<n - 1>>)
            IN nth[h.tail + 1]

index_of(s, x) == CHOOSE i \in 1..Len(s) : s[i] = x

(* Where first points to once the UNUSED blocks are dropped: "-1 if unset". *)
first_kept(h) == IF h.first \in in_use(h) THEN index_of(order(h), h.first) - 1 ELSE -1

(* htx_defrag(): payloads and descriptors are packed. *)
htx_defrag(h) ==
    LET s == order(h)
        addr[n \in 0..Len(s)] == IF n = 0 THEN 0 ELSE addr[n - 1] + h.blk[s[n]].len
    IN [h EXCEPT !.first = first_kept(h), !.head = 0, !.tail = Len(s) - 1,
                 !.head_addr = 0, !.end_addr = 0, !.tail_addr = addr[Len(s)],
                 !.blk = [p \in 0..(Len(s) - 1) |-> [h.blk[s[p + 1]] EXCEPT !.addr = addr[p]]]]

(* htx_defrag_blks(): the descriptors only, when the head moved.  A first   *)
(* that points to an UNUSED block is left as it is.                         *)
htx_defrag_blks(h) ==
    LET s == order(h)
    IN [h EXCEPT !.first = IF @ \in in_use(h) THEN first_kept(h) ELSE @,
                 !.head = 0, !.tail = Len(s) - 1,
                 !.blk = [p \in 0..(Len(s) - 1) |-> h.blk[s[p + 1]]]]

no_room(h, sz) == sz > htx_free_data_space(h)

with_blk(h, pos, b) ==
    [h EXCEPT !.tail = pos, !.data = @ + b.len, !.first = IF @ = -1 THEN pos ELSE @,
              !.blk = [p \in DOMAIN @ \cup {pos} |-> IF p = pos THEN b ELSE @[p]]]

at_tail(h, b) == [with_blk(h, h.tail + 1, [b EXCEPT !.addr = h.tail_addr])
                    EXCEPT !.tail_addr = @ + b.len]
at_head(h, b) == [with_blk(h, h.tail + 1, [b EXCEPT !.addr = h.head_addr])
                    EXCEPT !.head_addr = @ + b.len]

tail_room(h) == IF h.head_addr # 0 THEN 0 ELSE less(htx_pos_to_addr(h.tail + 1), h.tail_addr)
head_room(h) == less(h.end_addr, h.head_addr)

(* htx_reserve_nxblk() and the info set by its callers, once no_room() is   *)
(* false: b is the new block.                                               *)
htx_add_blk(h, b) ==
    LET room_for(m) == htx_pos_to_addr(m.tail + 1) >= m.tail_addr
        m == IF ~ room_for(h) /\ h.head > 0 THEN htx_defrag_blks(h) ELSE h
    IN IF htx_is_empty(h)
       THEN [h EXCEPT !.head = 0, !.tail = 0, !.first = 0, !.data = b.len, !.tail_addr = b.len,
                      !.blk = [p \in {0} |-> [b EXCEPT !.addr = 0]]]
       ELSE tidy_blks(IF ~ room_for(h) /\ h.head = 0 THEN at_tail(htx_defrag(h), b)
                      ELSE IF b.len <= tail_room(m) THEN at_tail(m, b)
                      ELSE IF b.len <= head_room(m) THEN at_head(m, b)
                      ELSE at_tail(htx_defrag(m), b))

(* The free spaces once the block b is out of m. *)
rooms_without(m, b) ==
    LET last == m.blk[m.tail]
        tl == IF b.addr + b.len = m.tail_addr THEN b.addr ELSE m.tail_addr
        hd == IF b.addr + b.len # m.tail_addr /\ b.addr + b.len = m.head_addr THEN b.addr
              ELSE m.head_addr
    IN IF m.head = m.tail
       THEN [m EXCEPT !.head_addr = 0, !.end_addr = last.addr, !.tail_addr = last.addr + m.data]
       ELSE IF b.addr # m.end_addr THEN [m EXCEPT !.tail_addr = tl, !.head_addr = hd]
       ELSE IF tl = m.end_addr THEN [m EXCEPT !.tail_addr = hd, !.head_addr = 0, !.end_addr = 0]
       ELSE [m EXCEPT !.tail_addr = tl, !.head_addr = hd, !.end_addr = @ + b.len]

(* htx_remove_blk() *)
htx_remove_blk(h, p) ==
    LET b == h.blk[p]
        is_tail == p # h.head /\ p = h.tail
        m == [h EXCEPT !.data = @ - b.len,
                       !.blk[p] = [@ EXCEPT !.type = "UNUSED", !.len = 0, !.hdrs = 0],
                       !.head = IF p = @ THEN @ + 1 ELSE @,
                       !.tail = IF is_tail THEN @ - 1 ELSE @,
                       !.first = IF p # @ THEN @ ELSE IF is_tail THEN -1 ELSE p + 1]
    IN IF h.head = h.tail THEN htx_empty ELSE tidy_blks(rooms_without(m, b))

(* htx_cut_data_blk(): n bytes are taken from the front of block p. *)
htx_cut_data_blk(h, p, n) ==
    [h EXCEPT !.end_addr = IF h.blk[p].addr = @ THEN @ + n ELSE @,
              !.blk[p] = [@ EXCEPT !.addr = @ + n, !.len = @ - n],
              !.data = @ - n]

(* htx_change_blk_value_len() *)
htx_change_blk_value_len(h, p, len) ==
    LET b == h.blk[p]
        delta == len - b.len
    IN [h EXCEPT !.data = @ + delta, !.blk[p].len = len,
                 !.tail_addr = IF b.addr + b.len = @ THEN @ + delta ELSE @,
                 !.head_addr = IF b.addr + b.len # h.tail_addr /\ b.addr + b.len = @
                               THEN @ + delta ELSE @]

(* htx_prepare_blk_expansion(): 0 refused, 1 in place, 2 moved, 3 to be     *)
(* defragmented; only the addresses change.                                 *)
htx_prepare_blk_expansion(h, p, delta) ==
    LET b == h.blk[p]
        grown == b.len + delta
        tailroom == less(htx_pos_to_addr(h.tail), h.tail_addr)
        headroom == head_room(h)
        on_tail == b.addr + b.len = h.tail_addr
        on_head == ~ on_tail /\ b.addr + b.len = h.head_addr
        in_place == [h EXCEPT !.tail_addr = IF on_tail THEN @ + delta ELSE @,
                              !.head_addr = IF on_head THEN @ + delta ELSE @]
        to_head == [h EXCEPT !.blk[p].addr = h.head_addr, !.head_addr = @ + grown]
        left == IF b.addr # h.end_addr THEN to_head ELSE [to_head EXCEPT !.end_addr = @ + b.len]
        tail_moved == IF b.addr # h.end_addr THEN [to_head EXCEPT !.tail_addr = @ - b.len]
                      ELSE [to_head EXCEPT !.tail_addr = to_head.head_addr, !.head_addr = 0,
                                           !.end_addr = 0]
        to_tail == [h EXCEPT !.end_addr = IF b.addr = @ THEN @ + b.len ELSE @,
                             !.blk[p].addr = h.tail_addr, !.tail_addr = @ + grown]
    IN CASE delta <= 0 -> [ret |-> 1, htx |-> in_place]
         [] delta > 0 /\ delta > htx_free_space(h) -> [ret |-> 0, htx |-> h]
         [] delta > 0 /\ delta <= htx_free_space(h) ->
              IF on_tail
              THEN IF delta < tailroom THEN [ret |-> 1, htx |-> in_place]
                   ELSE IF grown < headroom THEN [ret |-> 2, htx |-> tail_moved]
                   ELSE [ret |-> 3, htx |-> h]
              ELSE IF on_head
              THEN IF delta < headroom THEN [ret |-> 1, htx |-> in_place]
                   ELSE [ret |-> 3, htx |-> h]
              ELSE IF h.head_addr = 0 /\ grown < tailroom THEN [ret |-> 2, htx |-> to_tail]
              ELSE IF grown < headroom THEN [ret |-> 2, htx |-> left]
              ELSE [ret |-> 3, htx |-> h]

(* htx_replace_blk_value(), htx_replace_header(), htx_replace_stline() *)
htx_replace(h, p, len) ==
    LET delta == len - h.blk[p].len
        r == htx_prepare_blk_expansion(h, p, delta)
        m == [r.htx EXCEPT !.blk[p].len = len, !.data = @ + delta]
    IN IF r.ret = 0 THEN h ELSE IF r.ret = 3 THEN htx_defrag(m) ELSE m

new_blk(type, len) == [addr |-> 0, type |-> type, len |-> len, hdrs |-> 0]

(* Space is left at the end of the last block, a DATA one: how much. *)
data_room(h) ==
    LET b == h.blk[h.tail]
    IN IF b.type # "DATA" THEN 0
       ELSE IF h.head_addr = 0
       THEN IF b.addr + b.len # h.tail_addr THEN 0
            ELSE less(htx_pos_to_addr(h.tail), h.tail_addr)
       ELSE IF b.addr + b.len # h.head_addr THEN 0 ELSE head_room(h)

extends_last(h) ==
    LET b == h.blk[h.tail]
    IN b.type = "DATA" /\ b.addr + b.len = (IF h.head_addr = 0 THEN h.tail_addr ELSE h.head_addr)

grown_last(h, n) == htx_change_blk_value_len(h, h.tail, h.blk[h.tail].len + n)

(* htx_add_data(): as much as possible, at the end of the last block or in  *)
(* a new one.  The amount is the growth of data.                            *)
htx_add_data(h, n) ==
    LET len == IF n > htx_free_data_space(h) THEN htx_free_data_space(h) ELSE n
        room == data_room(h)
    IN IF htx_is_empty(h)
       THEN IF no_room(h, n) THEN h ELSE htx_add_blk(h, new_blk("DATA", n))
       ELSE IF len = 0 THEN h
       ELSE IF extends_last(h) THEN grown_last(h, IF room < len THEN room ELSE len)
       ELSE htx_add_blk(h, new_blk("DATA", len))

(* htx_add_data_atonce(): all of n, part of it in the last block if it does *)
(* not wrap; no_room() is false.                                            *)
htx_add_data_atonce(h, n) ==
    LET b == h.blk[h.tail]
        on_tail == b.addr + b.len = h.tail_addr
        room == less(htx_pos_to_addr(h.tail), h.tail_addr)
    IN IF htx_is_empty(h) \/ b.type # "DATA" THEN htx_add_blk(h, new_blk("DATA", n))
       ELSE IF on_tail /\ n <= room THEN grown_last(h, n)
       ELSE IF on_tail /\ h.head_addr = 0
       THEN htx_add_blk(grown_last(h, room), new_blk("DATA", n - room))
       ELSE IF ~ on_tail /\ b.addr + b.len = h.head_addr /\ n <= head_room(h)
       THEN grown_last(h, n)
       ELSE htx_add_blk(h, new_blk("DATA", n))

(* The block at p and the one before it are swapped. *)
swapped(h, p) ==
    LET b == h.blk[p]
        q == h.blk[p - 1]
    IN [h EXCEPT !.blk[p - 1] = b,
                 !.blk[p] = IF q.addr = b.addr THEN [q EXCEPT !.addr = @ + b.len] ELSE q]

(* A mutant: the data is left behind the end of the message. *)
htx_add_last_not(h, n) == htx_add_data_atonce(h, n)

(* htx_add_last_data(): the new DATA block goes before what follows DATA. *)
htx_add_last_data(h, n) ==
    LET m == htx_add_data_atonce(h, n)
        moved[p \in m.head..m.tail] ==     \* the block swapped down to position p
            IF p = m.tail THEN m
            ELSE IF \A q \in p..(m.tail - 1) : type_rank[m.blk[q].type] > type_rank["DATA"]
                 THEN swapped(moved[p + 1], p + 1) ELSE moved[p + 1]
    IN moved[m.head]

(* http_add_header(): a header goes before the end of headers, not beyond   *)
(* the first block.  The message is not empty.                              *)
http_add_header(h, len) ==
    LET m == htx_add_blk(h, new_blk("HDR", len))
        ordered == type_rank[h.blk[h.tail].type] < type_rank["EOH"]
        moved[p \in m.head..m.tail] ==
            IF p = m.tail THEN m
            ELSE IF \E q \in p..(m.tail - 1) : q = m.first \/ (q > p /\ m.blk[q].type = "EOH")
                 THEN moved[p + 1] ELSE swapped(moved[p + 1], p + 1)
    IN IF ordered THEN m ELSE moved[m.head]

(* htx_find_offset() *)
RECURSIVE find_from(_, _, _)
find_from(h, p, offset) ==
    IF p > h.tail \/ offset < h.blk[p].len \/ offset = 0 THEN [pos |-> p, ret |-> offset]
    ELSE find_from(h, p + 1, offset - h.blk[p].len)

RECURSIVE removed_from(_, _)
removed_from(h, p) ==
    IF h.head = h.tail \/ p = h.tail THEN htx_remove_blk(h, p)
    ELSE removed_from(htx_remove_blk(h, p), p + 1)

(* htx_truncate(): what follows the offset is removed; only a DATA block is *)
(* cut.                                                                     *)
htx_truncate(h, offset) ==
    LET f == find_from(h, h.head, offset)
        cut == f.ret # 0 /\ h.blk[f.pos].type = "DATA"
        m == IF cut THEN htx_change_blk_value_len(h, f.pos, f.ret) ELSE h
        p == IF cut THEN f.pos + 1 ELSE f.pos
    IN IF offset >= h.data \/ p > h.tail THEN m ELSE removed_from(m, p)

(* htx_append_msg(): all the blocks of bs or none. *)
RECURSIVE added_to(_, _)
added_to(h, bs) ==
    IF bs = <<>> THEN [ok |-> TRUE, htx |-> h]
    ELSE IF no_room(h, Head(bs).len) THEN [ok |-> FALSE, htx |-> h]
    ELSE added_to(htx_add_blk(h, Head(bs)), Tail(bs))

htx_append_msg(h, bs) ==
    LET a == added_to(h, bs)
    IN IF a.ok THEN a.htx ELSE htx_truncate(a.htx, h.data)


rest(s, sz) == IF sz < s.blk[s.head].len THEN htx_cut_data_blk(s, s.head, sz)
               ELSE htx_remove_blk(s, s.head)

(* The headers or the trailers do not fit together. *)
held_back(s, count, inside) ==
    LET b == s.blk[s.head]
    IN \/ b.type = "SL" /\ b.hdrs > count
       \/ b.type \in {"TLR", "EOT"} /\ ~ inside /\ htx_used_space(s) > count

(* htx_xfer_blks() up to the end of the message: the blocks of s are moved  *)
(* to d within count; error when d could not even take the headers alone.   *)
RECURSIVE htx_xfer_blks(_, _, _, _)
htx_xfer_blks(d, s, count, inside) ==
    LET b == s.blk[s.head]
        max == htx_get_max_blksz(d, count)
        sz == IF b.len > max THEN max ELSE b.len
        done == [dst |-> d, src |-> s, error |-> FALSE]
    IN IF htx_is_empty(s) \/ count = 0 THEN done
       ELSE IF b.type = "UNUSED"
       THEN htx_xfer_blks(d, htx_remove_blk(s, s.head), count, inside)
       ELSE IF held_back(s, count, inside) THEN [done EXCEPT !.error = htx_is_empty(d)]
       ELSE IF max = 0 \/ (b.len > max /\ b.type # "DATA") \/ no_room(d, sz) THEN done
       ELSE CHOOSE r \in {IF sz < b.len \/ b.type = "EOM" THEN [done EXCEPT !.dst = e, !.src = q]
                          ELSE htx_xfer_blks(e, q, count - BlkSz - sz,
                                             inside \/ b.type \in {"TLR", "EOT"})
                             : e \in {htx_add_blk(d, [b EXCEPT !.len = sz])}, q \in {rest(s, sz)}}
              : TRUE

-----------------------------------------------------------------------------
(***************************************************************************)
(* The stream and its buffers.                                             *)
(***************************************************************************)
CONSTANTS HdrLens,    \* sizes of headers (name and value)
          DataLens,   \* sizes of DATA frames and of encoded parts
          Reserve,    \* tune.maxrewrite
          MaxFrames, MaxEdits

VARIABLES rxbuf,      \* h2s->rxbuf
          chn,        \* the channel's buffer
          phase,      \* what was decoded last
          fwd,        \* the analysers let the final headers go
          frames, edits,
          hpast       \* what happened that a property excuses

hVars == <<rxbuf, chn, phase, fwd, frames, edits, hpast>>

SlLen == 2
InterimLen == 3       \* a start line of this length is a 1xx response

HtInit ==
    /\ rxbuf = htx_empty /\ chn = htx_empty
    /\ phase = "start" /\ fwd = FALSE
    /\ frames = 0 /\ edits = 0
    /\ hpast = {}

Decoded(h, ph) == /\ rxbuf' = h
                  /\ phase' = ph
                  /\ UNCHANGED <<chn, fwd, edits>>

HdrLists == {<<>>} \cup {<<a>> : a \in HdrLens} \cup {<<a, b>> : a, b \in HdrLens}

hdrs_bytes(m) == htx_used_space(m)

(* h2c_decode_headers(), h2_make_htx_response(): once the buffer is empty,  *)
(* the start line, the headers and the end of headers, whose failure is not *)
(* looked at.                                                               *)
head_msg(sl, lens) ==
    added_to(htx_empty, <<new_blk("SL", sl)>> \o [i \in DOMAIN lens |-> new_blk("HDR", lens[i])])

MakeHead(sl, lens) ==
    \E m \in {head_msg(sl, lens)} :
    \E h \in {IF no_room(m.htx, 1) THEN m.htx ELSE htx_add_blk(m.htx, new_blk("EOH", 1))} :
       /\ phase = "start" /\ htx_is_empty(rxbuf)
       /\ m.ok
       /\ frames < MaxFrames /\ frames' = frames + 1
       /\ Decoded([h EXCEPT !.blk[0].hdrs = hdrs_bytes(h)],
                  IF sl = InterimLen THEN "start" ELSE "body")
       /\ hpast' = IF no_room(m.htx, 1) THEN hpast \cup {"no_eoh"} ELSE hpast

(* h2_frt_transfer_data() *)
DataFrame(n) ==
    /\ phase = "body"
    /\ frames < MaxFrames /\ frames' = frames + 1
    /\ Decoded(htx_add_data(rxbuf, n), "body")
    /\ rxbuf' # rxbuf
    /\ UNCHANGED hpast

(* h2_make_htx_trailers(); when there is no room the stream is in error. *)
Trailers(n) ==
    LET m == added_to(htx_empty, <<new_blk("TLR", n), new_blk("EOT", 1), new_blk("EOM", 1)>>)
    IN /\ phase = "body" /\ htx_is_empty(rxbuf)
       /\ m.ok
       /\ Decoded(m.htx, "end")
       /\ UNCHANGED <<frames, hpast>>

EndOfMessage ==
    /\ phase = "body"
    /\ ~ no_room(rxbuf, 1)
    /\ Decoded(htx_add_blk(rxbuf, new_blk("EOM", 1)), "end")
    /\ UNCHANGED <<frames, hpast>>

(* h2_rcv_buf(), for what channel_htx_recv_max() allows: the buffers are    *)
(* swapped when the channel is empty and the message small enough.          *)
RcvBuf(limit) ==
    LET count == limit - htx_used_space(chn)
    IN /\ phase # "stopped"
       /\ ~ htx_is_empty(rxbuf)
       /\ count > 0
       /\ \/ /\ htx_is_empty(chn) /\ htx_used_space(rxbuf) <= count
             /\ chn' = rxbuf /\ rxbuf' = htx_empty /\ UNCHANGED hpast
          \/ /\ ~ htx_is_empty(chn) \/ htx_used_space(rxbuf) > count
             /\ \E r \in {htx_xfer_blks(chn, rxbuf, count, FALSE)} :
                   /\ chn' = r.dst /\ rxbuf' = r.src
                   /\ hpast' = IF r.error THEN hpast \cup {"error"} ELSE hpast
       /\ UNCHANGED <<phase, fwd, frames, edits>>

of_type(types) == {p \in in_use(chn) : chn.blk[p].type \in types}

(* The positions of the headers under analysis. *)
analysed == IF chn.first = -1 THEN {} ELSE {p \in in_use(chn) : p >= chn.first}
final_head == /\ chn.first # -1 /\ chn.first \in in_use(chn)
              /\ chn.blk[chn.first].type = "SL" /\ chn.blk[chn.first].len # InterimLen

(* http_wait_for_response(): a 1xx response is forwarded. *)
ForwardInterim ==
    /\ phase # "stopped" /\ ~ fwd /\ chn.first # -1
    /\ chn.blk[chn.first].type = "SL" /\ chn.blk[chn.first].len = InterimLen
    /\ LET e == CHOOSE p \in analysed :
                   /\ chn.blk[p].type = "EOH" \/ p = chn.tail
                   /\ \A q \in analysed : q < p => chn.blk[q].type # "EOH"
       IN chn' = [chn EXCEPT !.first = IF e = chn.tail THEN -1 ELSE e + 1]
    /\ UNCHANGED <<rxbuf, phase, fwd, frames, edits, hpast>>

ForwardHeaders ==
    /\ phase # "stopped" /\ ~ fwd /\ final_head
    /\ fwd' = TRUE
    /\ UNCHANGED <<rxbuf, chn, phase, frames, edits, hpast>>

(* What the multiplexer of the other side does of the first block. *)
SendBlock ==
    /\ ~ htx_is_empty(chn)
    /\ fwd \/ phase = "stopped" \/ chn.first = -1 \/ chn.head < chn.first
    /\ chn' = htx_remove_blk(chn, chn.head)
    /\ UNCHANGED <<rxbuf, phase, fwd, frames, edits, hpast>>

SendPart ==
    /\ fwd /\ ~ htx_is_empty(chn)
    /\ chn.blk[chn.head].type = "DATA"
    /\ \E n \in 1..(chn.blk[chn.head].len - 1) : chn' = htx_cut_data_blk(chn, chn.head, n)
    /\ UNCHANGED <<rxbuf, phase, fwd, frames, edits, hpast>>

Edit(h) == /\ phase # "stopped"
           /\ edits < MaxEdits /\ edits' = edits + 1
           /\ chn' = h
           /\ UNCHANGED <<rxbuf, phase, fwd, frames, hpast>>

EditHead(h) == ~ fwd /\ final_head /\ Edit(h)

InsertHeader(n) == ~ no_room(chn, n) /\ EditHead(http_add_header(chn, n))

(* http_replace_stline(), http_replace_header() *)
ReplaceHead(n) ==
    \E p \in analysed : chn.blk[p].type \in {"SL", "HDR"} /\ EditHead(htx_replace(chn, p, n))

(* http_remove_header(): the header, or one of its values. *)
DropHeader == \E p \in analysed : chn.blk[p].type = "HDR" /\ EditHead(htx_remove_blk(chn, p))
DropValue(n) ==
    \E p \in analysed : /\ chn.blk[p].type = "HDR" /\ n < chn.blk[p].len
                        /\ EditHead(htx_change_blk_value_len(chn, p, n))

(* comp_http_payload(): a part of the body, then the end of the body. *)
EncodeBody(n) == \E p \in of_type({"DATA"}) : fwd /\ Edit(htx_replace(chn, p, n))
FlushBody(n) ==
    /\ fwd /\ of_type({"TLR", "EOT", "EOM"}) # {} /\ ~ no_room(chn, n)
    /\ Edit(htx_add_last_data(chn, n))

StopMessage(h) == /\ phase # "stopped" /\ phase' = "stopped"
           /\ chn' = h
           /\ UNCHANGED <<rxbuf, fwd, frames, edits, hpast>>

truncated(offset) == IF offset = 0 THEN htx_empty ELSE htx_truncate(chn, offset)

(* channel_htx_truncate() on an error in the body: offset was forwarded. *)
TruncateBody(offset) ==
    LET f == find_from(chn, chn.head, offset)
    IN /\ fwd /\ ~ htx_is_empty(chn) /\ offset < chn.data
       /\ \A p \in of_type({"SL", "HDR", "EOH"}) : p < f.pos
       /\ f.ret = 0 \/ chn.blk[f.pos].type = "DATA"
       /\ StopMessage(truncated(offset))

reply == <<new_blk("SL", SlLen), new_blk("EOH", 1), new_blk("EOM", 1)>>

(* http_reply_and_close() instead of the response: only the 1xx responses   *)
(* were forwarded.                                                          *)
ReplyMessage ==
    LET sizes[p \in -1..chn.tail] ==
            IF p < chn.head THEN 0 ELSE sizes[p - 1] + chn.blk[p].len
        offset == IF htx_is_empty(chn) THEN 0
                  ELSE IF chn.first = -1 THEN chn.data ELSE sizes[chn.first - 1]
    IN ~ fwd /\ StopMessage(htx_append_msg(truncated(offset), reply))

HtNext ==
    \/ \E sl \in {SlLen, InterimLen}, lens \in HdrLists : MakeHead(sl, lens)
    \/ \E n \in DataLens : DataFrame(n) \/ EncodeBody(n) \/ FlushBody(n)
    \/ \E n \in HdrLens : Trailers(n) \/ InsertHeader(n) \/ ReplaceHead(n) \/ DropValue(n)
    \/ EndOfMessage
    \/ \E limit \in {HtxSize, HtxSize - Reserve} : RcvBuf(limit)
    \/ ForwardInterim \/ ForwardHeaders
    \/ SendBlock \/ SendPart
    \/ DropHeader
    \/ \E offset \in 0..HtxSize : TruncateBody(offset)
    \/ ReplyMessage

HtSpec == HtInit /\ [][HtNext]_hVars

-----------------------------------------------------------------------------
bytes_of(b) == {a \in 0..(HtxSize - 1) : b.addr <= a /\ a < b.addr + b.len}

(* The assertions of htx.c ("BUG_ON"), and the accounting they rest on: the *)
(* two free spaces are where the message says, below the descriptors, and   *)
(* data is the size of the blocks in use.                                   *)
HtxConsistent ==
    \A h \in {rxbuf, chn} :
        /\ h.head_addr <= h.end_addr /\ h.end_addr <= h.tail_addr
        /\ ~ htx_is_empty(h) => h.tail_addr <= HtxSize - (h.tail + 1) * BlkSz
        /\ LET sum[p \in -1..h.tail] == IF p < h.head \/ p = -1 THEN 0 ELSE sum[p - 1] + h.blk[p].len
           IN h.data = sum[h.tail]

(* Payloads never overlap each other, the free spaces nor the descriptors,  *)
(* through wrapping, moves and defragmentations: nothing that is written    *)
(* later in the free spaces damages a block.                                *)
PayloadsDisjoint ==
    \A h \in {rxbuf, chn} : \A p \in in_use(h) :
        LET b == h.blk[p]
        IN /\ b.addr + b.len <= h.tail_addr
           /\ bytes_of(b) \cap (h.head_addr..(h.end_addr - 1)) = {}
           /\ \A q \in in_use(h) \ {p} : bytes_of(b) \cap bytes_of(h.blk[q]) = {}

(* "Be sure to have enough space to xfer all headers/trailers in one time": *)
(* the headers under analysis in the channel are complete, unless           *)
(* h2_make_htx_response() had no room for their end.                        *)
HeadersTogether ==
    analysed \cap of_type({"SL"}) # {} =>
        analysed \cap of_type({"EOH"}) # {} \/ "no_eoh" \in hpast

(* Until the headers are let go, "first" is the start line from which to    *)
(* analyse, or unset: moves, defragmentations and the removal of what       *)
(* precedes keep it on that block.                                          *)
FirstKept ==
    ~ fwd /\ phase # "stopped" /\ chn.first # -1 =>
        chn.first \in of_type({"SL"})

units(h) ==
    LET s == order(h)
        unit(b) == IF b.type = "DATA" THEN [i \in 1..b.len |-> [type |-> "DATA", len |-> 1]]
                   ELSE <<[type |-> b.type, len |-> b.len]>>
        seq[n \in 0..Len(s)] == IF n = 0 THEN <<>> ELSE seq[n - 1] \o unit(h.blk[s[n]])
    IN IF htx_is_empty(h) THEN <<>> ELSE seq[Len(s)]

B == INSTANCE HttpBlocks WITH
        rx <- units(rxbuf), ch <- units(chn), UnitLens <- HdrLens \cup DataLens,
        Reply <- [i \in DOMAIN reply |-> [type |-> reply[i].type, len |-> reply[i].len]]

(* Wherever blocks are stored, wrapped, moved or cut, the message seen      *)
(* through them is the one received and edited, in order, nothing lost,     *)
(* repeated or left in part: htx_append_msg() "All the message or nothing   *)
(* is copied", htx_add_last_data() "it will be the last DATA block in all   *)
(* cases".                                                                  *)
ImplementsBlocks == B!BSpec

=============================================================================
