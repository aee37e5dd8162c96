------------------------------ MODULE HpackDht ------------------------------
(***************************************************************************)
(* The dynamic header table of an HTTP/2 connection (src/src/hpack-tbl.c,  *)
(* src/include/common/hpack-tbl.h): one area with its header, the array of *)
(* descriptors growing up and the contents growing down.  Slots wrap, and  *)
(* so do the contents, until the table is defragmented.  Lengths are in    *)
(* units of a descriptor (8 bytes): the header takes HDR of them, and the  *)
(* protocol's overhead of an entry is OVERHEAD.                            *)
(***************************************************************************)
EXTENDS Integers, Sequences

CONSTANTS DhtSize,   \* dht->size
          FieldLens, \* lengths of header fields
          FieldIds,  \* their contents
          MayFailDefrag \* may the allocation of a defragmentation fail?

VARIABLE dht

HDR == 2
UINT32 == 65536   \* stands for 2^32, far above any size here
OVERHEAD == 4

Fields == [len : FieldLens, id : FieldIds]

DInit == dht = [total |-> 0, front |-> 0, wrap |-> 0, head |-> 0, used |-> 0, dte |-> <<>>]

(* hpack_dht_get_tail() *)
tail_of(d) == (IF d.head + 1 < d.used THEN d.wrap ELSE 0) + d.head + 1 - d.used

(* hpack_get_dte(): the slot of the idx-th entry, the last inserted first. *)
slot_of(d, idx) == IF idx - 1 <= d.head THEN d.head - (idx - 1) ELSE d.head - (idx - 1) + d.wrap

used_slots(d) == {slot_of(d, i) : i \in 1..d.used}

(* A slot which is not used is not read. *)
tidy(d) == [d EXCEPT !.dte = [s \in used_slots(d) |-> @[s]]]

(* One turn of the loop of __hpack_dht_make_room(). *)
evict(d) ==
    [d EXCEPT !.total = @ - d.dte[tail_of(d)].len,
              !.front = IF tail_of(d) = @ THEN d.head ELSE @,
              !.used = @ - 1]

fits(d, needed) == d.used * OVERHEAD + d.total + needed + OVERHEAD <= DhtSize

purged(d, needed) ==
    LET ev[n \in 0..d.used] == IF n = 0 THEN d ELSE evict(ev[n - 1])
        n == CHOOSE n \in 1..d.used : /\ n = d.used \/ fits(ev[n], needed)
                                      /\ \A m \in 1..(n - 1) : ~ fits(ev[m], needed)
    IN ev[n]

(* __hpack_dht_make_room(): realigned if empty, packed if it does not wrap. *)
make_room(d, needed) ==
    IF fits(d, needed) \/ d.used = 0 THEN d
    ELSE LET p == purged(d, needed)
             r == IF p.used = 0 THEN [p EXCEPT !.front = 0, !.head = 0] ELSE p
         IN tidy(IF r.head + 1 >= r.used THEN [r EXCEPT !.wrap = r.head + 1] ELSE r)

(* hpack_dht_defrag(): slots from 0 with the oldest, contents at the end.   *)
defrag(d) ==
    LET old(n) == slot_of(d, d.used - n)
        addr[n \in 0..(d.used - 1)] == (IF n = 0 THEN DhtSize ELSE addr[n - 1]) - d.dte[old(n)].len
    IN [d EXCEPT !.wrap = d.used, !.front = d.used - 1, !.head = d.used - 1,
                 !.dte = [n \in 0..(d.used - 1) |-> [d.dte[old(n)] EXCEPT !.addr = addr[n]]]]

put(d, slot, at_, f) ==
    [d EXCEPT !.total = @ + f.len, !.head = slot,
              !.dte = [s \in DOMAIN @ \cup {slot} |->
                         IF s = slot THEN [addr |-> at_, len |-> f.len, id |-> f.id] ELSE @[s]]]

(* The index: the slot of the new entry and the new end of the slots, in    *)
(* the table as it is or defragmented.                                      *)
can_extend(d) == HDR + d.wrap + 1 <= d.dte[d.front].addr

must_realign(d) ==
    IF d.head + 1 >= d.wrap THEN ~ can_extend(d) /\ d.head + 1 < d.used + 1
    ELSE d.used + 1 >= d.wrap

indexed(d) ==
    IF must_realign(d) THEN [d |-> defrag(d), slot |-> d.used, wrap |-> d.used + 1]
    ELSE IF d.head + 1 < d.wrap THEN [d |-> d, slot |-> d.head + 1, wrap |-> d.wrap]
    ELSE IF can_extend(d) THEN [d |-> d, slot |-> d.head + 1, wrap |-> d.wrap + 1]
    ELSE [d |-> d, slot |-> 0, wrap |-> d.wrap]

tail_end(d) == d.dte[tail_of(d)].addr + d.dte[tail_of(d)].len

(* The contents: before the front if they do not wrap and there is room up  *)
(* to the descriptors, else after the tail, else after a defragmentation.   *)
\* A mutant: the descriptors are forgotten.
headroom_whole(x) == IF x.d.head # x.d.front THEN 0 ELSE x.d.dte[x.d.front].addr - HDR

headroom(x) == IF x.d.head # x.d.front THEN 0
               ELSE (x.d.dte[x.d.front].addr - (HDR + x.wrap)) % UINT32
in_headroom(x, f) == x.d.head = x.d.front /\ headroom(x) >= f.len
tailroom(d) == ((IF d.head = d.front THEN DhtSize ELSE d.dte[d.head].addr) - tail_end(d)) % UINT32

placed(x, f) ==
    LET d == x.d
        e == defrag(d)
    IN IF in_headroom(x, f)
       THEN [put(d, x.slot, d.dte[d.front].addr - f.len, f) EXCEPT !.front = x.slot, !.wrap = x.wrap]
       ELSE IF tailroom(d) >= f.len
       THEN [put(d, x.slot, tail_end(d) + tailroom(d) - f.len, f) EXCEPT !.wrap = x.wrap]
       ELSE [put(e, e.head + 1, e.dte[e.front].addr - f.len, f)
               EXCEPT !.front = e.head + 1, !.wrap = e.wrap + 1]

alone(d, f) ==
    [put([d EXCEPT !.dte = <<>>, !.total = 0], 0, DhtSize - f.len, f)
       EXCEPT !.front = 0, !.wrap = 1, !.used = 1]

(* hpack_dht_insert() *)
hpack_dht_insert(f) ==
    LET d == make_room(dht, f.len)
    IN dht' = IF ~ fits(d, f.len) THEN d
              ELSE IF d.used = 0 THEN alone(d, f)
              ELSE tidy([placed(indexed(d), f) EXCEPT !.used = d.used + 1])

(* The defragmentation of the index finds no memory.  (That of the contents *)
(* does not look.)                                                          *)
insert_fails(f) ==
    LET d == make_room(dht, f.len)
    IN /\ MayFailDefrag
       /\ fits(d, f.len) /\ d.used # 0 /\ must_realign(d)
       /\ dht' = d

DNext == \E f \in Fields : hpack_dht_insert(f) \/ insert_fails(f)

DSpec == DInit /\ [][DNext]_dht

-----------------------------------------------------------------------------
range(e) == {a \in 0..(DhtSize - 1) : e.addr <= a /\ a < e.addr + e.len}

(* Contents never overlap each other nor the descriptors, and stay in the   *)
(* area: whatever is inserted, evicted, wrapped and defragmented, a header  *)
(* which the peer may refer to is intact.                                   *)
Disjoint ==
    \A s \in used_slots(dht) :
        /\ dht.dte[s].addr >= HDR + dht.wrap
        /\ dht.dte[s].addr + dht.dte[s].len <= DhtSize
        /\ \A t \in used_slots(dht) \ {s} : range(dht.dte[s]) \cap range(dht.dte[t]) = {}

(* "we also maintain an index to the lowest element facing the DTE table,   *)
(* called front": nothing is stored below it.                               *)
FrontLowest ==
    dht.used > 0 =>
        /\ dht.front \in used_slots(dht)
        /\ \A s \in used_slots(dht) : dht.dte[dht.front].addr <= dht.dte[s].addr

(* hpack_dht_check_consistency(), and the indexes are distinct slots. *)
DhtConsistent ==
    dht.used > 0 =>
        /\ dht.front < dht.wrap /\ dht.used <= dht.wrap /\ dht.head < dht.wrap
        /\ \A i, j \in 1..dht.used : i # j => slot_of(dht, i) # slot_of(dht, j)
        /\ LET sum[i \in 0..dht.used] == IF i = 0 THEN 0 ELSE sum[i - 1] + dht.dte[slot_of(dht, i)].len
           IN dht.total = sum[dht.used]

T == INSTANCE HpackTable WITH
        HFields <- Fields, HSize <- DhtSize, Overhead <- OVERHEAD,
        fields <- [i \in 1..dht.used |-> [len |-> dht.dte[slot_of(dht, i)].len,
                                          id |-> dht.dte[slot_of(dht, i)].id]]

(* The table is the one of the protocol: each index names the header that   *)
(* the encoder of the peer means by it.                                     *)
ImplementsHpack == T!HSpec

(* hpack_dht_insert() and its relatives keep the table of the protocol in an *)
(* area where nothing overlaps: the header of an index is the right one, and *)
(* its contents are intact.                                                  *)
HpackSound == ImplementsHpack /\ [](Disjoint /\ FrontLowest /\ DhtConsistent)
=============================================================================
