----------------------------- MODULE HttpCache -----------------------------
(***************************************************************************)
(* The HTTP cache of src/src/cache.c on its shared context: streams look   *)
(* an object up and are served from its row, or store the response they    *)
(* receive in a row of their own, which enters the tree when the response  *)
(* is complete.  What a handler does under shctx_lock() is one step, what  *)
(* it does without the lock is another.  A byte of an object is its number *)
(* and its rank, so that a byte at the wrong place can be told.            *)
(***************************************************************************)
EXTENDS Shctx, FiniteSets

CONSTANTS
    CStreams,     \* streams
    Uris,         \* what is hashed into txn->cache_hash
    UriKey,       \* the first 32 bits of the hash, by uri
    EntrySize,    \* sizeof(struct cache_entry)
    Chunks,       \* bytes of headers, or of a chunk of payload
    MaxStores     \* bound: objects stored

VARIABLES
    cctx,         \* the shared context
    data,         \* the bytes of the blocks
    entries,      \* cache->entries: the first blocks of the rows it indexes
    expired,      \* the entries whose expire date is passed
    cache_entry,        \* the cache_entry of a first block: uri and object
    cst,          \* per stream: pc, its row, the object and the bytes it still has to take
    full,         \* history: bytes of the objects stored whole, by number
    lostrows      \* history: the rows forgotten by a second cache-store rule

cVars == <<cctx, data, entries, expired, cache_entry, cst, full, lostrows>>

gone == [pc |-> "free", first |-> None, uri |-> 0, obj |-> 0, next |-> None, off |-> 0, sent |-> 0]

CInit ==
    /\ cctx = shctx_init
    /\ data = [b \in Blocks |-> [o \in 0 .. BlockSize - 1 |-> <<0, 0>>]]
    /\ entries = {}
    /\ expired = {}
    /\ cache_entry = [b \in Blocks |-> [uri |-> 0, obj |-> 0]]
    /\ cst = [s \in CStreams |-> gone]
    /\ full = <<>>
    /\ lostrows = {}

cat(s, pc) == cst[s].pc = pc

(* entry_exist(): the entry of the key, which is forgotten when it expired; *)
(* another uri with the same key hides the one looked for.                  *)
same_key(u) == {b \in entries : UriKey[cache_entry[b].uri] = UriKey[u]}
found(u) == {b \in same_key(u) : cache_entry[b].uri = u /\ b \notin expired}
outdated(u) == {b \in same_key(u) : cache_entry[b].uri = u /\ b \in expired}

Expire(b) ==
    /\ b \in entries \ expired
    /\ expired' = expired \cup {b}
    /\ UNCHANGED <<cctx, data, entries, cache_entry, cst, full, lostrows>>

(* http_action_req_cache_use(). *)
CacheUse(s, u) ==
    /\ cat(s, "free")
    /\ entries' = entries \ outdated(u)
    /\ expired' = expired \ outdated(u)
    /\ \/ /\ found(u) = {}
          /\ cst' = [cst EXCEPT ![s] = [gone EXCEPT !.pc = "request", !.uri = u]]
          /\ UNCHANGED cctx
       \/ \E b \in found(u) :
            /\ cctx' = shctx_row_inc_hot(cctx, b)
            /\ cst' = [cst EXCEPT ![s] = [gone EXCEPT !.pc = "serve", !.uri = u, !.first = b,
                                                      !.obj = cache_entry[b].obj,
                                                      !.next = b, !.off = EntrySize]]
    /\ UNCHANGED <<data, cache_entry, full, lostrows>>

(* The applet cannot be allocated (the request will be evaluated again), or *)
(* http_cache_applet_release(): the reader lets the row go at any point.    *)
AppletRelease(s) ==
    /\ cat(s, "serve")
    /\ cctx' = shctx_row_dec_hot(cctx, cst[s].first)
    /\ cst' = [cst EXCEPT ![s] = gone]
    /\ UNCHANGED <<data, entries, expired, cache_entry, full, lostrows>>

left(s) == cctx.len[cst[s].first] - EntrySize - cst[s].sent

(* A mutant: the next block is taken when the offset has passed the end. *)
dump_late(s) ==
    LET o == cst[s].off + 1
    IN IF o = BlockSize + 1 THEN <<list_next(cctx, cst[s].next), 0>> ELSE <<cst[s].next, o % BlockSize>>

(* Where the reader is one byte further: the next block is read from the hot *)
(* list, without the lock, as soon as the current one is exhausted.          *)
htx_cache_dump(s) ==
    LET o == cst[s].off + 1
    IN IF o = BlockSize THEN <<list_next(cctx, cst[s].next), 0>> ELSE <<cst[s].next, o>>

DumpMsg(s) ==
    /\ cat(s, "serve") /\ left(s) > 0
    /\ cst' = [cst EXCEPT ![s].next = htx_cache_dump(s)[1],
                          ![s].off  = htx_cache_dump(s)[2],
                          ![s].sent = @ + 1]
    /\ UNCHANGED <<cctx, data, entries, expired, cache_entry, full, lostrows>>

(* free_block(): cache_free_blocks() removes the rows that are reused from the tree. *)
unindexed(first, n) == rows_freed(cctx, blocks_for(cctx, first, n))

reserve(first, n) ==
    /\ cctx' = shctx_row_reserve_hot(cctx, first, n)
    /\ entries' = entries \ unindexed(first, n)
    /\ expired' = expired \ unindexed(first, n)

written(c, first, block, n, obj, rank) ==
    LET at(b, o) == {k \in 1 .. n : append_place(c, first, block, k) = <<b, o>>}
    IN [b \in Blocks |-> [o \in 0 .. BlockSize - 1 |->
          IF at(b, o) = {} THEN data[b][o] ELSE <<obj, rank + (CHOOSE k \in at(b, o) : TRUE)>>]]

(* http_action_store_cache(), up to the first unlock: the row is reserved for *)
(* the entry and <n> bytes of headers.  A second rule for the same cache      *)
(* evaluates it again, and the row of the first one is forgotten.             *)
StoreReserve(s, n) ==
    /\ cat(s, "request") \/ cat(s, "store")
    /\ Len(full) < MaxStores
    /\ ~ reserve_refused(cctx, None, EntrySize + n)
    /\ reserve(None, EntrySize + n)
    /\ full' = Append(full, 0)
    /\ lostrows' = lostrows \cup ({cst[s].first} \ {None})
    /\ cst' = [cst EXCEPT ![s] = [@ EXCEPT !.pc = "headers", !.off = n, !.sent = 0,
                                           !.first = Head(cctx.avail), !.obj = Len(full')]]
    /\ UNCHANGED <<data, cache_entry>>

(* The response is not cacheable, or there are not enough blocks. *)
StoreNot(s) ==
    /\ cat(s, "request")
    /\ cst' = [cst EXCEPT ![s] = gone]
    /\ UNCHANGED <<cctx, data, entries, expired, cache_entry, full, lostrows>>

(* The rest of it: the entry is set up, the headers are copied without the *)
(* lock, and the entry of the same uri leaves the tree.                    *)
StoreHeaders(s) ==
    LET b == cst[s].first
        c == [cctx EXCEPT !.len[b] = EntrySize, !.lastapp[b] = None]
        u == cst[s].uri
    IN
    /\ cat(s, "headers")
    /\ data' = written(c, b, b, cst[s].off, cst[s].obj, 0)
    /\ cctx' = shctx_row_data_append(c, b, b, cst[s].off)
    /\ cache_entry' = [cache_entry EXCEPT ![b] = [uri |-> u, obj |-> cst[s].obj]]
    /\ entries' = entries \ (found(u) \cup outdated(u))
    /\ expired' = expired \ outdated(u)
    /\ cst' = [cst EXCEPT ![s] = [@ EXCEPT !.pc = "store", !.off = 0, !.sent = cst[s].off]]
    /\ UNCHANGED <<full, lostrows>>

(* disable_cache_entry(), and cache_store_strm_deinit() when the stream ends early. *)
StoreAbort(s) ==
    /\ cat(s, "store")
    /\ cctx' = shctx_row_dec_hot(cctx, cst[s].first)
    /\ cst' = [cst EXCEPT ![s] = gone]
    /\ UNCHANGED <<data, entries, expired, cache_entry, full, lostrows>>

(* cache_store_http_payload(): the row is extended under the lock, *)
(* then the bytes are copied without it.                           *)
PayloadReserve(s, n) ==
    /\ cat(s, "store")
    /\ \/ /\ reserve_refused(cctx, cst[s].first, n)
          /\ cctx' = shctx_row_dec_hot(cctx, cst[s].first)
          /\ cst' = [cst EXCEPT ![s] = gone]
          /\ UNCHANGED <<entries, expired>>
       \/ /\ ~ reserve_refused(cctx, cst[s].first, n)
          /\ reserve(cst[s].first, n)
          /\ cst' = [cst EXCEPT ![s] = [@ EXCEPT !.pc = "payload", !.off = n]]
    /\ UNCHANGED <<data, cache_entry, full, lostrows>>

(* The copy is never refused: this is RoomKept below. *)
PayloadAppend(s) ==
    LET f == cst[s].first IN
    /\ cat(s, "payload")
    /\ ~ append_refused(cctx, f, cst[s].off)
    /\ data' = written(cctx, f, cctx.lastapp[f], cst[s].off, cst[s].obj, cst[s].sent)
    /\ cctx' = shctx_row_data_append(cctx, f, cctx.lastapp[f], cst[s].off)
    /\ cst' = [cst EXCEPT ![s] = [@ EXCEPT !.pc = "store", !.off = 0, !.sent = @ + cst[s].off]]
    /\ UNCHANGED <<entries, expired, cache_entry, full, lostrows>>

(* cache_store_http_end(): the entry is indexed, unless its key is. *)
StoreEnd(s) ==
    /\ cat(s, "store")
    /\ entries' = IF same_key(cst[s].uri) = {} THEN entries \cup {cst[s].first} ELSE entries
    /\ cctx' = shctx_row_dec_hot(cctx, cst[s].first)
    /\ full' = [full EXCEPT ![cst[s].obj] = cst[s].sent]
    /\ cst' = [cst EXCEPT ![s] = gone]
    /\ UNCHANGED <<data, expired, cache_entry, lostrows>>

CNext ==
    \/ \E b \in Blocks : Expire(b)
    \/ \E s \in CStreams :
         \/ \E u \in Uris : CacheUse(s, u)
         \/ AppletRelease(s) \/ DumpMsg(s)
         \/ \E n \in Chunks : StoreReserve(s, n)
         \/ StoreNot(s) \/ StoreHeaders(s) \/ StoreAbort(s)
         \/ \E n \in Chunks : PayloadReserve(s, n)
         \/ PayloadAppend(s) \/ StoreEnd(s)

CSpec == CInit /\ [][CNext]_cVars
-----------------------------------------------------------------------------
(* Each block is in one list, which is cut into whole rows: those of the hot *)
(* list are in use and those of avail are not (shctx.c: reserve, inc_hot and *)
(* dec_hot move rows of which only the first block is known).                *)
CacheRows ==
    /\ lists_exact(cctx)
    /\ in_rows(cctx, cctx.hot, TRUE)
    /\ in_rows(cctx, cctx.avail, FALSE)

users(b) == Cardinality({s \in CStreams : cst[s].first = b})

(* The reference count of a row is the number of streams that serve or store *)
(* it, so that a row is neither reused under a stream nor kept for ever; the  *)
(* rows forgotten by a second cache-store rule are the exception.             *)
CacheRefs == \A b \in Blocks : cctx.ref[b] = users(b) + (IF b \in lostrows THEN 1 ELSE 0)

whole(b) ==
    /\ cctx.len[b] = EntrySize + full[cache_entry[b].obj]
    /\ \A o \in EntrySize .. cctx.len[b] - 1 :
         LET p == row(cctx, b)[1 + o \div BlockSize]
         IN data[p][o % BlockSize] = <<cache_entry[b].obj, o - EntrySize + 1>>

(* What the tree refers to is the first block of a row that holds a response *)
(* received to its end, byte for byte, whatever was stored and dropped       *)
(* meanwhile in blocks that were reused; a key is there once.                *)
EntriesWhole ==
    \A b \in entries : cache_entry[b].obj # 0 /\ whole(b) /\ same_key(cache_entry[b].uri) = {b}

(* The next byte a stream is served is the next byte of the object it found, *)
(* although the applet follows the hot list without the lock.                *)
ServedExact ==
    \A s \in CStreams : cat(s, "serve") =>
      /\ whole(cst[s].first) /\ cache_entry[cst[s].first].obj = cst[s].obj
      /\ left(s) > 0 => /\ cst[s].next # None
                        /\ data[cst[s].next][cst[s].off] = <<cst[s].obj, cst[s].sent + 1>>

(* When the payload is copied the row has room for it: what was reserved *)
(* under the lock is still there without it.                             *)
RoomKept ==
    \A s \in CStreams : cat(s, "payload") => ~ append_refused(cctx, cst[s].first, cst[s].off)

(* The cache serves what it was given: rows whole, counted and not reused    *)
(* under a stream, objects complete in the tree, and each byte served the    *)
(* right one, although payloads are copied and followed without the lock.    *)
CacheSound == CacheRows /\ CacheRefs /\ EntriesWhole /\ ServedExact /\ RoomKept
=============================================================================
