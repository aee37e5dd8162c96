--------------------------------- MODULE Pools ---------------------------------
(***************************************************************************)
(* The lockless memory pools: src/include/common/memory.h and              *)
(* src/src/memory.c with CONFIG_HAP_LOCKLESS_POOLS.  One pool is modelled: *)
(* a list of free objects changed by compare-and-swap, with a sequence     *)
(* number that taking an object changes and giving one back does not, the  *)
(* cache of each thread, refilling, collecting and flushing.               *)
(*                                                                         *)
(* The link of a free object lies in the object: once the object is out of *)
(* the list, its user writes over it and a late reader may find anything.  *)
(***************************************************************************)
EXTENDS Integers, FiniteSets, Sequences, SequencesExt

CONSTANTS
    PlThreads,  \* threads
    Objs,       \* the objects memory can hold
    NULL,        \* the null pointer
    CacheMax,   \* objects in the cache of a thread
    MinAvail,   \* pool->minavail
    Margin,     \* <avail> of pool_refill_alloc()
    MayFail,    \* whether malloc() may fail
    MayFlush,   \* whether the process is stopping, which flushes the pools
    MaxAllocs   \* bound: calls of pool_alloc()

VARIABLES
    mem,        \* the objects malloc() has given
    link,       \* *POOL_LINK(pool, object)
    free_list, seq, used, allocated,  \* the fields of the pool
    cache,      \* pool_cache of each thread, the latest object first
    own,        \* the objects each thread uses
    plt,        \* per thread: pc and the locals of the function it runs
    allocs,     \* calls of pool_alloc() so far
    plpast      \* history: "flushed", "uncounted"

plVars == <<mem, link, free_list, seq, used, allocated, cache, own, plt, allocs, plpast>>

nothing == [pc |-> "idle", obj |-> NULL, cseq |-> 0, cmp |-> NULL, new |-> NULL,
            n |-> 0, orig |-> 0, stop |-> 0, failed |-> FALSE, chain |-> {}]

PlInit ==
    /\ mem = {}
    /\ link = [o \in Objs |-> NULL]
    /\ free_list = NULL /\ seq = 0 /\ used = 0 /\ allocated = 0
    /\ cache = [t \in PlThreads |-> <<>>]
    /\ own = [t \in PlThreads |-> {}]
    /\ plt = [t \in PlThreads |-> nothing]
    /\ allocs = 0
    /\ plpast = {}

plpc(t) == plt[t].pc
to(t, p) == plt' = [plt EXCEPT ![t].pc = p]

(* The objects from <from> on, along the links. *)
chain_from(from) ==
    LET up[k \in 0 .. Cardinality(Objs)] ==
          IF k = 0 THEN IF from = NULL THEN <<>> ELSE <<from>>
          ELSE LET c == up[k - 1]
               IN IF c = <<>> \/ link[Last(c)] = NULL THEN c ELSE Append(c, link[Last(c)])
    IN up[Cardinality(Objs)]
listed == IF free_list = NULL THEN {} ELSE Range(chain_from(free_list))
(* The link found in an object that a thread read from the list a while ago. *)
seen_link(o) == IF o \in listed THEN {link[o]} ELSE Objs \cup {NULL}

--------------------------------------------------------------------------------
(* pool_alloc(): from the cache of the thread, or from the list. *)
Alloc(t) ==
    /\ plpc(t) = "idle"
    /\ allocs < MaxAllocs
    /\ allocs' = allocs + 1
    /\ IF cache[t] # <<>>
       THEN /\ own' = [own EXCEPT ![t] = @ \cup {Head(cache[t])}]
            /\ cache' = [cache EXCEPT ![t] = Tail(@)]
            /\ UNCHANGED plt
       ELSE /\ plt' = [plt EXCEPT ![t].pc = "head", ![t].cseq = seq]
            /\ UNCHANGED <<own, cache>>
    /\ UNCHANGED <<mem, link, free_list, seq, used, allocated, plpast>>

(* __pool_get_first(): the sequence number was read first, now the head. *)
GetHead(t) ==
    /\ plpc(t) = "head"
    /\ plt' = [plt EXCEPT ![t].pc = "link", ![t].cmp = free_list]
    /\ UNCHANGED <<mem, link, free_list, seq, used, allocated, cache, own, allocs, plpast>>

GetLink(t) ==
    /\ plpc(t) = "link"
    /\ IF plt[t].cmp = NULL
       THEN to(t, "refill")
       ELSE \E o \in seen_link(plt[t].cmp) : plt' = [plt EXCEPT ![t].pc = "dwcas", ![t].new = o]
    /\ UNCHANGED <<mem, link, free_list, seq, used, allocated, cache, own, allocs, plpast>>

(* A mutant: only the head of the list is compared. *)
GetSwapHead(t) ==
    /\ plpc(t) = "dwcas"
    /\ IF free_list = plt[t].cmp
       THEN /\ free_list' = plt[t].new
            /\ seq' = seq + 1
            /\ own' = [own EXCEPT ![t] = @ \cup {plt[t].cmp}]
            /\ plt' = [plt EXCEPT ![t] = [nothing EXCEPT !.pc = "count"]]
       ELSE /\ plt' = [plt EXCEPT ![t].pc = "link", ![t].cseq = seq, ![t].cmp = free_list]
            /\ UNCHANGED <<free_list, seq, own>>
    /\ UNCHANGED <<mem, link, used, allocated, cache, allocs, plpast>>

GetSwap(t) ==
    /\ plpc(t) = "dwcas"
    /\ IF free_list = plt[t].cmp /\ seq = plt[t].cseq
       THEN /\ free_list' = plt[t].new
            /\ seq' = seq + 1
            /\ own' = [own EXCEPT ![t] = @ \cup {plt[t].cmp}]
            /\ plt' = [plt EXCEPT ![t] = [nothing EXCEPT !.pc = "count"]]
       ELSE /\ plt' = [plt EXCEPT ![t].pc = "link", ![t].cseq = seq, ![t].cmp = free_list]
            /\ UNCHANGED <<free_list, seq, own>>
    /\ UNCHANGED <<mem, link, used, allocated, cache, allocs, plpast>>

(* _HA_ATOMIC_ADD(&pool->used, 1) *)
CountUsed(t) ==
    /\ plpc(t) = "count"
    /\ used' = used + 1
    /\ to(t, "idle")
    /\ UNCHANGED <<mem, link, free_list, seq, allocated, cache, own, allocs, plpast>>

--------------------------------------------------------------------------------
(* __pool_refill_alloc(): malloc() until enough objects are available. *)
Refill(t) ==
    /\ plpc(t) = "refill"
    /\ \E avail \in {0, Margin} :
          plt' = [plt EXCEPT ![t] = [nothing EXCEPT !.pc = "malloc", !.n = allocated, !.orig = allocated,
                                                    !.stop = avail + used]]
    /\ UNCHANGED <<mem, link, free_list, seq, used, allocated, cache, own, allocs, plpast>>

Malloc(t) ==
    /\ plpc(t) = "malloc"
    /\ \E o \in Objs \ mem :
          /\ mem' = mem \cup {o}
          /\ IF plt[t].n + 1 > plt[t].stop
             THEN /\ allocated' = allocated + plt[t].n + 1 - plt[t].orig
                  /\ own' = [own EXCEPT ![t] = @ \cup {o}]
                  /\ plt' = [plt EXCEPT ![t] = [nothing EXCEPT !.pc = "count"]]
             ELSE /\ plt' = [plt EXCEPT ![t].pc = "rpush", ![t].obj = o, ![t].n = @ + 1, ![t].cmp = free_list]
                  /\ UNCHANGED <<own, allocated>>
    /\ UNCHANGED <<link, free_list, seq, used, cache, allocs, plpast>>

(* An allocation that fails is tried again once, after a garbage collection. *)
MallocFails(t) ==
    /\ plpc(t) = "malloc"
    /\ MayFail \/ mem = Objs
    /\ IF plt[t].failed
       THEN /\ plpast' = plpast \cup IF plt[t].n # plt[t].orig THEN {"uncounted"} ELSE {}
            /\ plt' = [plt EXCEPT ![t] = nothing]
       ELSE plt' = [plt EXCEPT ![t].pc = "gc", ![t].failed = TRUE] /\ UNCHANGED plpast
    /\ UNCHANGED <<mem, link, free_list, seq, used, allocated, cache, own, allocs>>

(* pool_gc(): alone, every other thread being harmless or waiting for its own turn. *)
Gc(t) ==
    /\ plpc(t) = "gc"
    /\ \A u \in PlThreads \ {t} : plpc(u) \in {"idle", "gc"}
    /\ LET c == IF free_list = NULL THEN <<>> ELSE chain_from(free_list)
           room == allocated - used - MinAvail
           k == IF room <= 0 THEN 0 ELSE IF room < Len(c) THEN room ELSE Len(c)
       IN /\ mem' = mem \ {c[i] : i \in 1 .. k}
          /\ free_list' = IF k = Len(c) THEN NULL ELSE c[k + 1]
          /\ seq' = seq + k
          /\ allocated' = allocated - k
    /\ to(t, "malloc")
    /\ UNCHANGED <<link, used, cache, own, allocs, plpast>>

(* Both ways of putting an object into the list: its link is written, then the
   head is swapped, without a change of the sequence number. *)
Push(t) ==
    /\ plpc(t) \in {"rpush", "push"}
    /\ link' = [link EXCEPT ![plt[t].obj] = plt[t].cmp]
    /\ to(t, IF plpc(t) = "push" THEN "swap" ELSE "rswap")
    /\ UNCHANGED <<mem, free_list, seq, used, allocated, cache, own, allocs, plpast>>

PushSwap(t) ==
    /\ plpc(t) \in {"rswap", "swap"}
    /\ IF free_list = plt[t].cmp
       THEN /\ free_list' = plt[t].obj
            /\ plt' = [plt EXCEPT ![t] = IF plpc(t) = "swap" THEN nothing
                                         ELSE [@ EXCEPT !.pc = "malloc", !.obj = NULL, !.cmp = NULL]]
       ELSE /\ plt' = [plt EXCEPT ![t].pc = IF @ = "swap" THEN "push" ELSE "rpush", ![t].cmp = free_list]
            /\ UNCHANGED free_list
    /\ UNCHANGED <<mem, link, seq, used, allocated, cache, own, allocs, plpast>>

--------------------------------------------------------------------------------
(* pool_free(): to the cache of the thread, whose oldest object may have to leave it. *)
Free(t) ==
    /\ plpc(t) = "idle"
    /\ \E o \in own[t] :
          LET c == <<o>> \o cache[t] IN
          /\ own' = [own EXCEPT ![t] = @ \ {o}]
          /\ IF Len(c) <= CacheMax
             THEN cache' = [cache EXCEPT ![t] = c] /\ UNCHANGED <<plt, used>>
             ELSE /\ cache' = [cache EXCEPT ![t] = Front(c)]
                  /\ plt' = [plt EXCEPT ![t].pc = "crowd", ![t].obj = Last(c), ![t].cmp = free_list]
                  /\ used' = used - 1
    /\ UNCHANGED <<mem, link, free_list, seq, allocated, allocs, plpast>>

(* __pool_free(): an object of a crowded pool is given back to the system. *)
Crowded(t) ==
    /\ plpc(t) = "crowd"
    /\ \/ /\ allocated - used >= MinAvail
          /\ mem' = mem \ {plt[t].obj}
          /\ allocated' = allocated - 1
          /\ plt' = [plt EXCEPT ![t] = nothing]
       \/ /\ to(t, "push")
          /\ UNCHANGED <<mem, allocated>>
    /\ UNCHANGED <<link, free_list, seq, used, cache, own, allocs, plpast>>

(* pool_flush(): the whole list is detached, freed, and the head is cleared again. *)
Flush(t) ==
    /\ MayFlush
    /\ plpc(t) = "idle"
    /\ free_list # NULL
    /\ plt' = [plt EXCEPT ![t] = [nothing EXCEPT !.pc = "flush", !.chain = listed]]
    /\ free_list' = NULL
    /\ seq' = seq + 1
    /\ UNCHANGED <<mem, link, used, allocated, cache, own, allocs, plpast>>

FlushFree(t) ==
    /\ plpc(t) = "flush"
    /\ mem' = mem \ plt[t].chain
    /\ to(t, "clear")
    /\ UNCHANGED <<link, free_list, seq, used, allocated, cache, own, allocs, plpast>>

(* pool->free_list = next: what another thread has put there meanwhile is lost *)
FlushClear(t) ==
    /\ plpc(t) = "clear"
    /\ free_list' = NULL
    /\ allocated' = allocated - Cardinality(plt[t].chain)
    /\ plpast' = plpast \cup IF free_list # NULL THEN {"flushed"} ELSE {}
    /\ plt' = [plt EXCEPT ![t] = nothing]
    /\ UNCHANGED <<mem, link, seq, used, cache, own, allocs>>

PlStep(t) ==
    \/ Alloc(t) \/ GetHead(t) \/ GetLink(t) \/ GetSwap(t) \/ CountUsed(t)
    \/ Refill(t) \/ Malloc(t) \/ MallocFails(t) \/ Gc(t) \/ Push(t) \/ PushSwap(t)
    \/ Free(t) \/ Crowded(t) \/ Flush(t) \/ FlushFree(t) \/ FlushClear(t)
PlNext == \E t \in PlThreads : PlStep(t)
PlSpec == PlInit /\ [][PlNext]_plVars

--------------------------------------------------------------------------------
in_hand(t) == IF plt[t].obj = NULL THEN {} ELSE {plt[t].obj}
private(t) == own[t] \cup Range(cache[t]) \cup in_hand(t) \cup (IF plpc(t) = "flush" THEN plt[t].chain ELSE {})

(* An object is never in two places: the list is made of distinct objects that
   memory holds and no thread has, and no two threads have the same one. *)
OnePlaceEach ==
    /\ free_list # NULL => IsInjective(chain_from(free_list)) /\ listed \subseteq mem
    /\ \A t \in PlThreads : private(t) \subseteq mem /\ private(t) \cap listed = {}
    /\ \A t, u \in PlThreads : t # u => private(t) \cap private(u) = {}

at_rest == \A t \in PlThreads : plpc(t) = "idle"

(* When no call is running, the counters of the pool are exact, but for objects
   that a refill which failed left uncounted. *)
CountersExact ==
    at_rest =>
        /\ used = Cardinality(UNION {own[t] \cup Range(cache[t]) : t \in PlThreads})
        /\ "uncounted" \notin plpast => allocated = Cardinality(mem)

(* Every object of memory can be found again, unless a flush overwrote the head
   of the list. *)
NoneLeaked ==
    (at_rest /\ "flushed" \notin plpast) => mem = listed \cup UNION {private(t) : t \in PlThreads}

(* The objects of a pool are neither shared, nor lost, nor miscounted by
   allocations, frees, refills and flushes of several threads without a lock
   (pool_get_first(), pool_free(), pool_flush(), pool_gc()). *)
PoolExact == OnePlaceEach /\ CountersExact /\ NoneLeaked
================================================================================
