---------------------------- MODULE SslSessCache ----------------------------
(***************************************************************************)
(* The cache of TLS sessions of src/src/ssl_sock.c on its shared context:  *)
(* OpenSSL's callbacks store a session, look one up and remove one.  The   *)
(* lock covers each callback but the end of the look-up, which decodes the *)
(* copy it made.  A session is the version of it that was stored, and its  *)
(* length; node says what the tree node of a first block holds: it is in   *)
(* the tree, it was cleared by a deletion (or never used), or it is        *)
(* covered by the bytes of a session of which the block was not the first. *)
(***************************************************************************)
EXTENDS Shctx, FiniteSets

CONSTANTS
    SslThreads,
    SessIds,      \* session ids
    HdrSize,      \* sizeof(struct sh_ssl_sess_hdr)
    SessLens,     \* lengths of encoded sessions
    MaxSess       \* bound: sessions stored

VARIABLES
    ssctx,        \* ssl_shctx
    stree,        \* sh_ssl_sess_tree: the first block of each id, or None
    skey,         \* key_data of the first blocks
    node,         \* the tree node of the blocks: "null", "in" or "data"
    body,         \* the version of the session each block has bytes of
    look,         \* per thread: the copy it made of a session, and its first block
    stored,       \* number of sessions stored so far
    ssl_past      \* history: the events that left something behind

ssVars == <<ssctx, stree, skey, node, body, look, stored, ssl_past>>

nocopy == [pc |-> "idle", first |-> None, len |-> 0]

SsInit ==
    /\ ssctx = shctx_init
    /\ stree = [i \in SessIds |-> None]
    /\ skey = [b \in Blocks |-> CHOOSE i \in SessIds : TRUE]
    /\ node = [b \in Blocks |-> "null"]
    /\ body = [b \in Blocks |-> 0]
    /\ look = [t \in SslThreads |-> nocopy]
    /\ stored = 0
    /\ ssl_past = {}

(* sh_ssl_sess_free_blocks(): the sessions of the rows that are reused leave the tree. *)
tree_without(c, n) == [i \in SessIds |-> IF stree[i] \in rows_freed(c, n) THEN None ELSE stree[i]]
node_without(c, n) == [b \in Blocks |-> IF b \in rows_freed(c, n) /\ node[b] = "in" THEN "null" ELSE node[b]]

(* sh_ssl_sess_store(): a row is reserved; when the id is in the tree, the *)
(* row is released and the one of the tree is written over, if it is large *)
(* enough.                                                                 *)
StoreSession(id, len) ==
    LET n     == blocks_for(ssctx, None, len + HdrSize)
        new   == Head(ssctx.avail)
        tree  == tree_without(ssctx, n)
        nodes == node_without(ssctx, n)
        dup   == tree[id] # None
        c1    == [shctx_row_reserve_hot(ssctx, None, len + HdrSize) EXCEPT !.len[new] = HdrSize]
        first == IF dup THEN tree[id] ELSE new
        c2    == IF dup
                 THEN [shctx_row_inc_hot(shctx_row_dec_hot(c1, new), first) EXCEPT !.len[first] = HdrSize]
                 ELSE c1
        fits  == ~ append_refused(c2, first, len)
        c3    == IF fits THEN shctx_row_data_append(c2, first, first, len) ELSE c2
        to    == IF fits THEN {append_place(c2, first, first, k)[1] : k \in 1 .. len} ELSE {}
    IN
    /\ stored < MaxSess
    /\ ~ reserve_refused(ssctx, None, len + HdrSize)
    /\ stored' = stored + 1
    /\ ssctx' = shctx_row_dec_hot(c3, first)
    /\ stree' = [tree EXCEPT ![id] = first]
    /\ skey' = [skey EXCEPT ![new] = id]
    /\ body' = [b \in Blocks |-> IF b \in to \cup {first} THEN stored' ELSE body[b]]
    /\ node' = [b \in Blocks |-> IF b = first THEN "in"
                                 ELSE IF b \in to THEN "data" ELSE nodes[b]]
    /\ ssl_past' = ssl_past \cup (IF dup THEN {"dup"} ELSE {})
    /\ UNCHANGED look

(* sh_ssl_sess_get_cb(): the bytes are copied under the lock. *)
GetSession(t, id) ==
    /\ look[t].pc = "idle"
    /\ stree[id] # None
    /\ look' = [look EXCEPT ![t] = [pc |-> "decode", first |-> stree[id],
                                    len |-> ssctx.len[stree[id]] - HdrSize]]
    /\ UNCHANGED <<ssctx, stree, skey, node, body, stored, ssl_past>>

(* They are decoded after the unlock, for first->len bytes as it is then. *)
Decode(t) ==
    /\ look[t].pc = "decode"
    /\ look' = [look EXCEPT ![t] = nocopy]
    /\ UNCHANGED <<ssctx, stree, skey, node, body, stored, ssl_past>>

(* sh_ssl_sess_remove_cb(): the node leaves the tree, the row keeps its length. *)
RemoveSession(id) ==
    /\ stree[id] # None
    /\ stree' = [stree EXCEPT ![id] = None]
    /\ node' = [node EXCEPT ![stree[id]] = "null"]
    /\ UNCHANGED <<ssctx, skey, body, look, stored, ssl_past>>

SsNext ==
    \/ \E id \in SessIds, len \in SessLens : StoreSession(id, len)
    \/ \E t \in SslThreads, id \in SessIds : GetSession(t, id)
    \/ \E t \in SslThreads : Decode(t)
    \/ \E id \in SessIds : RemoveSession(id)

SsSpec == SsInit /\ [][SsNext]_ssVars
-----------------------------------------------------------------------------
heads(c, list) ==
    LET upto[p \in 0 .. Len(list)] ==
          IF p = Len(list) THEN {} ELSE {list[p + 1]} \cup upto[p + c.count[list[p + 1]]]
    IN upto[0]

(* Between two callbacks no row is in use, and the available blocks are cut *)
(* into whole rows (the reservation, the release and the taking back of the *)
(* old row of sh_ssl_sess_store() balance, whichever fails).                *)
SessRows ==
    /\ lists_exact(ssctx)
    /\ ssctx.hot = <<>>
    /\ in_rows(ssctx, ssctx.avail, FALSE)

(* What the tree has for an id is the first block of a row with this id, and *)
(* all the bytes of the row that are counted come from one stored session.   *)
SessIndexed ==
    \A id \in SessIds : stree[id] # None =>
      LET b == stree[id]
          s == row_in(ssctx.avail, ssctx, b)
      IN /\ b \in heads(ssctx, ssctx.avail)
         /\ skey[b] = id /\ node[b] = "in" /\ ssctx.len[b] >= HdrSize
         /\ \A i \in 1 .. Len(s) : (i - 1) * BlockSize < ssctx.len[b] => body[s[i]] = body[b]

(* A row whose length says that it has a session has a tree node to delete: *)
(* sh_ssl_sess_free_blocks() unlinks the node of any row with a length.  The *)
(* row released when the id was in the tree already is the exception.        *)
FreedNodes ==
    \A b \in heads(ssctx, ssctx.avail) :
      ssctx.len[b] > 0 /\ node[b] = "data" => "dup" \in ssl_past

=============================================================================
