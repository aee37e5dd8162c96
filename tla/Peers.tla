------------------------------- MODULE Peers -------------------------------
(***************************************************************************)
(* The replication of a stick table between two processes (src/peers.c)    *)
(* with the numbering of its updates (src/stick_table.c).                  *)
(*                                                                         *)
(* Every entry changed locally gets the next update id; a peer is pushed   *)
(* the entries whose id lies between the last one pushed to it and the     *)
(* last local id.  A process which starts asks one peer for a lesson: all  *)
(* that this peer knows, in two stages since ids wrap around.  During a    *)
(* reload the old process connects to the new one and gives the lesson     *)
(* unasked.                                                                *)
(*                                                                         *)
(* A session is a pair of ends.  Each end is lost on its own: what the     *)
(* other end received before can still be read, what it sends afterwards   *)
(* goes nowhere.  peer_send_msgs() resumes at its start whenever a message *)
(* does not fit, so each message is a step.  The peer's lock is held for   *)
(* the whole handler, the table's lock is released while an entry is being *)
(* encoded: only local changes come in between.                            *)
(***************************************************************************)
EXTENDS Integers, Sequences, FiniteSets

CONSTANTS Keys,          \* the entries of the table, 1, 2...
          Learnt,        \* the sets of entries "a" may have learnt from a third process
          IdSpan,        \* update ids are counted modulo IdSpan (2^32)
          Kinds,         \* "remote": two peers, "local": a reload
          MaxPeerChanges,    \* bound on the local changes and expirations
          MaxLosses,     \* bound on the sessions lost of "b" included
          MaxQueued      \* room in a direction of the session, in messages

VARIABLES table,         \* per process: entries and update counters
          peer,          \* per process: what it knows of the other one
          resync,        \* per process: flags of its peers section
          inbox,         \* per process: messages not yet read
          joined,        \* both ends belong to the same connection
          pushing,       \* per process: the entry being encoded
          kind,          \* how the two processes are related
          pchanges, losses,
          promised,      \* per process: the values its lesson must convey
          missed         \* per key: why a change may not reach the other

prVars == <<table, peer, resync, inbox, joined, pushing, kind, pchanges, losses,
            promised, missed>>
bounds == <<kind, pchanges, losses>>

Procs == {"a", "b"}
other(n) == IF n = "a" THEN "b" ELSE "a"
NoId == IdSpan
Half == IdSpan \div 2
Ids == 0 .. IdSpan - 1

\* (int)(x - y) < 0
before(x, y) == (x - y) % IdSpan >= Half

empty_table == [val |-> [k \in Keys |-> 0], id |-> [k \in Keys |-> NoId],
                update |-> 0, localupdate |-> 0, commitupdate |-> 0]

\* the entries of "a", changed one after the other except those learnt from a third process
first_table(learnt) ==
    [val |-> [k \in Keys |-> 1],
     id |-> [k \in Keys |-> IF k \in learnt THEN k + Half ELSE k],
     update |-> Cardinality(Keys), commitupdate |-> 0,
     localupdate |-> IF Keys = learnt THEN 0
                     ELSE CHOOSE k \in Keys \ learnt : \A e \in Keys \ learnt : e <= k]

no_session == [sess |-> "none", update |-> 0, last_pushed |-> 0, teaching_origin |-> 0,
               last_get |-> 0, last_acked |-> 0, stage1 |-> FALSE, stage2 |-> FALSE,
               teach |-> FALSE, finished |-> FALSE, complete |-> FALSE,
               learn |-> FALSE, notup2date |-> FALSE, confirm |-> 0]

from_local == [local |-> FALSE, remote |-> FALSE, assign |-> FALSE, process |-> FALSE,
               stopping |-> FALSE, gone |-> FALSE]
synced == [from_local EXCEPT !.local = TRUE, !.remote = TRUE]

ToLocal(r) == ~r.local /\ ~r.remote
ToRemote(r) == r.local /\ ~r.remote
Synced(r) == r.local /\ r.remote

idle == [step |-> "none"]

\* "a" has been running for a while, "b" starts.  "a" may itself still wait for a lesson, and
\* is told to stop in a reload.  (Sessions are lost only in the first case, to bound the model.)
PrInit == /\ kind \in Kinds
          /\ \E learnt \in Learnt, r \in {synced, [from_local EXCEPT !.local = TRUE]} :
               /\ learnt # {} => r = synced
               /\ losses = IF r = synced THEN 0 ELSE MaxLosses
               /\ table = [n \in Procs |-> IF n = "a" THEN first_table(learnt) ELSE empty_table]
               /\ resync = [n \in Procs |-> IF n = "a"
                                            THEN [r EXCEPT !.stopping = (kind = "local")]
                                            ELSE from_local]
          /\ peer = [n \in Procs |-> no_session]
          /\ inbox = [n \in Procs |-> << >>]
          /\ joined = FALSE
          /\ pushing = [n \in Procs |-> idle]
          /\ pchanges = 0
          /\ promised = [n \in Procs |-> empty_table.val]
          /\ missed = [k \in Keys |-> {}]

--------------------------------------------------------------------------
(* The table: __stktable_touch_with_exp() *)

\* eb32_insert() in a tree of unique keys: an entry found at this id leaves the tree
numbered(t, k, i) == [t EXCEPT !.id = [e \in Keys |-> IF e = k THEN i
                                                      ELSE IF t.id[e] = i THEN NoId
                                                      ELSE t.id[e]]]

\* not in the tree, or no longer waiting to be pushed to any peer
needs_id(t, k) == \/ t.id[k] = NoId
                  \/ ~before(t.commitupdate, t.id[k])
                  \/ ~before(t.id[k], t.localupdate)

touch_local(t, k) ==
    IF needs_id(t, k)
    THEN LET i == (t.update + 1) % IdSpan
         IN [numbered(t, k, i) EXCEPT !.update = i, !.localupdate = i]
    ELSE t

touch_remote(t, k) ==
    IF t.id[k] = NoId
    THEN LET i == (t.update + 1) % IdSpan
         IN [numbered(t, k, (i + Half) % IdSpan) EXCEPT !.update = i]
    ELSE t

\* the cursor of this peer is already past the entry, or its old value is encoded
cursor(p) == IF p.sess = "up" THEN p.last_pushed ELSE p.update
behind_cursor(n, k) == \/ ~before(cursor(peer[n]), table[n].id[k])
                       \/ /\ pushing[n].step = "built"
                          /\ pushing[n].key = k

Change(k) == /\ pchanges < MaxPeerChanges
             /\ ~resync["a"].gone
             /\ pchanges' = pchanges + 1
             /\ table' = [table EXCEPT !["a"] =
                            touch_local([@ EXCEPT !.val[k] = pchanges + 2], k)]
             /\ missed' = [missed EXCEPT ![k] =
                             IF needs_id(table["a"], k) THEN @ \ {"unnumbered"}
                             ELSE IF behind_cursor("a", k) THEN @ \cup {"unnumbered"} ELSE @]
             /\ promised' = [promised EXCEPT !["a"][k] = IF needs_id(table["a"], k) THEN 0 ELSE @]
             /\ UNCHANGED <<peer, resync, inbox, joined, pushing, kind, losses>>

\* stktable_trash_expired(), on an entry which is not being encoded
Expire(k) == /\ pchanges < MaxPeerChanges
             /\ ~resync["a"].gone
             /\ table["a"].val[k] # 0
             /\ pushing["a"].step # "none" => pushing["a"].key # k
             /\ pchanges' = pchanges + 1
             /\ table' = [table EXCEPT !["a"].val[k] = 0, !["a"].id[k] = NoId]
             /\ promised' = [promised EXCEPT !["a"][k] = 0]
             /\ UNCHANGED <<peer, resync, inbox, joined, pushing, kind, losses, missed>>

--------------------------------------------------------------------------
(* Sessions *)

\* __peer_session_deinit()
deinit(p) == [p EXCEPT !.sess = "none", !.learn = FALSE, !.notup2date = FALSE,
                       !.teach = FALSE, !.finished = FALSE]
unassigned(r, p) == IF p.learn THEN [r EXCEPT !.assign = FALSE, !.process = FALSE] ELSE r


\* the cursors a session starts with; the stages of an interrupted lesson are left as they were
init_peer(p) == [p EXCEPT !.sess = "up", !.last_get = 0, !.last_acked = 0,
                          !.last_pushed = p.update, !.teaching_origin = p.update,
                          !.confirm = 0, !.teach = FALSE, !.finished = FALSE,
                          !.learn = FALSE, !.notup2date = FALSE]

assigns(r) == ToRemote(r) /\ ~r.assign
assign_remote(p, r) == [p EXCEPT !.learn = (kind = "remote" /\ assigns(r))]
assigned_remote(r) == IF kind = "remote" /\ assigns(r) THEN [r EXCEPT !.assign = TRUE] ELSE r

init_accepted_peer(p, r) ==
    IF kind = "local"
    THEN [init_peer(p) EXCEPT !.learn = ToLocal(r) /\ ~r.assign]
    ELSE assign_remote(init_peer(p), r)
accepted_resync(r) ==
    IF kind = "local"
    THEN IF ToLocal(r) /\ ~r.assign THEN [r EXCEPT !.assign = TRUE, !.process = TRUE] ELSE r
    ELSE assigned_remote(r)

init_connected_peer(p, r) ==
    IF kind = "local" THEN [init_peer(p) EXCEPT !.teach = TRUE]
    ELSE assign_remote(init_peer(p), r)

free(n) == pushing[n] = idle /\ ~resync[n].gone

\* a session is opened by <n>; the other end accepts it, and shuts an older one
Connect(n) ==
    LET m == other(n)
        old == deinit(peer[m])
        r == unassigned(resync[m], peer[m])
    IN /\ free(n) /\ free(m)
       /\ peer[n].sess = "none"
       /\ kind = "local" => n = "a" /\ peer[m].sess = "none" /\ ~peer[n].complete
       /\ peer' = [peer EXCEPT ![n].sess = "connect", ![m] = init_accepted_peer(old, r)]
       /\ resync' = [resync EXCEPT ![m] = accepted_resync(r)]
       /\ inbox' = [inbox EXCEPT ![n] = <<[type |-> "status"]>>, ![m] = << >>]
       /\ joined' = TRUE
       /\ UNCHANGED <<table, pushing, kind, pchanges, losses, promised, missed>>

\* peer_session_release(), or peer_session_forceshutdown() without a heartbeat
closed(n) ==
    /\ peer' = [peer EXCEPT ![n] = deinit(@)]
    /\ resync' = [resync EXCEPT ![n] = unassigned(@, peer[n])]
    /\ inbox' = [inbox EXCEPT ![n] = << >>]
    /\ joined' = FALSE

Lose(n) == /\ free(n)
           /\ peer[n].sess # "none"
           /\ joined => losses < MaxLosses
           /\ closed(n)
           /\ losses' = IF joined THEN losses + 1 ELSE losses
           /\ UNCHANGED <<table, pushing, kind, pchanges, promised, missed>>

\* "b" stops brutally and is started again
Restart == /\ losses < MaxLosses
           /\ kind = "remote"
           /\ losses' = losses + 1
           /\ table' = [table EXCEPT !["b"] = empty_table]
           /\ peer' = [peer EXCEPT !["b"] = no_session]
           /\ resync' = [resync EXCEPT !["b"] = from_local]
           /\ inbox' = [inbox EXCEPT !["b"] = << >>]
           /\ pushing' = [pushing EXCEPT !["b"] = idle]
           /\ joined' = FALSE
           /\ UNCHANGED <<kind, pchanges, promised, missed>>

--------------------------------------------------------------------------
(* Reading: peer_treat_awaited_msg() *)

reads(n, type) == /\ free(n)
                  /\ peer[n].sess = IF type = "status" THEN "connect" ELSE "up"
                  /\ inbox[n] # << >>
                  /\ Head(inbox[n]).type = type
                  /\ inbox' = [inbox EXCEPT ![n] = Tail(@)]

lesson_begins(n) == promised' = [promised EXCEPT ![n] = table[n].val]

ReadStatus(n) ==
    /\ reads(n, "status")
    /\ peer' = [peer EXCEPT ![n] = init_connected_peer(@, resync[n])]
    /\ resync' = [resync EXCEPT ![n] = assigned_remote(@)]
    /\ IF kind = "local" THEN lesson_begins(n) ELSE UNCHANGED promised
    /\ UNCHANGED <<table, joined, pushing, bounds, missed>>

ReadRequest(n) ==
    /\ reads(n, "request")
    /\ peer' = [peer EXCEPT ![n].teaching_origin = table[n].update,
                            ![n].last_pushed = table[n].update,
                            ![n].stage1 = FALSE, ![n].stage2 = FALSE,
                            ![n].teach = TRUE, ![n].finished = FALSE]
    /\ lesson_begins(n)
    /\ UNCHANGED <<table, resync, joined, pushing, bounds, missed>>

learnt(r, p) == IF p.learn THEN [r EXCEPT !.assign = FALSE, !.process = FALSE] ELSE r

ReadFinished(n) ==
    /\ reads(n, "finished")
    /\ resync' = [resync EXCEPT ![n] = IF peer[n].learn
                                       THEN [learnt(@, peer[n]) EXCEPT !.local = TRUE,
                                                                      !.remote = TRUE]
                                       ELSE @]
    /\ peer' = [peer EXCEPT ![n].learn = FALSE, ![n].confirm = @ + 1]
    /\ missed' = IF n = "b" THEN [k \in Keys |-> missed[k] \ {"no_lesson"}] ELSE missed
    /\ UNCHANGED <<table, joined, pushing, bounds, promised>>

ReadPartial(n) ==
    /\ reads(n, "partial")
    /\ resync' = [resync EXCEPT ![n] = learnt(@, peer[n])]
    /\ peer' = [peer EXCEPT ![n].notup2date = @ \/ peer[n].learn,
                            ![n].learn = FALSE, ![n].confirm = @ + 1]
    /\ UNCHANGED <<table, joined, pushing, bounds, promised, missed>>

\* a stopping process closes the session: it is no longer needed
ReadConfirm(n) ==
    /\ reads(n, "confirm")
    /\ ~resync[n].stopping
    /\ peer' = [peer EXCEPT ![n].update = peer[n].teaching_origin,
                            ![n].last_pushed = peer[n].teaching_origin,
                            ![n].stage1 = FALSE, ![n].stage2 = FALSE,
                            ![n].teach = FALSE, ![n].finished = FALSE]
    /\ missed' = IF n = "a" THEN [k \in Keys |-> missed[k] \ {"lesson_ack"}] ELSE missed
    /\ UNCHANGED <<table, resync, joined, pushing, bounds, promised>>

ReadLastConfirm(n) ==
    /\ free(n) /\ peer[n].sess = "up" /\ resync[n].stopping
    /\ inbox[n] # << >> /\ Head(inbox[n]).type = "confirm"
    /\ peer' = [peer EXCEPT ![n] = [deinit(@) EXCEPT !.complete = TRUE]]
    /\ resync' = [resync EXCEPT ![n] = unassigned(@, peer[n])]
    /\ inbox' = [inbox EXCEPT ![n] = << >>]
    /\ joined' = FALSE
    /\ UNCHANGED <<table, pushing, bounds, promised, missed>>

\* peer_treat_ackmsg()
ReadAck(n) ==
    /\ reads(n, "ack")
    /\ peer' = [peer EXCEPT ![n].update = Head(inbox[n]).id]
    /\ missed' = [k \in Keys |-> IF n = "a" /\ peer[n].teach
                                 THEN missed[k] \cup {"lesson_ack"} ELSE missed[k]]
    /\ UNCHANGED <<table, resync, joined, pushing, bounds, promised>>

\* peer_treat_updatemsg()
ReadUpdate(n) ==
    /\ reads(n, "update")
    /\ LET m == Head(inbox[n])
       IN /\ peer' = [peer EXCEPT ![n].last_get = m.id]
          /\ table' = [table EXCEPT ![n] = touch_remote([@ EXCEPT !.val[m.key] = m.val], m.key)]
          /\ missed' = [missed EXCEPT ![m.key] =
                           IF n = "a" /\ m.val < table[n].val[m.key] THEN @ \cup {"echoed"}
                           ELSE IF n = "b" /\ m.val = table["a"].val[m.key] THEN @ \ {"unnumbered"}
                           ELSE @]
          /\ promised' = [promised EXCEPT ![n][m.key] = IF m.val < table[n].val[m.key] THEN 0 ELSE @]
    /\ UNCHANGED <<resync, joined, pushing, bounds>>

--------------------------------------------------------------------------
(* Writing: peer_send_msgs(), one message at a time *)

send(n, m) == inbox' = IF joined THEN [inbox EXCEPT ![other(n)] = Append(@, m)] ELSE inbox

writes(n) == /\ free(n) /\ peer[n].sess = "up"
             /\ joined => Len(inbox[other(n)]) < MaxQueued

must_request(n) == peer[n].learn /\ resync[n].assign /\ ~resync[n].process
must_ack(n) == ~must_request(n) /\ peer[n].last_get # peer[n].last_acked
tables_next(n) == ~must_request(n) /\ ~must_ack(n)
must_push(n) == /\ tables_next(n) /\ ~peer[n].teach /\ ~peer[n].learn
                /\ before(peer[n].last_pushed, table[n].localupdate)
must_stage1(n) == tables_next(n) /\ peer[n].teach /\ ~peer[n].stage1
must_stage2(n) == tables_next(n) /\ peer[n].teach /\ peer[n].stage1 /\ ~peer[n].stage2
tables_done(n) == /\ tables_next(n) /\ ~must_push(n)
                  /\ peer[n].teach => peer[n].stage1 /\ peer[n].stage2
must_finish(n) == tables_done(n) /\ peer[n].teach /\ ~peer[n].finished
must_confirm(n) == tables_done(n) /\ ~must_finish(n) /\ peer[n].confirm > 0

SendRequest(n) ==
    /\ writes(n) /\ must_request(n)
    /\ send(n, [type |-> "request"])
    /\ resync' = [resync EXCEPT ![n].process = TRUE]
    /\ UNCHANGED <<table, peer, joined, pushing, bounds, promised, missed>>

SendAck(n) ==
    /\ writes(n) /\ must_ack(n)
    /\ send(n, [type |-> "ack", id |-> peer[n].last_get])
    /\ peer' = [peer EXCEPT ![n].last_acked = peer[n].last_get]
    /\ UNCHANGED <<table, resync, joined, pushing, bounds, promised, missed>>

\* eb32_lookup_ge() and eb32_first() on the tree of updates
in_tree(t) == {k \in Keys : t.id[k] # NoId}
first_ge(t, i) == {k \in in_tree(t) : /\ t.id[k] >= i
                                      /\ \A e \in in_tree(t) : t.id[e] >= i => t.id[k] <= t.id[e]}
next_id(n) == (peer[n].last_pushed + 1) % IdSpan

\* peer_teach_process_stksess_lookup(): the entry to push, if any
process_lookup(n) ==
    LET t == table[n]
        ge == first_ge(t, next_id(n))
        ks == IF ge # {} THEN ge
              ELSE {k \in first_ge(t, 0) : before(peer[n].last_pushed, t.id[k])}
    IN {k \in ks : ~before(t.localupdate, t.id[k])}

\* peer_teach_stage2_stksess_lookup(); stage 1 takes every entry up to the end of the tree
stage2_lookup(n) == {k \in first_ge(table[n], next_id(n)) : table[n].id[k] <= peer[n].teaching_origin}

pick(n, k, mode) ==
    pushing' = [pushing EXCEPT ![n] = [step |-> "picked", key |-> k, id |-> table[n].id[k],
                                       mode |-> mode]]

PushLocal(n) ==
    /\ writes(n) /\ must_push(n)
    /\ \E k \in process_lookup(n) : pick(n, k, "process")
    /\ UNCHANGED <<table, peer, resync, inbox, joined, bounds, promised, missed>>

PushedLocal(n) ==
    /\ writes(n) /\ must_push(n)
    /\ process_lookup(n) = {}
    /\ table' = [table EXCEPT ![n].commitupdate = table[n].localupdate]
    /\ peer' = [peer EXCEPT ![n].last_pushed = table[n].localupdate]
    /\ UNCHANGED <<resync, inbox, joined, pushing, bounds, promised, missed>>

TeachStage1(n) ==
    /\ writes(n) /\ must_stage1(n)
    /\ \E k \in first_ge(table[n], next_id(n)) : pick(n, k, "lesson")
    /\ UNCHANGED <<table, peer, resync, inbox, joined, bounds, promised, missed>>

TaughtStage1(n) ==
    /\ writes(n) /\ must_stage1(n)
    /\ first_ge(table[n], next_id(n)) = {}
    /\ LET first == first_ge(table[n], 0)
       IN peer' = [peer EXCEPT ![n].stage1 = TRUE,
                               ![n].last_pushed = IF first = {} THEN @
                                                  ELSE (table[n].id[CHOOSE k \in first : TRUE] - 1) % IdSpan]
    /\ UNCHANGED <<table, resync, inbox, joined, pushing, bounds, promised, missed>>

TeachStage2(n) ==
    /\ writes(n) /\ must_stage2(n)
    /\ \E k \in stage2_lookup(n) : pick(n, k, "lesson")
    /\ UNCHANGED <<table, peer, resync, inbox, joined, bounds, promised, missed>>

TaughtStage2(n) ==
    /\ writes(n) /\ must_stage2(n)
    /\ stage2_lookup(n) = {}
    /\ peer' = [peer EXCEPT ![n].stage2 = TRUE]
    /\ UNCHANGED <<table, resync, inbox, joined, pushing, bounds, promised, missed>>

\* peer_send_teachmsgs(): the entry is encoded without the lock of the table
EncodeUpdate(n) ==
    /\ pushing[n].step = "picked"
    /\ send(n, [type |-> "update", key |-> pushing[n].key, id |-> pushing[n].id,
                val |-> table[n].val[pushing[n].key]])
    /\ pushing' = [pushing EXCEPT ![n].step = "built"]
    /\ UNCHANGED <<table, peer, resync, joined, bounds, promised, missed>>

EncodedUpdate(n) ==
    /\ pushing[n].step = "built"
    /\ peer' = [peer EXCEPT ![n].last_pushed = pushing[n].id]
    /\ table' = [table EXCEPT ![n].commitupdate =
                   IF pushing[n].mode = "process" /\ before(@, pushing[n].id) THEN pushing[n].id ELSE @]
    /\ pushing' = [pushing EXCEPT ![n] = idle]
    /\ UNCHANGED <<resync, inbox, joined, bounds, promised, missed>>

\* the message tells whether this process considers itself up to date
SendFinished(n) ==
    /\ writes(n) /\ must_finish(n)
    /\ send(n, [type |-> IF Synced(resync[n]) THEN "finished" ELSE "partial",
                promise |-> promised[n]])
    /\ peer' = [peer EXCEPT ![n].finished = TRUE]
    /\ UNCHANGED <<table, resync, joined, pushing, bounds, promised, missed>>

SendConfirm(n) ==
    /\ writes(n) /\ must_confirm(n)
    /\ send(n, [type |-> "confirm"])
    /\ peer' = [peer EXCEPT ![n].confirm = @ - 1]
    /\ UNCHANGED <<table, resync, joined, pushing, bounds, promised, missed>>

--------------------------------------------------------------------------
(* The task of the section: process_peer_sync() *)

runs(n) == free(n) /\ ~resync[n].stopping
teacher_ready(n) == kind = "remote" /\ peer[n].sess = "up" /\ ~peer[n].notup2date

\* no old process, or it did not come in time
GiveUpLocal(n) == /\ runs(n) /\ ToLocal(resync[n]) /\ ~resync[n].assign
                  /\ resync' = [resync EXCEPT ![n].local = TRUE]
                  /\ UNCHANGED <<table, peer, inbox, joined, pushing, bounds, promised, missed>>

Assign(n) == /\ runs(n) /\ assigns(resync[n]) /\ teacher_ready(n)
             /\ peer' = [peer EXCEPT ![n].learn = TRUE]
             /\ resync' = [resync EXCEPT ![n].assign = TRUE]
             /\ UNCHANGED <<table, inbox, joined, pushing, bounds, promised, missed>>

\* the resync timeout has expired
GiveUpRemote(n) == /\ runs(n) /\ assigns(resync[n]) /\ ~teacher_ready(n)
                   /\ resync' = [resync EXCEPT ![n].remote = TRUE]
                   /\ missed' = IF n = "b" THEN [k \in Keys |-> missed[k] \cup {"no_lesson"}]
                                ELSE missed
                   /\ UNCHANGED <<table, peer, inbox, joined, pushing, bounds, promised>>

\* the old process ends once the new one has confirmed, or cannot be reached
Retire(n) == /\ free(n) /\ resync[n].stopping /\ peer[n].sess = "none"
             /\ resync' = [resync EXCEPT ![n].gone = TRUE]
             /\ UNCHANGED <<table, peer, inbox, joined, pushing, bounds, promised, missed>>

--------------------------------------------------------------------------
Read(n) == \/ ReadStatus(n) \/ ReadRequest(n) \/ ReadFinished(n) \/ ReadPartial(n)
           \/ ReadConfirm(n) \/ ReadLastConfirm(n) \/ ReadAck(n) \/ ReadUpdate(n)

Write(n) == \/ SendRequest(n) \/ SendAck(n) \/ PushLocal(n) \/ PushedLocal(n)
            \/ TeachStage1(n) \/ TaughtStage1(n) \/ TeachStage2(n) \/ TaughtStage2(n)
            \/ EncodeUpdate(n) \/ EncodedUpdate(n) \/ SendFinished(n) \/ SendConfirm(n)

Sync(n) == GiveUpLocal(n) \/ Assign(n) \/ GiveUpRemote(n) \/ Retire(n)

PrNext == \/ \E n \in Procs : Read(n) \/ Write(n) \/ Sync(n) \/ Connect(n) \/ Lose(n)
          \/ \E k \in Keys : Change(k) \/ Expire(k)
          \/ Restart

\* what a process does as long as it runs: the loss of a session is noticed on the other end
PrStep(n) == \/ Read(n) \/ Write(n) \/ (~joined /\ Lose(n))
             \/ GiveUpLocal(n) \/ Assign(n) \/ GiveUpRemote(n)
PrRetire(n) == Retire(n)
PrFairness == \A n \in Procs : WF_prVars(PrStep(n)) /\ WF_prVars(PrRetire(n))

PrSpec == PrInit /\ [][PrNext]_prVars /\ PrFairness

--------------------------------------------------------------------------
\* nothing is left to read or to write
settled == /\ joined
           /\ \A n \in Procs : /\ peer[n].sess = "up"
                               /\ inbox[n] = << >> /\ Synced(resync[n])
                               /\ pushing[n] = idle
                               /\ ~must_request(n) /\ ~must_ack(n) /\ ~must_push(n)
                               /\ ~peer[n].teach /\ ~peer[n].learn /\ peer[n].confirm = 0

\* doc/configuration.txt: "Each instance pushes its local updates and insertions to remote
\* peers."  Once two connected peers have nothing more to say, "b" holds the last value of
\* every entry of "a" (0: none) unless (unnumbered) the change got no new id while the cursor of this
\* peer was already past the entry, (lesson_ack) an acknowledgement of a lesson was taken for
\* one of the pushes and the session was lost, (no_lesson) "b" gave up waiting for a lesson,
\* or (echoed) an older value taught by "b" has overwritten the change.
CaughtUp == settled => \A k \in Keys : \/ table["a"].val[k] \in {0, table["b"].val[k]}
                                       \/ missed[k] # {}

holds_promise(n) == (inbox[n] # << >> /\ Head(inbox[n]).type = "finished") =>
                        \A k \in Keys : table[n].val[k] >= Head(inbox[n]).promise[k]

\* When a process reads the end of a lesson it holds all that the teacher knew when the lesson
\* began, save what got a new id since (which is pushed after the lesson).  In a reload this
\* holds for the first session only: init_connected_peer() does not forget the stages a lost
\* session had completed.
LessonWhole == (kind = "remote" \/ losses = 0) => \A n \in Procs : holds_promise(n)

\* The section waits for a lesson (and does not look for another teacher, nor give up) exactly
\* as long as the peer it was assigned to is connected and teaching.
AssignExact == \A n \in Procs : resync[n].assign <=> peer[n].learn

\* Whatever sessions are lost, a process with a session stops waiting for its lesson, and an
\* old process which has reached the new one ends.
LessonEnds == /\ (peer["b"].sess = "up" /\ ~Synced(resync["b"])) ~> Synced(resync["b"])
              /\ (peer["a"].sess = "up" /\ resync["a"].stopping) ~> resync["a"].gone

=============================================================================
