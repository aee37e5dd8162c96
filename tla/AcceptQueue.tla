------------------------------ MODULE AcceptQueue ------------------------------
(***************************************************************************)
(* The accept queue of a thread, src/src/listener.c: a ring written by     *)
(* several producers, accept_queue_push_mp(), and read by one consumer,    *)
(* accept_queue_pop_sc(), without a lock.  Every load and store of the     *)
(* ring that another thread can see is a step of its own.                  *)
(***************************************************************************)
EXTENDS Naturals, FiniteSets, Sequences

CONSTANTS
    Producers,  \* the threads that accept connections
    AqSize,     \* ACCEPT_QUEUE_SIZE
    MaxFds,     \* bound: connections pushed
    MayLap      \* whether the ring may be filled once round while a producer
                \* is between its read of the tail and its compare-and-swap

ASSUME AqAssumption == AqSize \in Nat \ {0} /\ MaxFds \in Nat

VARIABLES
    entry,      \* per slot: committed (e->listener is set), fd
    head, tail, \* ring->head and ring->tail
    prod,       \* per producer: pc, fd, pos, since (claims when pos was read)
    cons,       \* the consumer: pc, fd
    pushed,     \* connections handed to accept_queue_push_mp() so far
    claims,     \* successful compare-and-swaps so far
    popped      \* the connections the consumer got, in order

aqVars == <<entry, head, tail, prod, cons, pushed, claims, popped>>

AqInit ==
    /\ entry = [i \in 0 .. AqSize - 1 |-> [set |-> FALSE, fd |-> 0]]
    /\ head = 0
    /\ tail = 0
    /\ prod = [p \in Producers |-> [pc |-> "idle", fd |-> 0, pos |-> 0, since |-> 0]]
    /\ cons = [pc |-> "idle", fd |-> 0]
    /\ pushed = 0
    /\ claims = 0
    /\ popped = <<>>

succ(i) == IF i + 1 >= AqSize THEN 0 ELSE i + 1

(* pos = ring->tail *)
PushStart(p) ==
    /\ prod[p].pc = "idle"
    /\ pushed < MaxFds
    /\ pushed' = pushed + 1
    /\ prod' = [prod EXCEPT ![p] = [pc |-> "test", fd |-> pushed + 1, pos |-> tail, since |-> claims]]
    /\ UNCHANGED <<entry, head, tail, cons, claims, popped>>

(* if (next == ring->head) return 0; // ring full *)
PushTest(p) ==
    /\ prod[p].pc = "test"
    /\ prod' = [prod EXCEPT ![p] = IF succ(@.pos) = head
                                   THEN [pc |-> "idle", fd |-> 0, pos |-> 0, since |-> 0]
                                   ELSE [@ EXCEPT !.pc = "cas"]]
    /\ UNCHANGED <<entry, head, tail, cons, pushed, claims, popped>>

(* No other producer is lapped by one more claim. *)
no_lap(p) == \A q \in Producers \ {p} :
                prod[q].pc \in {"test", "cas"} => claims - prod[q].since < AqSize - 1

(* _HA_ATOMIC_CAS(&ring->tail, &pos, next), which reloads pos when it fails *)
PushCas(p) ==
    /\ prod[p].pc = "cas"
    /\ IF tail = prod[p].pos
       THEN /\ MayLap \/ no_lap(p)
            /\ tail' = succ(tail)
            /\ claims' = claims + 1
            /\ prod' = [prod EXCEPT ![p].pc = "fill"]
       ELSE /\ prod' = [prod EXCEPT ![p].pc = "test", ![p].pos = tail, ![p].since = claims]
            /\ UNCHANGED <<tail, claims>>
    /\ UNCHANGED <<entry, head, cons, pushed, popped>>

(* e->fd = fd, and the address *)
PushFill(p) ==
    /\ prod[p].pc = "fill"
    /\ entry' = [entry EXCEPT ![prod[p].pos].fd = prod[p].fd]
    /\ prod' = [prod EXCEPT ![p].pc = "commit"]
    /\ UNCHANGED <<head, tail, cons, pushed, claims, popped>>

(* now commit the change: e->listener = li *)
PushCommit(p) ==
    /\ prod[p].pc = "commit"
    /\ entry' = [entry EXCEPT ![prod[p].pos].set = TRUE]
    /\ prod' = [prod EXCEPT ![p] = [pc |-> "idle", fd |-> 0, pos |-> 0, since |-> 0]]
    /\ UNCHANGED <<head, tail, cons, pushed, claims, popped>>

(* The consumer finds an entry, and waits until the producer has committed it. *)
PopStart ==
    /\ cons.pc = "idle"
    /\ head # tail
    /\ cons' = [cons EXCEPT !.pc = "wait"]
    /\ UNCHANGED <<entry, head, tail, prod, pushed, claims, popped>>

(* A mutant: the consumer does not wait for the commit. *)
PopReadEarly ==
    /\ cons.pc = "wait"
    /\ cons' = [pc |-> "release", fd |-> entry[head].fd]
    /\ UNCHANGED <<entry, head, tail, prod, pushed, claims, popped>>

PopRead ==
    /\ cons.pc = "wait"
    /\ entry[head].set
    /\ cons' = [pc |-> "release", fd |-> entry[head].fd]
    /\ UNCHANGED <<entry, head, tail, prod, pushed, claims, popped>>

(* release the entry: e->listener = NULL *)
PopRelease ==
    /\ cons.pc = "release"
    /\ entry' = [entry EXCEPT ![head].set = FALSE]
    /\ cons' = [cons EXCEPT !.pc = "advance"]
    /\ UNCHANGED <<head, tail, prod, pushed, claims, popped>>

(* ring->head = next, and the connection is returned *)
PopAdvance ==
    /\ cons.pc = "advance"
    /\ head' = succ(head)
    /\ popped' = Append(popped, cons.fd)
    /\ cons' = [pc |-> "idle", fd |-> 0]
    /\ UNCHANGED <<entry, tail, prod, pushed, claims>>

Pop == PopStart \/ PopRead \/ PopRelease \/ PopAdvance
AqNext ==
    \/ \E p \in Producers : PushStart(p) \/ PushTest(p) \/ PushCas(p) \/ PushFill(p) \/ PushCommit(p)
    \/ Pop

AqSpec == AqInit /\ [][AqNext]_aqVars

--------------------------------------------------------------------------------
(* The connections the ring holds, in the order their slots were claimed: the
   one of a slot that is not committed is still its producer's. *)
fd_at(i) ==
    IF \E p \in Producers : prod[p].pc \in {"fill", "commit"} /\ prod[p].pos = i
    THEN (CHOOSE q \in {prod[p] : p \in Producers} : q.pc \in {"fill", "commit"} /\ q.pos = i).fd
    ELSE entry[i].fd
held_fds == [k \in 1 .. ((tail + AqSize - head) % AqSize) |-> fd_at((head + k - 1) % AqSize)]

F == INSTANCE Fifo WITH Items <- 1 .. MaxFds, Capacity <- AqSize - 1, queue <- held_fds

(* The ring is a first-in first-out queue of ACCEPT_QUEUE_SIZE - 1 connections:
   pushing claims the last place, popping frees the first. *)
AqIsFifo == F!FifoSpec

(* What the consumer got was pushed, once: no connection is served twice, none
   is read before its producer wrote it, and none of those popped is still held. *)
PoppedOnce ==
    /\ \A i, j \in DOMAIN popped : i # j => popped[i] # popped[j]
    /\ \A i \in DOMAIN popped : popped[i] \in 1 .. pushed /\ \A k \in DOMAIN held_fds : held_fds[k] # popped[i]

(* A slot outside the ring's occupied part is free for the next producer: its
   listener pointer is cleared before the head moves past it. *)
FreeSlotsClear ==
    \A i \in 0 .. AqSize - 1 :
        (i + AqSize - head) % AqSize >= (tail + AqSize - head) % AqSize => ~entry[i].set

(* The accept queue delivers each connection once and in order, and the slots
   it frees are clear for the next ones: accept_queue_push_mp() of several
   threads against accept_queue_pop_sc(). *)
AqServed == AqIsFifo /\ [](PoppedOnce /\ FreeSlotsClear)
================================================================================
