-------------------------- MODULE AcceptQueue_proofs --------------------------
(***************************************************************************)
(* Proofs about the accept queue of a thread, whose producers are the      *)
(* other threads.                                                          *)
(***************************************************************************)
EXTENDS AcceptQueue, TLAPS

(***************************************************************************)
(* The accept queue, for any number of producers, any size of the ring and *)
(* any number of connections.                                              *)
(*                                                                         *)
(* The invariant counts slots from the head of the ring: a slot is taken   *)
(* when it is nearer to the head than the tail is (Taken).  A producer     *)
(* which claimed a slot is alone in it until it commits (Claimed), the     *)
(* others are clear (Cleared), the consumer has what the slot at the head  *)
(* holds (Consumer), and the connections in the hands of a producer, in a  *)
(* slot or already popped are all different (Fresh).  TailSeen is about    *)
(* the compare-and-swap: when it succeeds, no slot was claimed since the   *)
(* tail was read, hence the test that the ring is not full still holds.    *)
(* This is where the producers must not be lapped (MayLap).                *)
(***************************************************************************)
AqSlots == 0 .. AqSize - 1
dist(h, i) == IF i >= h THEN i - h ELSE (i + AqSize) - h
fwd(i, d) == IF i + d < AqSize THEN i + d ELSE (i + d) - AqSize
used == dist(head, tail)
Taken(i) == i \in AqSlots /\ dist(head, i) < used
Looks(p) == prod[p].pc \in {"test", "cas"}
Holding(p) == prod[p].pc \in {"fill", "commit"}
Holds1(p, i) == Holding(p) /\ prod[p].pos = i
Got(x) == \E n \in DOMAIN popped : popped[n] = x

ProdRec == [pc : {"idle", "test", "cas", "fill", "commit"}, fd : 0 .. MaxFds, pos : AqSlots, since : Nat]
AqTypes ==
  /\ entry \in [AqSlots -> [set : BOOLEAN, fd : 0 .. MaxFds]]
  /\ head \in AqSlots /\ tail \in AqSlots
  /\ prod \in [Producers -> ProdRec]
  /\ cons \in [pc : {"idle", "wait", "release", "advance"}, fd : 0 .. MaxFds]
  /\ pushed \in 0 .. MaxFds /\ claims \in Nat /\ popped \in Seq(1 .. MaxFds)

TailSeenBy(p) == Looks(p) =>
  /\ prod[p].since <= claims /\ claims - prod[p].since < AqSize
  /\ tail = fwd(prod[p].pos, claims - prod[p].since)
  /\ prod[p].pc = "cas" /\ prod[p].since = claims => used < AqSize - 1
TailSeen == \A p \in Producers : TailSeenBy(p)

Claimed ==
  /\ \A p \in Producers : Holding(p) =>
       /\ Taken(prod[p].pos) /\ ~entry[prod[p].pos].set
       /\ prod[p].pc = "commit" => entry[prod[p].pos].fd = prod[p].fd
  /\ \A i : \A p, q \in Producers : Holds1(p, i) /\ Holds1(q, i) => q = p

Cleared == \A i \in AqSlots : ~Taken(i) => ~entry[i].set

Consumer ==
  /\ cons.pc # "idle" => Taken(head)
  /\ cons.pc = "release" => entry[head].set
  /\ cons.pc = "advance" => ~entry[head].set /\ \A p \in Producers : ~Holds1(p, head)
  /\ cons.pc \in {"release", "advance"} => cons.fd = entry[head].fd

FdsOfProd == \A p \in Producers : prod[p].pc # "idle" =>
  /\ prod[p].fd \in 1 .. pushed
  /\ \A q \in Producers : prod[q].pc # "idle" /\ prod[q].fd = prod[p].fd => q = p
  /\ Looks(p) => ~Got(prod[p].fd) /\ \A i \in AqSlots : Taken(i) => fd_at(i) # prod[p].fd
FdsOfRing == \A i \in AqSlots : Taken(i) =>
  /\ fd_at(i) \in 1 .. pushed /\ ~Got(fd_at(i))
  /\ \A j \in AqSlots : Taken(j) /\ fd_at(j) = fd_at(i) => j = i
FdsOfPopped == \A n \in DOMAIN popped :
  popped[n] \in 1 .. pushed /\ \A m \in DOMAIN popped : popped[m] = popped[n] => m = n
Fresh == FdsOfProd /\ FdsOfRing /\ FdsOfPopped

AqInv == AqTypes /\ TailSeen /\ Claimed /\ Cleared /\ Consumer /\ Fresh

\* Counting slots from one of them, round the ring.
LEMMA DistRange ==
  \A h, i \in AqSlots : /\ dist(h, i) \in AqSlots /\ (dist(h, i) = 0 <=> i = h)
                        /\ fwd(h, dist(h, i)) = i
                        /\ \A j \in AqSlots : dist(h, i) = dist(h, j) => i = j
BY AqAssumption DEF AqSlots, dist, fwd

LEMMA DistSucc ==
  \A h, i \in AqSlots : /\ succ(i) \in AqSlots /\ (succ(i) = h <=> dist(h, i) = AqSize - 1)
                        /\ succ(i) # h => dist(h, succ(i)) = dist(h, i) + 1
                        /\ i # h => dist(succ(h), i) = dist(h, i) - 1
                        /\ dist(succ(h), h) = AqSize - 1
BY AqAssumption DEF AqSlots, dist, succ

LEMMA FwdDist ==
  \A h \in AqSlots : /\ fwd(h, 0) = h
                     /\ \A d \in AqSlots : /\ fwd(h, d) \in AqSlots /\ dist(h, fwd(h, d)) = d
                                           /\ fwd(h, d) = h => d = 0
                                           /\ d + 1 < AqSize => /\ succ(fwd(h, d)) = fwd(h, d + 1)
                                                                /\ fwd(succ(h), d) = fwd(h, d + 1)
BY AqAssumption DEF AqSlots, dist, fwd, succ

\* What the remainders of the code compute.
LEMMA AqMod ==
  \A a \in Nat : (a < AqSize => a % AqSize = a) /\ (AqSize <= a /\ a < AqSize + AqSize => a % AqSize = a - AqSize)
BY AqAssumption

LEMMA HeldLen ==
  \A h, t \in AqSlots : (t + AqSize - h) % AqSize = dist(h, t)
<1> SUFFICES ASSUME NEW h \in AqSlots, NEW t \in AqSlots
             PROVE  (t + AqSize - h) % AqSize = dist(h, t)
  OBVIOUS
<1> DEFINE a == (t + AqSize) - h
<1>1. /\ a \in Nat /\ t + AqSize - h = a
      /\ t < h => a < AqSize /\ dist(h, t) = a
      /\ t >= h => AqSize <= a /\ a < AqSize + AqSize /\ dist(h, t) = a - AqSize
      /\ t < h \/ t >= h
  BY AqAssumption DEF AqSlots, dist
<1> HIDE DEF a
<1> QED
  BY <1>1, AqMod, Zenon

LEMMA HeldAt ==
  \A h \in AqSlots : \A k \in 1 .. AqSize : (h + k - 1) % AqSize = fwd(h, k - 1)
<1> SUFFICES ASSUME NEW h \in AqSlots, NEW k \in 1 .. AqSize
             PROVE  (h + k - 1) % AqSize = fwd(h, k - 1)
  OBVIOUS
<1> DEFINE a == (h + k) - 1
<1>1. /\ a \in Nat /\ h + k - 1 = a
      /\ a < AqSize => fwd(h, k - 1) = a
      /\ a >= AqSize => AqSize <= a /\ a < AqSize + AqSize /\ fwd(h, k - 1) = a - AqSize
      /\ a < AqSize \/ a >= AqSize
  BY AqAssumption DEF AqSlots, fwd
<1> HIDE DEF a
<1> QED
  BY <1>1, AqMod, Zenon

\* How a slot becomes taken when the tail advances, and free when the head does.
LEMMA TakenClaim ==
  ASSUME AqTypes, used < AqSize - 1, tail' = succ(tail), head' = head
  PROVE  /\ tail' \in AqSlots /\ used' = used + 1 /\ ~Taken(tail)
         /\ \A i : Taken(i)' <=> Taken(i) \/ i = tail
<1>1. head \in AqSlots /\ tail \in AqSlots /\ used = dist(head, tail) /\ used' = dist(head, succ(tail))
  BY DEF AqTypes, used
<1>2. succ(tail) \in AqSlots /\ dist(head, succ(tail)) = dist(head, tail) + 1 /\ dist(head, tail) \in Nat
  <2>1. succ(tail) # head
    BY <1>1, AqAssumption, DistSucc
  <2> QED
    BY <1>1, <2>1, DistSucc, DistRange DEF AqSlots
<1>3. ASSUME NEW i \in AqSlots PROVE dist(head, i) \in Nat /\ (dist(head, i) = dist(head, tail) <=> i = tail)
  <2>1. dist(head, i) \in AqSlots /\ (dist(head, i) = dist(head, tail) => i = tail)
    BY <1>1, DistRange, ZenonT(30)
  <2> QED
    BY <2>1 DEF AqSlots
<1>4. ASSUME NEW i PROVE Taken(i)' <=> Taken(i) \/ i = tail
  <2>1. CASE i \notin AqSlots
    BY <1>1, <2>1 DEF Taken
  <2>2. CASE i \in AqSlots
    BY <1>1, <1>2, <1>3, <2>2 DEF Taken, used
  <2> QED
    BY <2>1, <2>2
<1>5. ~Taken(tail)
  BY <1>1, <1>2 DEF Taken
<1> QED
  BY <1>1, <1>2, <1>4, <1>5

LEMMA TakenRelease ==
  ASSUME AqTypes, Taken(head), head' = succ(head), tail' = tail
  PROVE  /\ head' \in AqSlots /\ used \in AqSlots /\ used > 0 /\ used' = used - 1
         /\ \A i : Taken(i)' <=> Taken(i) /\ i # head
<1>1. head \in AqSlots /\ tail \in AqSlots /\ used = dist(head, tail) /\ used' = dist(succ(head), tail)
  BY DEF AqTypes, used
<1>2. dist(head, head) = 0 /\ dist(head, tail) \in AqSlots /\ dist(head, tail) > 0 /\ tail # head
  <2>1. dist(head, head) = 0 /\ dist(head, tail) \in AqSlots /\ dist(head, head) < dist(head, tail)
    BY <1>1, DistRange DEF Taken
  <2> QED
    BY <1>1, <2>1 DEF AqSlots
<1>3. /\ succ(head) \in AqSlots /\ dist(succ(head), tail) = dist(head, tail) - 1
      /\ dist(succ(head), head) = AqSize - 1
  BY <1>1, <1>2, DistSucc
<1>4. ASSUME NEW i PROVE Taken(i)' <=> Taken(i) /\ i # head
  <2>1. CASE i \notin AqSlots
    BY <2>1 DEF Taken
  <2>2. CASE i = head
    BY <1>1, <1>2, <1>3, <2>2, AqAssumption DEF Taken, AqSlots
  <2>3. CASE i \in AqSlots /\ i # head
    <3>1. dist(succ(head), i) = dist(head, i) - 1 /\ dist(head, i) \in Nat
      BY <1>1, <2>3, DistSucc, DistRange DEF AqSlots
    <3> QED
      BY <1>1, <1>2, <1>3, <2>3, <3>1 DEF Taken, AqSlots
  <2> QED
    BY <2>1, <2>2, <2>3
<1> QED
  BY <1>1, <1>2, <1>3, <1>4

\* The connection of a slot: its producer's, or the one written in it.
FdIn(pr, en, i) ==
  IF \E p \in Producers : pr[p].pc \in {"fill", "commit"} /\ pr[p].pos = i
  THEN (CHOOSE q \in {pr[p] : p \in Producers} : q.pc \in {"fill", "commit"} /\ q.pos = i).fd
  ELSE en[i].fd

LEMMA FdOf ==
  ASSUME NEW pr, NEW en, NEW i
  PROVE  /\ ((\A p \in Producers : ~(pr[p].pc \in {"fill", "commit"} /\ pr[p].pos = i))
             => FdIn(pr, en, i) = en[i].fd)
         /\ \A p \in Producers :
              (/\ pr[p].pc \in {"fill", "commit"} /\ pr[p].pos = i
               /\ \A q \in Producers : pr[q].pc \in {"fill", "commit"} /\ pr[q].pos = i => q = p)
              => FdIn(pr, en, i) = pr[p].fd
<1>1. ASSUME \A p \in Producers : ~(pr[p].pc \in {"fill", "commit"} /\ pr[p].pos = i)
      PROVE  FdIn(pr, en, i) = en[i].fd
  BY <1>1 DEF FdIn
<1>2. ASSUME NEW p \in Producers, pr[p].pc \in {"fill", "commit"} /\ pr[p].pos = i,
             \A q \in Producers : pr[q].pc \in {"fill", "commit"} /\ pr[q].pos = i => q = p
      PROVE  FdIn(pr, en, i) = pr[p].fd
  <2> DEFINE S == {pr[q] : q \in Producers}
             Q(q) == q.pc \in {"fill", "commit"} /\ q.pos = i
             c == CHOOSE q \in S : Q(q)
  <2>1. pr[p] \in S /\ Q(pr[p])
    BY <1>2
  <2>2. c \in S /\ Q(c)
    BY <2>1
  <2>3. \A q \in S : Q(q) => q = pr[p]
    BY <1>2
  <2>4. c = pr[p]
    BY <2>2, <2>3
  <2>5. FdIn(pr, en, i) = c.fd
    BY <1>2 DEF FdIn
  <2> QED
    BY <2>4, <2>5, Zenon
<1> QED
  BY <1>1, <1>2

LEMMA FdAt ==
  ASSUME Claimed
  PROVE  \A i : /\ (\A p \in Producers : ~Holds1(p, i)) => fd_at(i) = entry[i].fd
                /\ \A p \in Producers : Holds1(p, i) => fd_at(i) = prod[p].fd
<1> SUFFICES ASSUME NEW i
             PROVE  /\ (\A p \in Producers : ~Holds1(p, i)) => fd_at(i) = entry[i].fd
                    /\ \A p \in Producers : Holds1(p, i) => fd_at(i) = prod[p].fd
  OBVIOUS
<1>1. fd_at(i) = FdIn(prod, entry, i)
  BY DEF fd_at, FdIn
<1>2. \A p, q \in Producers : Holds1(p, i) /\ Holds1(q, i) => q = p
  BY DEF Claimed
<1> QED
  BY <1>1, <1>2, FdOf DEF Holds1, Holding

LEMMA FdAtNext ==
  ASSUME \A i : \A p, q \in Producers : Holds1(p, i)' /\ Holds1(q, i)' => q = p
  PROVE  \A i : /\ (\A p \in Producers : ~Holds1(p, i)') => fd_at(i)' = entry'[i].fd
                /\ \A p \in Producers : Holds1(p, i)' => fd_at(i)' = prod'[p].fd
<1> SUFFICES ASSUME NEW i
             PROVE  /\ (\A p \in Producers : ~Holds1(p, i)') => fd_at(i)' = entry'[i].fd
                    /\ \A p \in Producers : Holds1(p, i)' => fd_at(i)' = prod'[p].fd
  OBVIOUS
<1>1. fd_at(i)' = FdIn(prod', entry', i)
  BY DEF fd_at, FdIn
<1>2. \A p, q \in Producers : Holds1(p, i)' /\ Holds1(q, i)' => q = p
  OBVIOUS
<1> QED
  BY <1>1, <1>2, FdOf DEF Holds1, Holding

\* The ring as a queue.
LEMMA HeldIs ==
  ASSUME AqTypes
  PROVE  /\ used \in AqSlots
         /\ held_fds = [k \in 1 .. used |-> FdIn(prod, entry, fwd(head, k - 1))]
<1>1. head \in AqSlots /\ tail \in AqSlots /\ used = dist(head, tail)
  BY DEF AqTypes, used
<1>2. used \in AqSlots /\ (tail + AqSize - head) % AqSize = used
  BY <1>1, DistRange, HeldLen, Zenon
<1>3. \A k \in 1 .. used : (head + k - 1) % AqSize = fwd(head, k - 1)
  <2>1. \A k \in 1 .. used : k \in 1 .. AqSize
    BY <1>2, AqAssumption DEF AqSlots
  <2> QED
    BY <1>1, <2>1, HeldAt, Zenon
<1>4. held_fds = [k \in 1 .. ((tail + AqSize - head) % AqSize) |-> FdIn(prod, entry, (head + k - 1) % AqSize)]
  BY DEF held_fds, fd_at, FdIn
<1>5. held_fds = [k \in 1 .. used |-> FdIn(prod, entry, (head + k - 1) % AqSize)]
  BY <1>2, <1>4, Zenon
<1> QED
  BY <1>2, <1>3, <1>5, Zenon

LEMMA HeldNext ==
  ASSUME head' \in AqSlots, tail' \in AqSlots
  PROVE  /\ used' \in AqSlots
         /\ held_fds' = [k \in 1 .. used' |-> FdIn(prod', entry', fwd(head', k - 1))]
<1>1. used' = dist(head', tail')
  BY DEF used, dist
<1>2. used' \in AqSlots /\ (tail' + AqSize - head') % AqSize = used'
  BY <1>1, DistRange, HeldLen, Zenon
<1>3. \A k \in 1 .. used' : (head' + k - 1) % AqSize = fwd(head', k - 1)
  <2>1. \A k \in 1 .. used' : k \in 1 .. AqSize
    BY <1>2, AqAssumption DEF AqSlots
  <2> QED
    BY <2>1, HeldAt, Zenon
<1>4. held_fds' = [k \in 1 .. ((tail' + AqSize - head') % AqSize) |-> FdIn(prod', entry', (head' + k - 1) % AqSize)]
  BY DEF held_fds, fd_at, FdIn
<1>5. held_fds' = [k \in 1 .. used' |-> FdIn(prod', entry', (head' + k - 1) % AqSize)]
  BY <1>2, <1>4, Zenon
<1> QED
  BY <1>2, <1>3, <1>5, Zenon

\* The steps that move neither end of the ring.
LEMMA TakenSame ==
  ASSUME head' = head, tail' = tail
  PROVE  used' = used /\ \A i : Taken(i)' <=> Taken(i)
BY DEF Taken, used, dist

LEMMA HeldSame ==
  ASSUME AqTypes, head' = head, tail' = tail, \A i \in AqSlots : fd_at(i)' = fd_at(i)
  PROVE  held_fds' = held_fds
<1>1. head \in AqSlots /\ tail \in AqSlots /\ head' \in AqSlots /\ tail' \in AqSlots /\ used' = used
  BY TakenSame DEF AqTypes
<1>2. \A i \in AqSlots : FdIn(prod', entry', i) = FdIn(prod, entry, i)
  BY DEF fd_at, FdIn
<1>3. /\ used \in AqSlots
      /\ held_fds = [k \in 1 .. used |-> FdIn(prod, entry, fwd(head, k - 1))]
      /\ held_fds' = [k \in 1 .. used |-> FdIn(prod', entry', fwd(head, k - 1))]
  BY <1>1, HeldIs, HeldNext
<1>4. \A k \in 1 .. used : fwd(head, k - 1) \in AqSlots
  <2>1. \A k \in 1 .. used : k - 1 \in AqSlots
    BY <1>3, AqAssumption DEF AqSlots
  <2> QED
    BY <1>1, <2>1, FwdDist, Zenon
<1> QED
  BY <1>2, <1>3, <1>4, Zenon

\* The steps of a producer that has no slot yet.
LEMMA LookStep ==
  ASSUME AqInv, NEW p \in Producers, NEW r \in ProdRec, prod' = [prod EXCEPT ![p] = r],
         UNCHANGED <<entry, head, tail, cons, popped>>,
         ~Holding(p), r.pc \notin {"fill", "commit"}
  PROVE  /\ prod' \in [Producers -> ProdRec] /\ prod'[p] = r
         /\ \A q \in Producers \ {p} : prod'[q] = prod[q]
         /\ \A i : fd_at(i)' = fd_at(i)
         /\ \A i : Taken(i)' <=> Taken(i)
         /\ used' = used /\ held_fds' = held_fds
         /\ Claimed' /\ Cleared' /\ Consumer'
<1>1. /\ prod' \in [Producers -> ProdRec] /\ prod'[p] = r
      /\ \A q \in Producers \ {p} : prod'[q] = prod[q]
  BY DEF AqInv, AqTypes
<1>2. used' = used /\ \A i : Taken(i)' <=> Taken(i)
  BY TakenSame
<1>3. \A q \in Producers : /\ Holding(q)' <=> Holding(q)
                           /\ Holding(q) => prod'[q] = prod[q]
  BY <1>1 DEF Holding
<1>4. \A q \in Producers : \A i : Holds1(q, i)' <=> Holds1(q, i)
  BY <1>3, Zenon DEF Holds1
<1>5. Claimed'
  <2>1. \A i : \A q, s \in Producers : Holds1(q, i)' /\ Holds1(s, i)' => s = q
    BY <1>4, Zenon DEF AqInv, Claimed
  <2>2. ASSUME NEW q \in Producers, Holding(q)'
        PROVE  /\ Taken(prod[q].pos)' /\ ~entry'[prod[q].pos].set /\ prod'[q] = prod[q]
               /\ prod[q].pc = "commit" => entry'[prod[q].pos].fd = prod[q].fd
    BY <1>2, <1>3, <2>2, Zenon DEF AqInv, Claimed
  <2> QED
    BY <2>1, <2>2, Zenon DEF Claimed, Taken
<1>6. \A i : fd_at(i)' = fd_at(i)
  <2>1. \A i : /\ (\A q \in Producers : ~Holds1(q, i)) => fd_at(i) = entry[i].fd
               /\ \A q \in Producers : Holds1(q, i) => fd_at(i) = prod[q].fd
    BY FdAt DEF AqInv
  <2>2. \A i : \A q, s \in Producers : Holds1(q, i)' /\ Holds1(s, i)' => s = q
    BY <1>5, Zenon DEF Claimed
  <2>3. \A i : /\ (\A q \in Producers : ~Holds1(q, i)') => fd_at(i)' = entry'[i].fd
               /\ \A q \in Producers : Holds1(q, i)' => fd_at(i)' = prod'[q].fd
    BY <2>2, FdAtNext
  <2>4. entry' = entry
    OBVIOUS
  <2>5. \A q \in Producers : \A i : Holds1(q, i) => prod'[q] = prod[q]
    BY <1>3 DEF Holds1
  <2>6. ASSUME NEW i PROVE fd_at(i)' = fd_at(i)
    <3>1. CASE \E q \in Producers : Holds1(q, i)
      <4>1. PICK q \in Producers : Holds1(q, i)
        BY <3>1
      <4>2. fd_at(i) = prod[q].fd /\ fd_at(i)' = prod'[q].fd /\ prod'[q] = prod[q]
        BY <1>4, <2>1, <2>3, <2>5, <4>1, Zenon
      <4> QED
        BY <4>2, Zenon
    <3>2. CASE ~\E q \in Producers : Holds1(q, i)
      <4>1. fd_at(i) = entry[i].fd /\ fd_at(i)' = entry'[i].fd
        BY <1>4, <2>1, <2>3, <3>2, Zenon
      <4> QED
        BY <2>4, <4>1, Zenon
    <3> QED
      BY <3>1, <3>2
  <2> QED
    BY <2>6
<1>7. held_fds' = held_fds
  BY <1>6, HeldSame, Zenon DEF AqInv
<1>8. Cleared'
  BY <1>2, Zenon DEF AqInv, Cleared
<1>9. Consumer'
  BY <1>2, <1>4, Zenon DEF AqInv, Consumer
<1> QED
  BY <1>1, <1>2, <1>5, <1>6, <1>7, <1>8, <1>9

\* A connection that no one else has.
Free(p, x) ==
  /\ ~Got(x) /\ \A i \in AqSlots : Taken(i) => fd_at(i) # x
  /\ \A q \in Producers \ {p} : prod[q].pc # "idle" => prod[q].fd # x

LEMMA LookKeeps ==
  ASSUME AqInv, NEW p \in Producers, NEW r \in ProdRec, prod' = [prod EXCEPT ![p] = r],
         UNCHANGED <<entry, head, tail, cons, claims, popped>>,
         ~Holding(p), r.pc \notin {"fill", "commit"},
         pushed' \in 0 .. MaxFds, pushed <= pushed',
         TailSeenBy(p)', r.pc # "idle" => r.fd \in 1 .. pushed' /\ Free(p, r.fd)
  PROVE  AqInv' /\ held_fds' = held_fds
<1>1. /\ prod' \in [Producers -> ProdRec] /\ prod'[p] = r
      /\ \A q \in Producers \ {p} : prod'[q] = prod[q]
      /\ \A i : fd_at(i)' = fd_at(i)
      /\ \A i : Taken(i)' <=> Taken(i)
      /\ used' = used /\ held_fds' = held_fds
      /\ Claimed' /\ Cleared' /\ Consumer'
  BY LookStep, Zenon
<1>2. /\ entry' = entry /\ head' = head /\ tail' = tail /\ cons' = cons /\ claims' = claims
      /\ popped' = popped /\ AqSlots = AqSlots' /\ \A x : Got(x)' <=> Got(x)
  BY DEF Got, AqSlots
<1>3. AqTypes'
  BY <1>1, <1>2 DEF AqInv, AqTypes
<1>4. TailSeen'
  <2>1. ASSUME NEW q \in Producers, q # p PROVE TailSeenBy(q)'
    BY <1>1, <1>2, <2>1, Zenon DEF AqInv, TailSeen, TailSeenBy, Looks
  <2> QED
    BY <2>1, Zenon DEF TailSeen
<1>5. \A x \in 1 .. pushed : x \in 1 .. pushed'
  BY DEF AqInv, AqTypes
<1>6. FdsOfRing'
  BY <1>1, <1>2, <1>5, Zenon DEF AqInv, Fresh, FdsOfRing
<1>7. FdsOfPopped'
  BY <1>2, <1>5, Zenon DEF AqInv, Fresh, FdsOfPopped
<1>8. FdsOfProd'
  <2>1. ASSUME NEW q \in Producers, q # p, prod[q].pc # "idle"
        PROVE  /\ prod[q].fd \in 1 .. pushed'
               /\ \A s \in Producers : prod'[s].pc # "idle" /\ prod'[s].fd = prod[q].fd => s = q
               /\ Looks(q) => ~Got(prod[q].fd) /\ \A i \in AqSlots : Taken(i) => fd_at(i) # prod[q].fd
    <3>1. /\ prod[q].fd \in 1 .. pushed
          /\ \A s \in Producers : prod[s].pc # "idle" /\ prod[s].fd = prod[q].fd => s = q
          /\ Looks(q) => ~Got(prod[q].fd) /\ \A i \in AqSlots : Taken(i) => fd_at(i) # prod[q].fd
      BY <2>1, Zenon DEF AqInv, Fresh, FdsOfProd
    <3>2. r.pc # "idle" => r.fd # prod[q].fd
      BY <2>1, Zenon DEF Free
    <3>3. \A s \in Producers : prod'[s].pc # "idle" /\ prod'[s].fd = prod[q].fd => s = q
      BY <1>1, <3>1, <3>2, Zenon
    <3> QED
      BY <1>5, <3>1, <3>3, Zenon
  <2>2. ASSUME r.pc # "idle"
        PROVE  /\ r.fd \in 1 .. pushed'
               /\ \A s \in Producers : prod'[s].pc # "idle" /\ prod'[s].fd = r.fd => s = p
               /\ ~Got(r.fd) /\ \A i \in AqSlots : Taken(i) => fd_at(i) # r.fd
    BY <1>1, <2>2, Zenon DEF Free
  <2>3. ASSUME NEW q \in Producers, prod'[q].pc # "idle"
        PROVE  /\ prod'[q].fd \in 1 .. pushed'
               /\ \A s \in Producers : prod'[s].pc # "idle" /\ prod'[s].fd = prod'[q].fd => s = q
               /\ Looks(q)' => ~Got(prod'[q].fd) /\ \A i \in AqSlots : Taken(i) => fd_at(i) # prod'[q].fd
    <3>1. CASE q = p
      BY <1>1, <2>2, <2>3, <3>1, Zenon
    <3>2. CASE q # p
      <4>1. prod'[q] = prod[q] /\ (Looks(q)' <=> Looks(q))
        BY <1>1, <3>2, Zenon DEF Looks
      <4> QED
        BY <2>1, <2>3, <3>2, <4>1, Zenon
    <3> QED
      BY <3>1, <3>2
  <2> QED
    BY <1>1, <1>2, <2>3, Zenon DEF FdsOfProd
<1> QED
  BY <1>1, <1>3, <1>4, <1>6, <1>7, <1>8 DEF AqInv, Fresh

LEMMA PushStartKeeps ==
  ASSUME AqInv, NEW p \in Producers, PushStart(p)
  PROVE  AqInv' /\ held_fds' = held_fds
<1> DEFINE r == [pc |-> "test", fd |-> pushed + 1, pos |-> tail, since |-> claims]
<1>1. /\ r \in ProdRec /\ prod' = [prod EXCEPT ![p] = r] /\ prod'[p] = r
      /\ ~Holding(p) /\ r.pc \notin {"fill", "commit"}
      /\ UNCHANGED <<entry, head, tail, cons, claims, popped>>
      /\ pushed' = pushed + 1 /\ pushed' \in 0 .. MaxFds /\ pushed <= pushed' /\ r.fd \in 1 .. pushed'
  BY AqAssumption DEF AqInv, AqTypes, PushStart, ProdRec, Holding
<1>2. TailSeenBy(p)'
  <2>1. tail \in AqSlots /\ claims \in Nat /\ claims - claims = 0 /\ claims <= claims /\ 0 < AqSize
    BY AqAssumption DEF AqInv, AqTypes
  <2>2. tail = fwd(tail, claims - claims)
    BY <2>1, FwdDist, Zenon
  <2> QED
    BY <1>1, <2>1, <2>2 DEF TailSeenBy, Looks
<1>3. Free(p, pushed + 1)
  <2>1. \A x \in 1 .. pushed : x # pushed + 1
    BY DEF AqInv, AqTypes
  <2> QED
    BY <2>1, Zenon DEF AqInv, Fresh, FdsOfProd, FdsOfRing, FdsOfPopped, Free, Got
<1>4. r.fd = pushed + 1
  OBVIOUS
<1> HIDE DEF r
<1> QED
  BY <1>1, <1>2, <1>3, <1>4, LookKeeps, Zenon

LEMMA LooksFree ==
  ASSUME AqInv, NEW p \in Producers, Looks(p)
  PROVE  prod[p].fd \in 1 .. pushed /\ Free(p, prod[p].fd)
<1>1. prod[p].pc # "idle"
  BY DEF Looks
<1> QED
  BY <1>1, Zenon DEF AqInv, Fresh, FdsOfProd, Free

LEMMA PushTestKeeps ==
  ASSUME AqInv, NEW p \in Producers, PushTest(p)
  PROVE  AqInv' /\ held_fds' = held_fds
<1>1. /\ prod[p].pc = "test" /\ Looks(p) /\ ~Holding(p) /\ prod[p] \in ProdRec
      /\ UNCHANGED <<entry, head, tail, cons, claims, popped>>
      /\ pushed' = pushed /\ pushed' \in 0 .. MaxFds /\ pushed <= pushed'
      /\ head \in AqSlots /\ tail \in AqSlots /\ prod \in [Producers -> ProdRec]
  BY AqAssumption DEF AqInv, AqTypes, PushTest, Looks, Holding
<1>2. prod[p].fd \in 1 .. pushed' /\ Free(p, prod[p].fd)
  BY <1>1, LooksFree
<1>3. CASE succ(prod[p].pos) = head
  <2> DEFINE r == [pc |-> "idle", fd |-> 0, pos |-> 0, since |-> 0]
  <2>1. r \in ProdRec /\ prod' = [prod EXCEPT ![p] = r] /\ prod'[p] = r /\ r.pc = "idle"
    BY <1>1, <1>3, AqAssumption DEF PushTest, ProdRec, AqSlots
  <2>2. TailSeenBy(p)'
    BY <2>1 DEF TailSeenBy, Looks
  <2> HIDE DEF r
  <2> QED
    BY <1>1, <2>1, <2>2, LookKeeps, Zenon
<1>4. CASE succ(prod[p].pos) # head
  <2> DEFINE r == [prod[p] EXCEPT !.pc = "cas"]
  <2>1. /\ r \in ProdRec /\ prod' = [prod EXCEPT ![p] = r] /\ prod'[p] = r
        /\ r.pc = "cas" /\ r.fd = prod[p].fd /\ r.pos = prod[p].pos /\ r.since = prod[p].since
    BY <1>1, <1>4 DEF PushTest, ProdRec
  <2>2. TailSeenBy(p)
    BY DEF AqInv, TailSeen
  <2>3. prod[p].since = claims => used < AqSize - 1
    <3>1. HAVE prod[p].since = claims
    <3>2. claims - claims = 0
      BY DEF AqInv, AqTypes
    <3>3. prod[p].pos \in AqSlots /\ tail = fwd(prod[p].pos, 0)
      BY <1>1, <2>2, <3>1, <3>2 DEF TailSeenBy, ProdRec
    <3>4. succ(tail) # head
      BY <1>4, <3>3, FwdDist, Zenon
    <3>5. used \in AqSlots /\ used # AqSize - 1
      BY <1>1, <3>4, DistRange, DistSucc, Zenon DEF used
    <3> QED
      BY <3>5, AqAssumption DEF AqSlots
  <2>4. used' = used /\ claims' = claims /\ tail' = tail
    BY <1>1, TakenSame
  <2>5. TailSeenBy(p)'
    BY <1>1, <2>1, <2>2, <2>3, <2>4, Zenon DEF TailSeenBy, Looks
  <2> HIDE DEF r
  <2> QED
    BY <1>1, <1>2, <2>1, <2>5, LookKeeps, Zenon
<1> QED
  BY <1>3, <1>4

LEMMA PushRetryKeeps ==
  ASSUME AqInv, NEW p \in Producers, PushCas(p), tail # prod[p].pos
  PROVE  AqInv' /\ held_fds' = held_fds
<1> DEFINE r == [prod[p] EXCEPT !.pc = "test", !.pos = tail, !.since = claims]
<1>1. /\ prod[p].pc = "cas" /\ Looks(p) /\ ~Holding(p) /\ prod[p] \in ProdRec
      /\ UNCHANGED <<entry, head, tail, cons, claims, popped>>
      /\ pushed' = pushed /\ pushed' \in 0 .. MaxFds /\ pushed <= pushed'
      /\ tail \in AqSlots /\ claims \in Nat /\ prod \in [Producers -> ProdRec]
  BY AqAssumption DEF AqInv, AqTypes, PushCas, Looks, Holding
<1>2. prod[p].fd \in 1 .. pushed' /\ Free(p, prod[p].fd)
  BY <1>1, LooksFree
<1>3. prod' = [prod EXCEPT ![p].pc = "test", ![p].pos = tail, ![p].since = claims]
  BY DEF PushCas
<1>4. /\ r \in ProdRec /\ prod' = [prod EXCEPT ![p] = r] /\ prod'[p] = r
      /\ r.pc = "test" /\ r.fd = prod[p].fd /\ r.pos = tail /\ r.since = claims
  BY <1>1, <1>3 DEF ProdRec
<1>5. TailSeenBy(p)'
  <2>1. claims - claims = 0 /\ claims <= claims /\ 0 < AqSize /\ claims' = claims /\ tail' = tail
    BY <1>1, AqAssumption
  <2>2. tail = fwd(tail, claims - claims)
    BY <1>1, <2>1, FwdDist, Zenon
  <2> QED
    BY <1>4, <2>1, <2>2, Zenon DEF TailSeenBy, Looks
<1> HIDE DEF r
<1> QED
  BY <1>1, <1>2, <1>4, <1>5, LookKeeps, Zenon

\* The compare-and-swap that succeeds: the tail has not moved since it was read.
LEMMA ClaimSeen ==
  ASSUME AqInv, ~MayLap, NEW p \in Producers, PushCas(p), tail = prod[p].pos
  PROVE  /\ used < AqSize - 1 /\ no_lap(p) /\ tail' = succ(tail) /\ claims' = claims + 1
         /\ prod' \in [Producers -> ProdRec] /\ Looks(p) /\ prod'[p].pc = "fill"
         /\ prod'[p].pos = tail /\ prod'[p].fd = prod[p].fd
         /\ \A q \in Producers \ {p} : prod'[q] = prod[q]
         /\ UNCHANGED <<entry, head, cons, pushed, popped>>
<1>1. /\ prod[p].pc = "cas" /\ Looks(p) /\ tail' = succ(tail) /\ claims' = claims + 1 /\ no_lap(p)
      /\ prod' = [prod EXCEPT ![p].pc = "fill"] /\ UNCHANGED <<entry, head, cons, pushed, popped>>
  BY DEF PushCas, Looks
<1>2. prod \in [Producers -> ProdRec] /\ claims \in Nat /\ tail \in AqSlots
  BY DEF AqInv, AqTypes
<1>3. /\ prod[p].since <= claims /\ claims - prod[p].since < AqSize /\ prod[p].since \in Nat
      /\ tail = fwd(tail, claims - prod[p].since)
      /\ prod[p].since = claims => used < AqSize - 1
  BY <1>1, <1>2, Zenon DEF AqInv, TailSeen, TailSeenBy, ProdRec
<1>4. claims - prod[p].since \in AqSlots
  BY <1>2, <1>3, AqAssumption DEF AqSlots
<1>5. claims - prod[p].since = 0
  BY <1>2, <1>3, <1>4, FwdDist, Zenon
<1>6. used < AqSize - 1
  BY <1>2, <1>3, <1>5
<1> QED
  BY <1>1, <1>2, <1>6 DEF ProdRec

LEMMA ClaimRing ==
  ASSUME AqInv, ~MayLap, NEW p \in Producers, PushCas(p), tail = prod[p].pos
  PROVE  /\ used' = used + 1 /\ ~Taken(tail) /\ \A i : Taken(i)' <=> Taken(i) \/ i = tail
         /\ \A q \in Producers : \A i : Holds1(q, i)' <=> Holds1(q, i) \/ (q = p /\ i = tail)
         /\ \A q \in Producers : ~Holds1(q, tail)
         /\ \A i : i # tail => fd_at(i)' = fd_at(i)
         /\ \A i : i = tail => fd_at(i)' = prod[p].fd
         /\ Claimed'
<1>1. /\ used < AqSize - 1 /\ tail' = succ(tail) /\ Looks(p) /\ prod'[p].pc = "fill"
      /\ prod'[p].pos = tail /\ prod'[p].fd = prod[p].fd
      /\ \A q \in Producers \ {p} : prod'[q] = prod[q]
      /\ entry' = entry /\ head' = head
  BY ClaimSeen
<1>2. used' = used + 1 /\ ~Taken(tail) /\ \A i : Taken(i)' <=> Taken(i) \/ i = tail
  BY <1>1, TakenClaim DEF AqInv
<1>3. \A q \in Producers : \A i : Holds1(q, i)' <=> Holds1(q, i) \/ (q = p /\ i = tail)
  <2>1. ~Holding(p) /\ Holding(p)'
    BY <1>1 DEF Looks, Holding
  <2>2. ASSUME NEW q \in Producers, q # p PROVE \A i : Holds1(q, i)' <=> Holds1(q, i)
    BY <1>1, <2>2, Zenon DEF Holds1, Holding
  <2>3. \A i : Holds1(p, i)' <=> i = tail
    BY <1>1, <2>1, Zenon DEF Holds1
  <2>4. \A i : ~Holds1(p, i)
    BY <2>1, Zenon DEF Holds1
  <2> QED
    BY <2>2, <2>3, <2>4, Zenon
<1>4. \A q \in Producers : ~Holds1(q, tail)
  BY <1>2, Zenon DEF AqInv, Claimed, Holds1
<1>5. \A i : \A q, s \in Producers : Holds1(q, i)' /\ Holds1(s, i)' => s = q
  <2>1. \A i : \A q, s \in Producers : Holds1(q, i) /\ Holds1(s, i) => s = q
    BY Zenon DEF AqInv, Claimed
  <2>2. ASSUME NEW i, NEW q \in Producers, NEW s \in Producers, Holds1(q, i)', Holds1(s, i)'
        PROVE  s = q
    <3>1. CASE i = tail
      <4>1. ~Holds1(q, i) /\ ~Holds1(s, i)
        BY <1>4, <3>1
      <4> QED
        BY <1>3, <2>2, <4>1, Zenon
    <3>2. CASE i # tail
      BY <1>3, <2>1, <2>2, <3>2, Zenon
    <3> QED
      BY <3>1, <3>2
  <2> QED
    BY <2>2
<1>6. /\ \A i : /\ (\A q \in Producers : ~Holds1(q, i)) => fd_at(i) = entry[i].fd
                /\ \A q \in Producers : Holds1(q, i) => fd_at(i) = prod[q].fd
      /\ \A i : /\ (\A q \in Producers : ~Holds1(q, i)') => fd_at(i)' = entry'[i].fd
                /\ \A q \in Producers : Holds1(q, i)' => fd_at(i)' = prod'[q].fd
  <2>1. \A i : /\ (\A q \in Producers : ~Holds1(q, i)) => fd_at(i) = entry[i].fd
               /\ \A q \in Producers : Holds1(q, i) => fd_at(i) = prod[q].fd
    BY FdAt DEF AqInv
  <2>2. \A i : /\ (\A q \in Producers : ~Holds1(q, i)') => fd_at(i)' = entry'[i].fd
               /\ \A q \in Producers : Holds1(q, i)' => fd_at(i)' = prod'[q].fd
    BY <1>5, FdAtNext
  <2> QED
    BY <2>1, <2>2
<1>7. \A i : i = tail => fd_at(i)' = prod[p].fd
  <2>1. \A i : \A q \in Producers : Holds1(q, i)' => fd_at(i)' = prod'[q].fd
    BY <1>6, Zenon
  <2> QED
    BY <1>1, <1>3, <2>1, Zenon
<1>8. ASSUME NEW i, i # tail PROVE fd_at(i)' = fd_at(i)
  <2>1. \A q \in Producers : Holds1(q, i)' <=> Holds1(q, i)
    BY <1>3, <1>8, Zenon
  <2>2. CASE \E q \in Producers : Holds1(q, i)
    <3>1. PICK q \in Producers : Holds1(q, i)
      BY <2>2
    <3>2. q # p
      BY <1>1, <3>1 DEF Looks, Holds1, Holding
    <3>3. fd_at(i) = prod[q].fd /\ fd_at(i)' = prod'[q].fd /\ prod'[q] = prod[q]
      BY <1>1, <1>6, <2>1, <3>1, <3>2, Zenon
    <3> QED
      BY <3>3, Zenon
  <2>3. CASE ~\E q \in Producers : Holds1(q, i)
    <3>1. fd_at(i) = entry[i].fd /\ fd_at(i)' = entry'[i].fd
      BY <1>6, <2>1, <2>3, Zenon
    <3> QED
      BY <1>1, <3>1, Zenon
  <2> QED
    BY <2>2, <2>3
<1>9. Claimed'
  <2>1. ASSUME NEW q \in Producers, Holding(q)'
        PROVE  /\ \A i : i = prod'[q].pos => Taken(i)'
               /\ ~entry[prod'[q].pos].set
               /\ prod'[q].pc = "commit" => entry[prod'[q].pos].fd = prod'[q].fd
    <3>1. CASE q = p
      <4>1. tail \in AqSlots /\ ~entry[tail].set
        BY <1>2 DEF AqInv, AqTypes, Cleared
      <4> QED
        BY <1>1, <1>2, <3>1, <4>1
    <3>2. CASE q # p
      <4>1. prod'[q] = prod[q] /\ Holding(q)
        BY <1>1, <2>1, <3>2 DEF Holding
      <4> QED
        BY <1>2, <4>1, Zenon DEF AqInv, Claimed
    <3> QED
      BY <3>1, <3>2
  <2>2. \A q \in Producers : Holding(q)' => Taken(prod[q].pos)'
    BY <2>1, Zenon DEF Taken
  <2> QED
    BY <1>1, <1>5, <2>1, <2>2, Zenon DEF Claimed
<1> QED
  BY <1>2, <1>3, <1>4, <1>7, <1>8, <1>9

LEMMA PushClaimKeeps ==
  ASSUME AqInv, ~MayLap, NEW p \in Producers, PushCas(p), tail = prod[p].pos
  PROVE  AqInv'
<1>1. /\ used < AqSize - 1 /\ no_lap(p) /\ tail' = succ(tail) /\ claims' = claims + 1
      /\ prod' \in [Producers -> ProdRec] /\ Looks(p) /\ prod'[p].pc = "fill"
      /\ prod'[p].pos = tail /\ prod'[p].fd = prod[p].fd
      /\ \A q \in Producers \ {p} : prod'[q] = prod[q]
      /\ entry' = entry /\ head' = head /\ cons' = cons /\ pushed' = pushed /\ popped' = popped
  BY ClaimSeen
<1>2. /\ used' = used + 1 /\ ~Taken(tail) /\ \A i : Taken(i)' <=> Taken(i) \/ i = tail
      /\ \A q \in Producers : \A i : Holds1(q, i)' <=> Holds1(q, i) \/ (q = p /\ i = tail)
      /\ \A i : i # tail => fd_at(i)' = fd_at(i)
      /\ \A i : i = tail => fd_at(i)' = prod[p].fd
      /\ Claimed'
  BY ClaimRing
<1>3. AqTypes'
  <2>1. tail' \in AqSlots
    BY <1>1, TakenClaim DEF AqInv
  <2> QED
    BY <1>1, <2>1 DEF AqInv, AqTypes
<1>4. TailSeen'
  <2>1. ASSUME NEW q \in Producers, Looks(q)', q # p
        PROVE  /\ prod[q].since <= claims + 1 /\ (claims + 1) - prod[q].since < AqSize
               /\ succ(tail) = fwd(prod[q].pos, (claims + 1) - prod[q].since)
               /\ prod[q].since # claims + 1
    <3>1. prod'[q] = prod[q] /\ Looks(q)
      BY <1>1, <2>1, Zenon DEF Looks
    <3>2. /\ prod[q].since <= claims /\ tail = fwd(prod[q].pos, claims - prod[q].since)
          /\ claims - prod[q].since < AqSize - 1
      BY <1>1, <2>1, <3>1, Zenon DEF AqInv, TailSeen, TailSeenBy, no_lap, Looks
    <3>3. claims \in Nat /\ prod[q].since \in Nat /\ prod[q].pos \in AqSlots
      BY DEF AqInv, AqTypes, ProdRec
    <3>4. /\ claims - prod[q].since \in AqSlots /\ (claims - prod[q].since) + 1 < AqSize
          /\ (claims - prod[q].since) + 1 = (claims + 1) - prod[q].since
          /\ prod[q].since <= claims + 1 /\ prod[q].since # claims + 1
      BY <3>2, <3>3, AqAssumption DEF AqSlots
    <3>5. succ(tail) = fwd(prod[q].pos, (claims - prod[q].since) + 1)
      <4>1. PICK d \in AqSlots : d = claims - prod[q].since /\ d + 1 < AqSize
        BY <3>4
      <4>2. succ(fwd(prod[q].pos, d)) = fwd(prod[q].pos, d + 1)
        BY <3>3, <4>1, AqAssumption DEF AqSlots, fwd, succ
      <4> QED
        BY <3>2, <4>1, <4>2, Zenon
    <3> QED
      BY <3>4, <3>5, Zenon
  <2>2. ~Looks(p)'
    BY <1>1 DEF Looks
  <2>3. ASSUME NEW q \in Producers PROVE TailSeenBy(q)'
    <3>1. CASE q = p
      BY <2>2, <3>1 DEF TailSeenBy, Looks
    <3>2. CASE q # p
      <4>1. prod'[q] = prod[q]
        BY <1>1, <3>2
      <4> QED
        BY <1>1, <2>1, <3>2, <4>1, Zenon DEF TailSeenBy
    <3> QED
      BY <3>1, <3>2
  <2> QED
    BY <2>3 DEF TailSeen
<1>5. Cleared'
  BY <1>1, <1>2, Zenon DEF AqInv, Cleared, AqSlots
<1>6. Consumer'
  <2>1. cons.pc # "idle" => Taken(head) /\ head # tail
    BY <1>2 DEF AqInv, Consumer
  <2>2. cons'.pc # "idle" => Taken(head)'
    <3>1. \A i : i = head' /\ Taken(i)' => Taken(head)'
      BY Zenon DEF Taken
    <3> QED
      BY <1>1, <1>2, <2>1, <3>1, Zenon
  <2>3. \A q \in Producers : cons.pc # "idle" /\ ~Holds1(q, head) => ~Holds1(q, head)'
    <3>1. \A q \in Producers : \A i : i = head' /\ Holds1(q, head)' => Holds1(q, i)'
      BY Zenon DEF Holds1
    <3> QED
      BY <1>1, <1>2, <2>1, <3>1, Zenon
  <2>4. cons.pc = "advance" => cons.pc # "idle"
    OBVIOUS
  <2> QED
    BY <1>1, <2>2, <2>3, <2>4, Zenon DEF AqInv, Consumer
<1>7. prod[p].fd \in 1 .. pushed /\ Free(p, prod[p].fd)
  BY <1>1, LooksFree
<1>8. \A x : Got(x)' <=> Got(x)
  BY <1>1 DEF Got
<1>9. FdsOfRing'
  <2>1. ASSUME NEW i \in AqSlots, Taken(i)'
        PROVE  /\ fd_at(i)' \in 1 .. pushed /\ ~Got(fd_at(i))'
               /\ \A j \in AqSlots : Taken(j)' /\ fd_at(j)' = fd_at(i)' => j = i
    <3>1. \A x : x = fd_at(i)' /\ ~Got(x)' => ~Got(fd_at(i))'
      BY Zenon DEF Got
    <3>2. CASE i = tail
      <4>1. fd_at(i)' = prod[p].fd /\ ~Got(prod[p].fd) /\ \A j \in AqSlots : Taken(j) => fd_at(j) # prod[p].fd
        BY <1>2, <1>7, <3>2, Zenon DEF Free
      <4>2. \A j \in AqSlots : Taken(j)' /\ fd_at(j)' = fd_at(i)' => j = i
        BY <1>2, <3>2, <4>1, Zenon
      <4> QED
        BY <1>7, <1>8, <3>1, <4>1, <4>2, Zenon
    <3>3. CASE i # tail
      <4>1. fd_at(i)' = fd_at(i) /\ Taken(i)
        BY <1>2, <2>1, <3>3, Zenon
      <4>2. /\ fd_at(i) \in 1 .. pushed /\ ~Got(fd_at(i))
            /\ \A j \in AqSlots : Taken(j) /\ fd_at(j) = fd_at(i) => j = i
        BY <4>1, Zenon DEF AqInv, Fresh, FdsOfRing
      <4>3. prod[p].fd # fd_at(i)
        BY <1>7, <4>1, Zenon DEF Free
      <4>4. ASSUME NEW j \in AqSlots, Taken(j)', fd_at(j)' = fd_at(i)' PROVE j = i
        <5>1. j # tail
          BY <1>2, <4>1, <4>3, <4>4, Zenon
        <5> QED
          BY <1>2, <4>1, <4>2, <4>4, <5>1, Zenon
      <4> QED
        BY <1>8, <3>1, <4>1, <4>2, <4>4, Zenon
    <3> QED
      BY <3>2, <3>3
  <2> QED
    BY <1>1, <2>1, Zenon DEF FdsOfRing, AqSlots
<1>10. FdsOfPopped'
  BY <1>1 DEF AqInv, Fresh, FdsOfPopped
<1>11. FdsOfProd'
  <2>1. \A q \in Producers : /\ prod'[q].fd = prod[q].fd /\ (prod'[q].pc # "idle" <=> prod[q].pc # "idle")
                             /\ Looks(q)' => Looks(q) /\ q # p
    BY <1>1 DEF Looks
  <2>2. ASSUME NEW q \in Producers, Looks(q)', NEW i \in AqSlots, Taken(i)' PROVE fd_at(i)' # prod[q].fd
    <3>1. Looks(q) /\ q # p /\ prod[q].pc # "idle" /\ prod[p].pc # "idle"
      BY <1>1, <2>1, <2>2 DEF Looks
    <3>2. prod[q].fd # prod[p].fd /\ (Taken(i) => fd_at(i) # prod[q].fd)
      BY <1>7, <3>1, Zenon DEF AqInv, Fresh, FdsOfProd, Free
    <3> QED
      BY <1>2, <2>2, <3>2, Zenon
  <2>3. \A q \in Producers : \A x : x = prod'[q].fd /\ ~Got(x)' => ~Got(prod[q].fd)'
    BY Zenon DEF Got
  <2>4. \A q \in Producers : Looks(q)' => ~Got(prod[q].fd)'
    <3>1. \A q \in Producers : Looks(q) => ~Got(prod[q].fd)
      BY LooksFree DEF Free
    <3> QED
      BY <1>8, <2>1, <2>3, <3>1, Zenon
  <2>5. \A q \in Producers : prod[q].pc # "idle" =>
           /\ prod[q].fd \in 1 .. pushed
           /\ \A s \in Producers : prod[s].pc # "idle" /\ prod[s].fd = prod[q].fd => s = q
    BY Zenon DEF AqInv, Fresh, FdsOfProd
  <2>6. ASSUME NEW q \in Producers, prod'[q].pc # "idle"
        PROVE  /\ prod'[q].fd \in 1 .. pushed'
               /\ \A s \in Producers : prod'[s].pc # "idle" /\ prod'[s].fd = prod'[q].fd => s = q
    BY <1>1, <2>1, <2>5, <2>6, ZenonT(30)
  <2>7. ASSUME NEW q \in Producers, Looks(q)'
        PROVE  ~Got(prod[q].fd)' /\ \A i \in AqSlots : Taken(i)' => fd_at(i)' # prod'[q].fd
    BY <2>1, <2>2, <2>4, <2>7, Zenon
  <2> QED
    BY <2>6, <2>7, Zenon DEF FdsOfProd, AqSlots
<1> QED
  BY <1>2, <1>3, <1>4, <1>5, <1>6, <1>9, <1>10, <1>11, Zenon DEF AqInv, Fresh

LEMMA PushClaimPuts ==
  ASSUME AqInv, ~MayLap, NEW p \in Producers, PushCas(p), tail = prod[p].pos
  PROVE  Len(held_fds) < AqSize - 1 /\ held_fds' = Append(held_fds, prod[p].fd) /\ prod[p].fd \in 1 .. MaxFds
<1>1. used < AqSize - 1 /\ tail' = succ(tail) /\ head' = head /\ Looks(p)
  BY ClaimSeen
<1>2. /\ used' = used + 1
      /\ \A i : i # tail => fd_at(i)' = fd_at(i)
      /\ \A i : i = tail => fd_at(i)' = prod[p].fd
  BY ClaimRing
<1>3. head \in AqSlots /\ tail \in AqSlots /\ tail' \in AqSlots /\ used = dist(head, tail)
  BY <1>1, TakenClaim DEF AqInv, AqTypes, used
<1>4. used \in AqSlots /\ held_fds = [k \in 1 .. used |-> FdIn(prod, entry, fwd(head, k - 1))]
  BY HeldIs DEF AqInv
<1>5. held_fds' = [k \in 1 .. used + 1 |-> FdIn(prod', entry', fwd(head, k - 1))]
  BY <1>1, <1>2, <1>3, HeldNext
<1>6. /\ \A i : i # tail => FdIn(prod', entry', i) = FdIn(prod, entry, i)
      /\ FdIn(prod', entry', tail) = prod[p].fd
  <2>1. \A i : fd_at(i)' = FdIn(prod', entry', i) /\ fd_at(i) = FdIn(prod, entry, i)
    BY DEF fd_at, FdIn
  <2> QED
    BY <1>2, <2>1, Zenon
<1>7. used \in Nat /\ (used + 1) - 1 = used /\ fwd(head, used) = tail
  <2>1. used \in Nat /\ (used + 1) - 1 = used
    BY <1>4, AqAssumption DEF AqSlots
  <2> QED
    BY <1>3, <2>1, DistRange, Zenon
<1>8. ASSUME NEW k \in 1 .. used PROVE fwd(head, k - 1) # tail
  <2>1. k - 1 \in AqSlots /\ k - 1 # used
    BY <1>4, <1>7, <1>8, AqAssumption DEF AqSlots
  <2>2. dist(head, fwd(head, k - 1)) = k - 1
    BY <1>3, <2>1, FwdDist
  <2> QED
    BY <1>3, <2>1, <2>2, Zenon
<1>9. \A k \in 1 .. used : FdIn(prod', entry', fwd(head, k - 1)) = FdIn(prod, entry, fwd(head, k - 1))
  BY <1>6, <1>8, Zenon
<1>10. FdIn(prod', entry', fwd(head, (used + 1) - 1)) = prod[p].fd
  BY <1>6, <1>7, Zenon
<1>11. Len(held_fds) = used
  BY <1>4, <1>7
<1>12. held_fds' = Append(held_fds, prod[p].fd)
  <2>1. Append(held_fds, prod[p].fd)
        = [k \in 1 .. used + 1 |-> IF k = used + 1 THEN prod[p].fd ELSE FdIn(prod, entry, fwd(head, k - 1))]
    BY <1>4, <1>7, <1>11 DEF Append
  <2>2. \A k \in 1 .. used + 1 : k = used + 1 \/ k \in 1 .. used
    BY <1>7
  <2>3. \A k \in 1 .. used + 1 :
          FdIn(prod', entry', fwd(head, k - 1))
          = (IF k = used + 1 THEN prod[p].fd ELSE FdIn(prod, entry, fwd(head, k - 1)))
    BY <1>9, <1>10, <2>2, Zenon
  <2> QED
    BY <1>5, <2>1, <2>3, Zenon
<1>13. prod[p].fd \in 1 .. MaxFds
  <2>1. prod[p].fd \in 1 .. pushed /\ pushed \in 0 .. MaxFds
    BY <1>1, LooksFree DEF AqInv, AqTypes
  <2> QED
    BY <2>1, AqAssumption
<1> QED
  BY <1>1, <1>11, <1>12, <1>13

\* The steps that neither take a slot nor free one.
LEMMA FreshSame ==
  ASSUME AqInv, head' = head, tail' = tail, pushed' = pushed, popped' = popped,
         \A i \in AqSlots : fd_at(i)' = fd_at(i),
         \A q \in Producers : prod'[q].pc # "idle" =>
           prod[q].pc # "idle" /\ prod'[q].fd = prod[q].fd /\ (Looks(q)' => Looks(q))
  PROVE  Fresh'
<1>1. \A i : Taken(i)' <=> Taken(i)
  BY TakenSame
<1>2. \A x : Got(x)' <=> Got(x)
  BY DEF Got
<1>3. /\ \A i : \A x : x = fd_at(i)' => (Got(x)' <=> Got(fd_at(i))')
      /\ \A q \in Producers : \A x : x = prod'[q].fd => (Got(x)' <=> Got(prod[q].fd)')
  BY Zenon DEF Got
<1>4. FdsOfRing'
  <2>1. \A i \in AqSlots : Got(fd_at(i))' <=> Got(fd_at(i))
    BY <1>2, <1>3, Zenon
  <2> QED
    BY <1>1, <2>1, Zenon DEF AqInv, Fresh, FdsOfRing, AqSlots
<1>5. FdsOfPopped'
  BY Zenon DEF AqInv, Fresh, FdsOfPopped
<1>6. FdsOfProd'
  <2>1. ASSUME NEW q \in Producers, prod'[q].pc # "idle"
        PROVE  /\ prod'[q].fd \in 1 .. pushed
               /\ \A s \in Producers : prod'[s].pc # "idle" /\ prod'[s].fd = prod'[q].fd => s = q
               /\ Looks(q)' => ~Got(prod[q].fd)' /\ \A i \in AqSlots : Taken(i)' => fd_at(i)' # prod'[q].fd
    <3>1. prod[q].pc # "idle" /\ prod'[q].fd = prod[q].fd /\ (Looks(q)' => Looks(q))
      BY <2>1
    <3>2. /\ prod[q].fd \in 1 .. pushed
          /\ \A s \in Producers : prod[s].pc # "idle" /\ prod[s].fd = prod[q].fd => s = q
          /\ Looks(q) => ~Got(prod[q].fd) /\ \A i \in AqSlots : Taken(i) => fd_at(i) # prod[q].fd
      BY <3>1, Zenon DEF AqInv, Fresh, FdsOfProd
    <3>3. Got(prod[q].fd)' => Got(prod[q].fd)
      BY <1>2, <1>3, <3>1, Zenon
    <3>4. \A s \in Producers : prod'[s].pc # "idle" /\ prod'[s].fd = prod'[q].fd => s = q
      BY <3>1, <3>2, Zenon
    <3>5. \A i \in AqSlots : Taken(i)' /\ Looks(q)' => fd_at(i)' # prod'[q].fd
      BY <1>1, <3>1, <3>2, Zenon
    <3> QED
      BY <3>1, <3>2, <3>3, <3>4, <3>5, Zenon
  <2> QED
    BY <2>1, Zenon DEF FdsOfProd, AqSlots
<1> QED
  BY <1>4, <1>5, <1>6 DEF Fresh

\* The producer writes the slot it claimed, then commits it.
LEMMA PushFillKeeps ==
  ASSUME AqInv, NEW p \in Producers, PushFill(p)
  PROVE  AqInv' /\ held_fds' = held_fds
<1>1. /\ prod[p].pc = "fill" /\ Holding(p) /\ prod' \in [Producers -> ProdRec]
      /\ prod'[p].pc = "commit" /\ prod'[p].fd = prod[p].fd /\ prod'[p].pos = prod[p].pos
      /\ prod[p].pos \in AqSlots
      /\ \A q \in Producers \ {p} : prod'[q] = prod[q]
      /\ entry' \in [AqSlots -> [set : BOOLEAN, fd : 0 .. MaxFds]]
      /\ entry'[prod[p].pos].fd = prod[p].fd
      /\ \A i \in AqSlots \ {prod[p].pos} : entry'[i] = entry[i]
  <2>1. /\ prod[p].pc = "fill" /\ Holding(p) /\ prod[p].pos \in AqSlots /\ prod[p].fd \in 0 .. MaxFds
        /\ prod \in [Producers -> ProdRec] /\ entry \in [AqSlots -> [set : BOOLEAN, fd : 0 .. MaxFds]]
        /\ entry' = [entry EXCEPT ![prod[p].pos].fd = prod[p].fd]
        /\ prod' = [prod EXCEPT ![p].pc = "commit"]
    BY DEF AqInv, AqTypes, PushFill, Holding, ProdRec
  <2>2. /\ prod' \in [Producers -> ProdRec] /\ prod'[p].pc = "commit"
        /\ prod'[p].fd = prod[p].fd /\ prod'[p].pos = prod[p].pos
        /\ \A q \in Producers \ {p} : prod'[q] = prod[q]
    BY <2>1 DEF ProdRec
  <2>3. /\ entry' \in [AqSlots -> [set : BOOLEAN, fd : 0 .. MaxFds]]
        /\ entry'[prod[p].pos].fd = prod[p].fd
        /\ \A i \in AqSlots \ {prod[p].pos} : entry'[i] = entry[i]
    BY <2>1
  <2> QED
    BY <2>1, <2>2, <2>3, Zenon
<1>2. \A i \in AqSlots : entry'[i].set <=> entry[i].set
  BY DEF AqInv, AqTypes, PushFill
<1>3. head' = head /\ tail' = tail /\ cons' = cons /\ pushed' = pushed /\ claims' = claims /\ popped' = popped
  BY DEF PushFill
<1>4. used' = used /\ \A i : Taken(i)' <=> Taken(i)
  BY <1>3, TakenSame
<1>5. \A q \in Producers : /\ prod'[q].fd = prod[q].fd /\ prod'[q].pos = prod[q].pos
                           /\ (Holding(q)' <=> Holding(q)) /\ (Looks(q)' <=> Looks(q))
                           /\ (prod'[q].pc # "idle" <=> prod[q].pc # "idle")
                           /\ Looks(q) => prod'[q] = prod[q]
  BY <1>1 DEF Holding, Looks
<1>6. \A q \in Producers : \A i : Holds1(q, i)' <=> Holds1(q, i)
  BY <1>5, Zenon DEF Holds1
<1>7. Holds1(p, prod[p].pos) /\ \A i : \A q, s \in Producers : Holds1(q, i) /\ Holds1(s, i) => s = q
  BY <1>1, Zenon DEF AqInv, Claimed, Holds1
<1>8. \A i : \A q, s \in Producers : Holds1(q, i)' /\ Holds1(s, i)' => s = q
  BY <1>6, <1>7, Zenon
<1>9. Claimed'
  <2>1. ASSUME NEW q \in Producers, Holding(q)
        PROVE  /\ Taken(prod[q].pos) /\ ~entry'[prod[q].pos].set
               /\ prod'[q].pc = "commit" => entry'[prod[q].pos].fd = prod[q].fd
    <3>1. Taken(prod[q].pos) /\ ~entry[prod[q].pos].set
          /\ (prod[q].pc = "commit" => entry[prod[q].pos].fd = prod[q].fd) /\ prod[q].pos \in AqSlots
      BY <2>1, Zenon DEF AqInv, Claimed, Taken
    <3>2. CASE q = p
      BY <1>1, <1>2, <3>1, <3>2, Zenon
    <3>3. CASE q # p
      <4>1. prod[q].pos # prod[p].pos
        BY <1>7, <2>1, <3>3, Zenon DEF Holds1
      <4> QED
        BY <1>1, <1>2, <3>1, <3>3, <4>1, Zenon
    <3> QED
      BY <3>2, <3>3
  <2>2. \A q \in Producers : Taken(prod[q].pos) => Taken(prod[q].pos)'
    <3>1. \A q \in Producers : \A i : i = prod'[q].pos /\ Taken(i)' => Taken(prod[q].pos)'
      BY Zenon DEF Taken
    <3> QED
      BY <1>4, <1>5, <3>1, Zenon
  <2> QED
    BY <1>5, <1>8, <2>1, <2>2, Zenon DEF Claimed
<1>10. \A i \in AqSlots : fd_at(i)' = fd_at(i)
  <2>1. \A i : /\ (\A q \in Producers : ~Holds1(q, i)) => fd_at(i) = entry[i].fd
               /\ \A q \in Producers : Holds1(q, i) => fd_at(i) = prod[q].fd
    BY FdAt DEF AqInv
  <2>2. \A i : /\ (\A q \in Producers : ~Holds1(q, i)') => fd_at(i)' = entry'[i].fd
               /\ \A q \in Producers : Holds1(q, i)' => fd_at(i)' = prod'[q].fd
    BY <1>8, FdAtNext
  <2>3. ASSUME NEW i \in AqSlots PROVE fd_at(i)' = fd_at(i)
    <3>1. CASE \E q \in Producers : Holds1(q, i)
      <4>1. PICK q \in Producers : Holds1(q, i)
        BY <3>1
      <4>2. fd_at(i) = prod[q].fd /\ fd_at(i)' = prod'[q].fd
        BY <1>6, <2>1, <2>2, <4>1, Zenon
      <4> QED
        BY <1>5, <4>2, Zenon
    <3>2. CASE ~\E q \in Producers : Holds1(q, i)
      <4>1. fd_at(i) = entry[i].fd /\ fd_at(i)' = entry'[i].fd
        BY <1>6, <2>1, <2>2, <3>2, Zenon
      <4>2. i # prod[p].pos
        BY <1>7, <3>2, Zenon
      <4> QED
        BY <1>1, <4>1, <4>2, Zenon
    <3> QED
      BY <3>1, <3>2
  <2> QED
    BY <2>3
<1>11. held_fds' = held_fds
  BY <1>3, <1>10, HeldSame, Zenon DEF AqInv
<1>12. AqTypes'
  BY <1>1, <1>3 DEF AqInv, AqTypes
<1>13. TailSeen'
  BY <1>3, <1>4, <1>5, Zenon DEF AqInv, TailSeen, TailSeenBy
<1>14. Cleared'
  BY <1>2, <1>4, Zenon DEF AqInv, Cleared, AqSlots
<1>15. Consumer'
  <2>1. head \in AqSlots
    BY DEF AqInv, AqTypes
  <2>2. (Taken(head)' <=> Taken(head)) /\ \A q \in Producers : Holds1(q, head)' <=> Holds1(q, head)
    <3>1. /\ \A i : i = head' => (Taken(i)' <=> Taken(head)')
          /\ \A q \in Producers : \A i : i = head' => (Holds1(q, i)' <=> Holds1(q, head)')
      BY DEF Taken, Holds1
    <3> QED
      BY <1>3, <1>4, <1>6, <3>1, Zenon
  <2>3. cons.pc \in {"release", "advance"} => entry'[head].fd = entry[head].fd
    <3>1. ~entry[prod[p].pos].set
      BY <1>1, Zenon DEF AqInv, Claimed
    <3>2. cons.pc \in {"release", "advance"} => head # prod[p].pos
      BY <1>7, <3>1, Zenon DEF AqInv, Consumer
    <3> QED
      BY <1>1, <2>1, <3>2, Zenon
  <2> QED
    BY <1>2, <1>3, <2>1, <2>2, <2>3, Zenon DEF AqInv, Consumer
<1>16. Fresh'
  <2>1. \A q \in Producers : prod'[q].pc # "idle" =>
          prod[q].pc # "idle" /\ prod'[q].fd = prod[q].fd /\ (Looks(q)' => Looks(q))
    BY <1>5, Zenon
  <2> QED
    BY <1>3, <1>10, <2>1, FreshSame, Zenon
<1> QED
  BY <1>9, <1>11, <1>12, <1>13, <1>14, <1>15, <1>16, Zenon DEF AqInv

LEMMA PushCommitKeeps ==
  ASSUME AqInv, NEW p \in Producers, PushCommit(p)
  PROVE  AqInv' /\ held_fds' = held_fds
<1>1. /\ prod[p].pc = "commit" /\ Holding(p) /\ prod' \in [Producers -> ProdRec]
      /\ prod'[p].pc = "idle" /\ prod[p].pos \in AqSlots
      /\ \A q \in Producers \ {p} : prod'[q] = prod[q]
      /\ entry' \in [AqSlots -> [set : BOOLEAN, fd : 0 .. MaxFds]]
      /\ \A i \in AqSlots \ {prod[p].pos} : entry'[i] = entry[i]
      /\ \A i \in AqSlots : entry'[i].fd = entry[i].fd
  <2>1. /\ prod[p].pc = "commit" /\ Holding(p) /\ prod[p].pos \in AqSlots
        /\ prod \in [Producers -> ProdRec] /\ entry \in [AqSlots -> [set : BOOLEAN, fd : 0 .. MaxFds]]
        /\ entry' = [entry EXCEPT ![prod[p].pos].set = TRUE]
        /\ prod' = [prod EXCEPT ![p] = [pc |-> "idle", fd |-> 0, pos |-> 0, since |-> 0]]
    BY DEF AqInv, AqTypes, PushCommit, Holding, ProdRec
  <2>2. [pc |-> "idle", fd |-> 0, pos |-> 0, since |-> 0] \in ProdRec
    BY AqAssumption DEF ProdRec, AqSlots
  <2>3. /\ prod' \in [Producers -> ProdRec] /\ prod'[p].pc = "idle"
        /\ \A q \in Producers \ {p} : prod'[q] = prod[q]
    BY <2>1, <2>2
  <2>4. /\ entry' \in [AqSlots -> [set : BOOLEAN, fd : 0 .. MaxFds]]
        /\ \A i \in AqSlots \ {prod[p].pos} : entry'[i] = entry[i]
        /\ \A i \in AqSlots : entry'[i].fd = entry[i].fd
    BY <2>1, Zenon
  <2> QED
    BY <2>1, <2>3, <2>4, Zenon
<1>2. head' = head /\ tail' = tail /\ cons' = cons /\ pushed' = pushed /\ claims' = claims /\ popped' = popped
  BY DEF PushCommit
<1>3. used' = used /\ \A i : Taken(i)' <=> Taken(i)
  BY <1>2, TakenSame
<1>4. Taken(prod[p].pos) /\ ~entry[prod[p].pos].set /\ entry[prod[p].pos].fd = prod[p].fd
  BY <1>1, Zenon DEF AqInv, Claimed
<1>5. Holds1(p, prod[p].pos) /\ \A i : \A q, s \in Producers : Holds1(q, i) /\ Holds1(s, i) => s = q
  BY <1>1, Zenon DEF AqInv, Claimed, Holds1
<1>6. \A q \in Producers : \A i : Holds1(q, i)' <=> Holds1(q, i) /\ q # p
  <2>1. ~Holding(p)'
    BY <1>1 DEF Holding
  <2>2. ASSUME NEW q \in Producers, q # p PROVE \A i : Holds1(q, i)' <=> Holds1(q, i)
    BY <1>1, <2>2, Zenon DEF Holds1, Holding
  <2>3. \A i : ~Holds1(p, i)'
    BY <2>1, Zenon DEF Holds1
  <2> QED
    BY <2>2, <2>3, Zenon
<1>7. \A i : \A q, s \in Producers : Holds1(q, i)' /\ Holds1(s, i)' => s = q
  BY <1>5, <1>6, Zenon
<1>8. Claimed'
  <2>1. ASSUME NEW q \in Producers, Holding(q)'
        PROVE  /\ q # p /\ Taken(prod[q].pos) /\ ~entry'[prod[q].pos].set
               /\ prod[q].pc = "commit" => entry'[prod[q].pos].fd = prod[q].fd
    <3>1. q # p /\ prod'[q] = prod[q] /\ Holding(q)
      BY <1>1, <2>1 DEF Holding
    <3>2. Taken(prod[q].pos) /\ ~entry[prod[q].pos].set
          /\ (prod[q].pc = "commit" => entry[prod[q].pos].fd = prod[q].fd) /\ prod[q].pos \in AqSlots
      BY <3>1, Zenon DEF AqInv, Claimed, Taken
    <3>3. prod[q].pos # prod[p].pos
      BY <1>5, <3>1, Zenon DEF Holds1
    <3> QED
      BY <1>1, <3>1, <3>2, <3>3, Zenon
  <2>2. \A q \in Producers : Taken(prod[q].pos) /\ q # p => Taken(prod[q].pos)'
    <3>1. \A q \in Producers : \A i : i = prod'[q].pos /\ Taken(i)' => Taken(prod[q].pos)'
      BY Zenon DEF Taken
    <3> QED
      BY <1>1, <1>3, <3>1, Zenon
  <2>3. \A q \in Producers : q # p => prod'[q] = prod[q]
    BY <1>1, Zenon
  <2>4. ASSUME NEW q \in Producers, Holding(q)'
        PROVE  /\ Taken(prod[q].pos)' /\ ~entry'[prod'[q].pos].set
               /\ prod'[q].pc = "commit" => entry'[prod'[q].pos].fd = prod'[q].fd
    BY <2>1, <2>2, <2>3, <2>4, Zenon
  <2> QED
    BY <1>7, <2>4, Zenon DEF Claimed
<1>9. \A i \in AqSlots : fd_at(i)' = fd_at(i)
  <2>1. \A i : /\ (\A q \in Producers : ~Holds1(q, i)) => fd_at(i) = entry[i].fd
               /\ \A q \in Producers : Holds1(q, i) => fd_at(i) = prod[q].fd
    BY FdAt DEF AqInv
  <2>2. \A i : /\ (\A q \in Producers : ~Holds1(q, i)') => fd_at(i)' = entry'[i].fd
               /\ \A q \in Producers : Holds1(q, i)' => fd_at(i)' = prod'[q].fd
    BY <1>7, FdAtNext
  <2>3. ASSUME NEW i \in AqSlots PROVE fd_at(i)' = fd_at(i)
    <3>1. CASE \E q \in Producers \ {p} : Holds1(q, i)
      <4>1. PICK q \in Producers \ {p} : Holds1(q, i)
        BY <3>1
      <4>2. fd_at(i) = prod[q].fd /\ fd_at(i)' = prod'[q].fd
        BY <1>6, <2>1, <2>2, <4>1, Zenon
      <4> QED
        BY <1>1, <4>1, <4>2, Zenon
    <3>2. CASE ~\E q \in Producers \ {p} : Holds1(q, i)
      <4>1. \A q \in Producers : ~Holds1(q, i)'
        BY <1>6, <3>2, Zenon
      <4>2. fd_at(i)' = entry[i].fd
        BY <1>1, <2>2, <4>1, Zenon
      <4>3. fd_at(i) = entry[i].fd
        <5>1. CASE Holds1(p, i)
          <6>1. i = prod[p].pos
            BY <5>1 DEF Holds1
          <6> QED
            BY <1>4, <2>1, <5>1, <6>1, Zenon
        <5>2. CASE ~Holds1(p, i)
          BY <2>1, <3>2, <5>2, Zenon
        <5> QED
          BY <5>1, <5>2
      <4> QED
        BY <4>2, <4>3, Zenon
    <3> QED
      BY <3>1, <3>2
  <2> QED
    BY <2>3
<1>10. held_fds' = held_fds
  BY <1>2, <1>9, HeldSame, Zenon DEF AqInv
<1>11. AqTypes'
  BY <1>1, <1>2 DEF AqInv, AqTypes
<1>12. TailSeen'
  <2>1. \A q \in Producers : Looks(q)' => q # p
    BY <1>1 DEF Looks
  <2>2. ASSUME NEW q \in Producers, Looks(q)' PROVE prod'[q] = prod[q] /\ Looks(q)
    BY <1>1, <2>1, <2>2, Zenon DEF Looks
  <2> QED
    BY <1>2, <1>3, <2>2, Zenon DEF AqInv, TailSeen, TailSeenBy
<1>13. Cleared'
  BY <1>1, <1>3, <1>4, Zenon DEF AqInv, Cleared, AqSlots
<1>14. Consumer'
  <2>1. head \in AqSlots
    BY DEF AqInv, AqTypes
  <2>2. (Taken(head)' <=> Taken(head)) /\ \A q \in Producers : Holds1(q, head)' => Holds1(q, head)
    <3>1. /\ \A i : i = head' => (Taken(i)' <=> Taken(head)')
          /\ \A q \in Producers : \A i : i = head' => (Holds1(q, i)' <=> Holds1(q, head)')
      BY DEF Taken, Holds1
    <3> QED
      BY <1>2, <1>3, <1>6, <3>1, Zenon
  <2>3. cons.pc \in {"release", "advance"} => head # prod[p].pos
    BY <1>4, <1>5, Zenon DEF AqInv, Consumer
  <2>4. cons.pc \in {"release", "advance"} => entry'[head] = entry[head]
    BY <1>1, <2>1, <2>3, Zenon
  <2>5. (cons.pc = "release" => cons.pc \in {"release", "advance"}) /\ (cons.pc = "advance" => cons.pc \in {"release", "advance"})
    OBVIOUS
  <2> QED
    BY <1>2, <2>2, <2>4, <2>5, Zenon DEF AqInv, Consumer
<1>15. Fresh'
  <2>1. \A q \in Producers : prod'[q].pc # "idle" =>
          prod[q].pc # "idle" /\ prod'[q].fd = prod[q].fd /\ (Looks(q)' => Looks(q))
    BY <1>1 DEF Looks
  <2> QED
    BY <1>2, <1>9, <2>1, FreshSame, Zenon
<1> QED
  BY <1>8, <1>10, <1>11, <1>12, <1>13, <1>14, <1>15, Zenon DEF AqInv

\* The consumer.
LEMMA ConsSame ==
  ASSUME AqInv, head' = head, tail' = tail, prod' = prod, claims' = claims, popped' = popped, pushed' = pushed,
         entry' \in [AqSlots -> [set : BOOLEAN, fd : 0 .. MaxFds]],
         \A i \in AqSlots : entry'[i].fd = entry[i].fd /\ (entry'[i].set => entry[i].set),
         cons' \in [pc : {"idle", "wait", "release", "advance"}, fd : 0 .. MaxFds],
         Consumer'
  PROVE  AqInv' /\ held_fds' = held_fds
<1>1. used' = used /\ \A i : Taken(i)' <=> Taken(i)
  BY TakenSame
<1>2. \A q \in Producers : /\ prod'[q] = prod[q] /\ (Holding(q)' <=> Holding(q)) /\ (Looks(q)' <=> Looks(q))
                           /\ \A i : Holds1(q, i)' <=> Holds1(q, i)
                           /\ Taken(prod[q].pos)' <=> Taken(prod[q].pos)
  BY <1>1 DEF Holding, Looks, Holds1, Taken
<1>3. \A i : \A q, s \in Producers : Holds1(q, i)' /\ Holds1(s, i)' => s = q
  BY <1>2, Zenon DEF AqInv, Claimed
<1>4. Claimed'
  <2>1. \A q \in Producers : Holding(q) => prod[q].pos \in AqSlots
    BY Zenon DEF AqInv, Claimed, Taken
  <2> QED
    BY <1>2, <1>3, <2>1, ZenonT(30) DEF AqInv, Claimed
<1>5. \A i \in AqSlots : fd_at(i)' = fd_at(i)
  <2>1. \A i : /\ (\A q \in Producers : ~Holds1(q, i)) => fd_at(i) = entry[i].fd
               /\ \A q \in Producers : Holds1(q, i) => fd_at(i) = prod[q].fd
    BY FdAt DEF AqInv
  <2>2. \A i : /\ (\A q \in Producers : ~Holds1(q, i)') => fd_at(i)' = entry'[i].fd
               /\ \A q \in Producers : Holds1(q, i)' => fd_at(i)' = prod'[q].fd
    BY <1>3, FdAtNext
  <2>3. ASSUME NEW i \in AqSlots PROVE fd_at(i)' = fd_at(i)
    <3>1. CASE \E q \in Producers : Holds1(q, i)
      <4>1. PICK q \in Producers : Holds1(q, i)
        BY <3>1
      <4>2. fd_at(i) = prod[q].fd /\ fd_at(i)' = prod'[q].fd
        BY <1>2, <2>1, <2>2, <4>1, Zenon
      <4> QED
        BY <1>2, <4>2, Zenon
    <3>2. CASE ~\E q \in Producers : Holds1(q, i)
      BY <1>2, <2>1, <2>2, <3>2, Zenon
    <3> QED
      BY <3>1, <3>2
  <2> QED
    BY <2>3
<1>6. held_fds' = held_fds
  BY <1>5, HeldSame, Zenon DEF AqInv
<1>7. AqTypes'
  BY DEF AqInv, AqTypes
<1>8. TailSeen'
  BY <1>1, <1>2, Zenon DEF AqInv, TailSeen, TailSeenBy
<1>9. Cleared'
  BY <1>1, Zenon DEF AqInv, Cleared, AqSlots
<1>10. Fresh'
  <2>1. \A q \in Producers : prod'[q].pc # "idle" =>
          prod[q].pc # "idle" /\ prod'[q].fd = prod[q].fd /\ (Looks(q)' => Looks(q))
    BY <1>2, Zenon
  <2> QED
    BY <1>5, <2>1, FreshSame, Zenon
<1> QED
  BY <1>4, <1>6, <1>7, <1>8, <1>9, <1>10, Zenon DEF AqInv

LEMMA PopStartKeeps ==
  ASSUME AqInv, PopStart
  PROVE  AqInv' /\ held_fds' = held_fds
<1>1. /\ head # tail /\ entry' = entry /\ cons'.pc = "wait" /\ head' = head /\ tail' = tail
      /\ prod' = prod /\ claims' = claims /\ popped' = popped /\ pushed' = pushed
      /\ cons' \in [pc : {"idle", "wait", "release", "advance"}, fd : 0 .. MaxFds]
      /\ entry' \in [AqSlots -> [set : BOOLEAN, fd : 0 .. MaxFds]]
      /\ head \in AqSlots /\ tail \in AqSlots
  BY DEF PopStart, AqInv, AqTypes
<1>2. Taken(head)
  <2>1. dist(head, head) = 0 /\ used \in AqSlots /\ used # 0
    BY <1>1, DistRange DEF used
  <2> QED
    BY <1>1, <2>1, AqAssumption DEF Taken, AqSlots
<1>3. Taken(head)'
  BY <1>1, <1>2 DEF Taken, used, dist
<1>4. Consumer'
  BY <1>1, <1>3 DEF Consumer
<1> QED
  BY <1>1, <1>4, ConsSame, Zenon

LEMMA PopReadKeeps ==
  ASSUME AqInv, PopRead
  PROVE  AqInv' /\ held_fds' = held_fds
<1>1. /\ cons.pc = "wait" /\ entry[head].set /\ entry' = entry
      /\ cons'.pc = "release" /\ cons'.fd = entry[head].fd /\ head' = head /\ tail' = tail
      /\ prod' = prod /\ claims' = claims /\ popped' = popped /\ pushed' = pushed
      /\ cons' \in [pc : {"idle", "wait", "release", "advance"}, fd : 0 .. MaxFds]
      /\ entry' \in [AqSlots -> [set : BOOLEAN, fd : 0 .. MaxFds]]
  BY DEF PopRead, AqInv, AqTypes
<1>2. Taken(head)'
  BY <1>1 DEF AqInv, Consumer, Taken, used, dist
<1>3. Consumer'
  BY <1>1, <1>2 DEF Consumer
<1> QED
  BY <1>1, <1>3, ConsSame, Zenon

LEMMA PopReleaseKeeps ==
  ASSUME AqInv, PopRelease
  PROVE  AqInv' /\ held_fds' = held_fds
<1>1. /\ cons.pc = "release" /\ cons'.pc = "advance" /\ cons'.fd = cons.fd /\ head' = head /\ tail' = tail
      /\ prod' = prod /\ claims' = claims /\ popped' = popped /\ pushed' = pushed /\ head \in AqSlots
      /\ cons' \in [pc : {"idle", "wait", "release", "advance"}, fd : 0 .. MaxFds]
      /\ entry' \in [AqSlots -> [set : BOOLEAN, fd : 0 .. MaxFds]] /\ ~entry'[head].set
  BY Zenon DEF PopRelease, AqInv, AqTypes
<1>2. \A i \in AqSlots : entry'[i].fd = entry[i].fd /\ (entry'[i].set => entry[i].set)
  BY DEF PopRelease, AqInv, AqTypes
<1>3. Taken(head)'
  BY <1>1 DEF AqInv, Consumer, Taken, used, dist
<1>4. entry[head].set /\ cons.fd = entry[head].fd
  BY <1>1 DEF AqInv, Consumer
<1>5. \A q \in Producers : ~Holds1(q, head)'
  <2>1. \A q \in Producers : ~Holds1(q, head)
    BY <1>4, Zenon DEF AqInv, Claimed, Holds1
  <2> QED
    BY <1>1, <2>1 DEF Holds1, Holding
<1>6. Consumer'
  BY <1>1, <1>2, <1>3, <1>4, <1>5 DEF Consumer
<1> QED
  BY <1>1, <1>2, <1>6, ConsSame, Zenon

LEMMA AdvanceRing ==
  ASSUME AqInv, PopAdvance
  PROVE  /\ head' \in AqSlots /\ used \in AqSlots /\ used > 0 /\ used' = used - 1
         /\ \A i : Taken(i)' <=> Taken(i) /\ i # head
         /\ \A q \in Producers : \A i : Holds1(q, i)' <=> Holds1(q, i)
         /\ \A i : fd_at(i)' = fd_at(i)
         /\ fd_at(head) = cons.fd /\ Taken(head)
<1>1. cons.pc = "advance" /\ head' = succ(head) /\ tail' = tail /\ prod' = prod /\ entry' = entry
  BY DEF PopAdvance
<1>2. Taken(head) /\ cons.fd = entry[head].fd /\ \A q \in Producers : ~Holds1(q, head)
  BY <1>1 DEF AqInv, Consumer
<1>3. /\ head' \in AqSlots /\ used \in AqSlots /\ used > 0 /\ used' = used - 1
      /\ \A i : Taken(i)' <=> Taken(i) /\ i # head
  BY <1>1, <1>2, TakenRelease DEF AqInv
<1>4. \A q \in Producers : \A i : Holds1(q, i)' <=> Holds1(q, i)
  BY <1>1 DEF Holds1, Holding
<1>5. \A i : fd_at(i)' = fd_at(i)
  BY <1>1 DEF fd_at
<1>6. fd_at(head) = cons.fd
  <2>1. \A i : (\A q \in Producers : ~Holds1(q, i)) => fd_at(i) = entry[i].fd
    BY FdAt DEF AqInv
  <2> QED
    BY <1>2, <2>1, Zenon
<1> QED
  BY <1>2, <1>3, <1>4, <1>5, <1>6

LEMMA PopAdvanceGets ==
  ASSUME AqInv, PopAdvance
  PROVE  held_fds # <<>> /\ held_fds' = Tail(held_fds)
<1>1. head' = succ(head) /\ tail' = tail /\ prod' = prod /\ entry' = entry
  BY DEF PopAdvance
<1>2. head' \in AqSlots /\ used \in AqSlots /\ used > 0 /\ used' = used - 1
  BY AdvanceRing
<1>3. head \in AqSlots /\ tail' \in AqSlots
  BY <1>1 DEF AqInv, AqTypes
<1>4. held_fds = [k \in 1 .. used |-> FdIn(prod, entry, fwd(head, k - 1))]
  BY HeldIs DEF AqInv
<1>5. held_fds' = [k \in 1 .. used - 1 |-> FdIn(prod, entry, fwd(succ(head), k - 1))]
  BY <1>1, <1>2, <1>3, HeldNext
<1>6. ASSUME NEW k \in 1 .. used - 1 PROVE fwd(succ(head), k - 1) = fwd(head, (k + 1) - 1)
  <2>1. k - 1 \in AqSlots /\ (k - 1) + 1 < AqSize /\ (k - 1) + 1 = (k + 1) - 1
    BY <1>2, <1>6, AqAssumption DEF AqSlots
  <2>2. PICK d \in AqSlots : d = k - 1 /\ d + 1 < AqSize
    BY <2>1
  <2>3. fwd(succ(head), d) = fwd(head, d + 1)
    BY <1>3, <2>2, AqAssumption DEF AqSlots, fwd, succ
  <2> QED
    BY <2>1, <2>2, <2>3, Zenon
<1>7. Len(held_fds) = used /\ used \in Nat
  BY <1>2, <1>4, AqAssumption DEF AqSlots
<1>8. Tail(held_fds) = [k \in 1 .. used - 1 |-> FdIn(prod, entry, fwd(head, (k + 1) - 1))]
  <2>1. Tail(held_fds) = [k \in 1 .. used - 1 |-> held_fds[k + 1]]
    <3> DEFINE S == {held_fds[k] : k \in 1 .. used}
    <3>1. held_fds \in Seq(S)
      <4>1. held_fds \in [1 .. used -> S]
        BY <1>4
      <4> QED
        BY <1>7, <4>1
    <3> HIDE DEF S
    <3>2. held_fds # <<>> /\ Tail(held_fds) \in Seq(S) /\ Len(Tail(held_fds)) = used - 1
      BY <1>2, <1>7, <3>1
    <3>3. \A k \in 1 .. used - 1 : Tail(held_fds)[k] = held_fds[k + 1]
      BY <1>2, <1>7, <3>1
    <3>4. Tail(held_fds) = [k \in 1 .. used - 1 |-> Tail(held_fds)[k]]
      <4> DEFINE u == Tail(held_fds)
      <4>1. u \in Seq(S) /\ Len(u) = used - 1
        BY <3>2
      <4> HIDE DEF u
      <4>2. u = [k \in 1 .. used - 1 |-> u[k]]
        BY <4>1
      <4> QED
        BY <4>2, Zenon DEF u
    <3> QED
      BY <3>3, <3>4, Zenon
  <2>2. \A k \in 1 .. used - 1 : k + 1 \in 1 .. used
    BY <1>7
  <2>3. \A k \in 1 .. used - 1 : held_fds[k + 1] = FdIn(prod, entry, fwd(head, (k + 1) - 1))
    BY <1>4, <2>2, Zenon
  <2> QED
    BY <2>1, <2>3, Zenon
<1>9. held_fds' = Tail(held_fds)
  BY <1>5, <1>6, <1>8, Zenon
<1>10. held_fds # <<>>
  BY <1>2, <1>7
<1> QED
  BY <1>9, <1>10

LEMMA PopAdvanceKeeps ==
  ASSUME AqInv, PopAdvance
  PROVE  AqInv'
<1>1. /\ cons.pc = "advance" /\ head' = succ(head) /\ tail' = tail /\ prod' = prod /\ entry' = entry
      /\ popped' = Append(popped, cons.fd) /\ cons' = [pc |-> "idle", fd |-> 0]
      /\ pushed' = pushed /\ claims' = claims
  BY DEF PopAdvance
<1>2. /\ head' \in AqSlots /\ used \in AqSlots /\ used > 0 /\ used' = used - 1
      /\ \A i : Taken(i)' <=> Taken(i) /\ i # head
      /\ \A q \in Producers : \A i : Holds1(q, i)' <=> Holds1(q, i)
      /\ \A i : fd_at(i)' = fd_at(i)
      /\ fd_at(head) = cons.fd /\ Taken(head)
  BY AdvanceRing
<1>3. head \in AqSlots /\ ~entry[head].set /\ \A q \in Producers : ~Holds1(q, head)
  BY <1>1 DEF AqInv, Consumer, AqTypes
<1>4. cons.fd \in 1 .. pushed /\ cons.fd \in 1 .. MaxFds /\ ~Got(cons.fd)
  <2>1. cons.fd \in 1 .. pushed /\ ~Got(cons.fd)
    BY <1>2, <1>3, Zenon DEF AqInv, Fresh, FdsOfRing
  <2>2. pushed \in 0 .. MaxFds
    BY DEF AqInv, AqTypes
  <2> QED
    BY <2>1, <2>2, AqAssumption
<1>5. /\ popped' \in Seq(1 .. MaxFds) /\ DOMAIN popped' = DOMAIN popped \cup {Len(popped) + 1}
      /\ popped'[Len(popped) + 1] = cons.fd /\ Len(popped) + 1 \notin DOMAIN popped
      /\ \A n \in DOMAIN popped : popped'[n] = popped[n]
  <2>1. popped \in Seq(1 .. MaxFds)
    BY DEF AqInv, AqTypes
  <2> QED
    BY <1>1, <1>4, <2>1
<1>6. \A x : Got(x)' <=> Got(x) \/ x = cons.fd
  BY <1>5, Zenon DEF Got
<1>7. AqTypes'
  BY <1>1, <1>2, <1>5, AqAssumption DEF AqInv, AqTypes
<1>8. TailSeen'
  <2>1. used < AqSize - 1 => used' < AqSize - 1
    BY <1>2, AqAssumption DEF AqSlots
  <2> QED
    BY <1>1, <2>1, Zenon DEF AqInv, TailSeen, TailSeenBy, Looks
<1>9. Claimed'
  <2>1. \A i : \A q, s \in Producers : Holds1(q, i)' /\ Holds1(s, i)' => s = q
    BY <1>2, Zenon DEF AqInv, Claimed
  <2>2. \A q \in Producers : Holding(q)' => Holding(q) /\ Taken(prod[q].pos)'
    <3>1. \A q \in Producers : Holding(q)' => Holding(q)
      BY <1>1 DEF Holding
    <3>2. \A q \in Producers : Holding(q) => Taken(prod[q].pos) /\ prod[q].pos # head
      BY <1>3, Zenon DEF AqInv, Claimed, Holds1
    <3>3. \A q \in Producers : \A i : i = prod'[q].pos /\ Taken(i)' => Taken(prod[q].pos)'
      BY Zenon DEF Taken
    <3> QED
      BY <1>1, <1>2, <3>1, <3>2, <3>3, Zenon
  <2> QED
    BY <1>1, <2>1, <2>2, Zenon DEF AqInv, Claimed
<1>10. Cleared'
  BY <1>1, <1>2, <1>3, Zenon DEF AqInv, Cleared, AqSlots
<1>11. Consumer'
  BY <1>1 DEF Consumer
<1>12. FdsOfRing'
  <2>1. ASSUME NEW i \in AqSlots, Taken(i)'
        PROVE  /\ fd_at(i)' \in 1 .. pushed' /\ ~Got(fd_at(i))'
               /\ \A j \in AqSlots : Taken(j)' /\ fd_at(j)' = fd_at(i)' => j = i
    <3>1. Taken(i) /\ i # head /\ fd_at(i)' = fd_at(i)
      BY <1>2, <2>1, Zenon
    <3>2. /\ fd_at(i) \in 1 .. pushed /\ ~Got(fd_at(i))
          /\ \A j \in AqSlots : Taken(j) /\ fd_at(j) = fd_at(i) => j = i
      BY <3>1, Zenon DEF AqInv, Fresh, FdsOfRing
    <3>3. fd_at(i) # cons.fd
      BY <1>2, <1>3, <3>1, <3>2, Zenon
    <3>4. \A x : x = fd_at(i)' /\ ~Got(x)' => ~Got(fd_at(i))'
      BY Zenon DEF Got
    <3>5. ~Got(fd_at(i))'
      BY <1>6, <3>1, <3>2, <3>3, <3>4, Zenon
    <3>6. \A j \in AqSlots : Taken(j)' /\ fd_at(j)' = fd_at(i)' => j = i
      BY <1>2, <3>2, Zenon
    <3> QED
      BY <1>1, <3>1, <3>2, <3>5, <3>6, Zenon
  <2> QED
    BY <2>1, Zenon DEF FdsOfRing, AqSlots
<1>13. FdsOfPopped'
  <2>1. \A n \in DOMAIN popped : popped[n] # cons.fd
    BY <1>4, Zenon DEF Got
  <2>2. \A n \in DOMAIN popped :
          popped[n] \in 1 .. pushed /\ \A m \in DOMAIN popped : popped[m] = popped[n] => m = n
    BY DEF AqInv, Fresh, FdsOfPopped
  <2>3. ASSUME NEW n \in DOMAIN popped'
        PROVE  popped'[n] \in 1 .. pushed /\ \A m \in DOMAIN popped' : popped'[m] = popped'[n] => m = n
    <3>1. CASE n \in DOMAIN popped
      BY <1>5, <2>1, <2>2, <3>1, Zenon
    <3>2. CASE n = Len(popped) + 1
      BY <1>4, <1>5, <2>1, <3>2, Zenon
    <3> QED
      BY <1>5, <2>3, <3>1, <3>2, Zenon
  <2> QED
    BY <1>1, <2>3, Zenon DEF FdsOfPopped
<1>14. FdsOfProd'
  <2>1. ASSUME NEW q \in Producers, Looks(q)
        PROVE  prod[q].fd # cons.fd /\ ~Got(prod[q].fd) /\ \A i \in AqSlots : Taken(i) => fd_at(i) # prod[q].fd
    <3>1. ~Got(prod[q].fd) /\ \A i \in AqSlots : Taken(i) => fd_at(i) # prod[q].fd
      BY <2>1, LooksFree, Zenon DEF Free
    <3> QED
      BY <1>2, <1>3, <3>1, Zenon
  <2>2. \A q \in Producers : Got(prod[q].fd)' => Got(prod[q].fd) \/ prod[q].fd = cons.fd
    <3>1. \A q \in Producers : \A x : x = prod'[q].fd /\ Got(prod[q].fd)' => Got(x)'
      BY Zenon DEF Got
    <3> QED
      BY <1>1, <1>6, <3>1, Zenon
  <2>3. \A q \in Producers : Looks(q)' <=> Looks(q)
    BY <1>1 DEF Looks
  <2>4. \A q \in Producers : Looks(q)' => ~Got(prod[q].fd)' /\ \A i \in AqSlots : Taken(i)' => fd_at(i)' # prod'[q].fd
    BY <1>1, <1>2, <2>1, <2>2, <2>3, Zenon
  <2>5. \A q \in Producers : prod'[q].pc # "idle" =>
           /\ prod'[q].fd \in 1 .. pushed'
           /\ \A s \in Producers : prod'[s].pc # "idle" /\ prod'[s].fd = prod'[q].fd => s = q
    BY <1>1, Zenon DEF AqInv, Fresh, FdsOfProd
  <2> QED
    BY <2>4, <2>5, Zenon DEF FdsOfProd, AqSlots
<1> QED
  BY <1>7, <1>8, <1>9, <1>10, <1>11, <1>12, <1>13, <1>14, Zenon DEF AqInv, Fresh

LEMMA AqStarts ==
  ASSUME AqInit
  PROVE  AqInv /\ held_fds = <<>>
<1>1. 0 \in AqSlots /\ dist(0, 0) = 0
  BY AqAssumption DEF AqSlots, dist
<1>2. used = 0
  BY <1>1 DEF AqInit, used
<1>3. \A i : ~Taken(i)
  <2>1. \A i \in AqSlots : dist(head, i) \in AqSlots
    BY <1>1, DistRange DEF AqInit
  <2>2. \A d \in AqSlots : ~(d < 0)
    BY AqAssumption DEF AqSlots
  <2> QED
    BY <1>2, <2>1, <2>2, Zenon DEF Taken
<1>4. AqTypes
  BY <1>1, AqAssumption DEF AqInit, AqTypes, AqSlots, ProdRec
<1>5. (\A p \in Producers : prod[p].pc = "idle") /\ popped = <<>> /\ cons.pc = "idle"
  BY DEF AqInit
<1>6. TailSeen /\ Claimed
  BY <1>5 DEF TailSeen, TailSeenBy, Looks, Claimed, Holds1, Holding
<1>7. Cleared
  BY DEF AqInit, Cleared, AqSlots
<1>8. Consumer
  BY <1>5 DEF Consumer
<1>9. Fresh
  <2>1. FdsOfProd
    BY <1>5, Zenon DEF FdsOfProd
  <2>2. FdsOfRing
    BY <1>3, Zenon DEF FdsOfRing
  <2>3. FdsOfPopped
    BY <1>5 DEF FdsOfPopped
  <2> QED
    BY <2>1, <2>2, <2>3 DEF Fresh
<1>10. held_fds = <<>>
  <2>1. held_fds = [k \in 1 .. 0 |-> FdIn(prod, entry, fwd(head, k - 1))]
    BY <1>2, <1>4, HeldIs, Zenon
  <2> QED
    BY <2>1
<1> QED
  BY <1>4, <1>6, <1>7, <1>8, <1>9, <1>10 DEF AqInv

LEMMA AqSteps ==
  ASSUME AqInv, ~MayLap, [AqNext]_aqVars
  PROVE  AqInv' /\ [F!FifoNext]_held_fds
<1>1. CASE UNCHANGED aqVars
  <2>1. AqInv'
    <3>1. AqTypes' /\ TailSeen'
      BY <1>1 DEF aqVars, AqInv, AqTypes, TailSeen, TailSeenBy, used, dist, Looks
    <3>2. Claimed' /\ Cleared'
      BY <1>1 DEF aqVars, AqInv, Claimed, Cleared, Taken, used, dist, Holding, Holds1
    <3>3. Consumer'
      BY <1>1 DEF aqVars, AqInv, Consumer, Taken, used, dist, Holding, Holds1
    <3>4. Fresh'
      <4>1. \A i : fd_at(i)' = fd_at(i)
        BY <1>1 DEF aqVars, fd_at
      <4>2. prod' = prod /\ \A q \in Producers : Looks(q)' => Looks(q)
        BY <1>1 DEF aqVars, Looks
      <4> QED
        BY <1>1, <4>1, <4>2, FreshSame DEF aqVars
    <3> QED
      BY <3>1, <3>2, <3>3, <3>4 DEF AqInv
  <2>2. held_fds' = held_fds
    BY <1>1 DEF aqVars, held_fds, fd_at
  <2> QED
    BY <2>1, <2>2
<1>2. ASSUME NEW p \in Producers, PushStart(p) PROVE AqInv' /\ held_fds' = held_fds
  BY <1>2, PushStartKeeps
<1>3. ASSUME NEW p \in Producers, PushTest(p) PROVE AqInv' /\ held_fds' = held_fds
  BY <1>3, PushTestKeeps
<1>4. ASSUME NEW p \in Producers, PushCas(p) PROVE AqInv' /\ (held_fds' = held_fds \/ F!FifoNext)
  <2>1. CASE tail = prod[p].pos
    <3>1. AqInv'
      BY <1>4, <2>1, PushClaimKeeps
    <3>2. Len(held_fds) < AqSize - 1 /\ held_fds' = Append(held_fds, prod[p].fd) /\ prod[p].fd \in 1 .. MaxFds
      BY <1>4, <2>1, PushClaimPuts
    <3>3. F!FifoNext
      BY <3>2, Zenon DEF F!FifoNext, F!Put
    <3> QED
      BY <3>1, <3>3
  <2>2. CASE tail # prod[p].pos
    BY <1>4, <2>2, PushRetryKeeps
  <2> QED
    BY <2>1, <2>2
<1>5. ASSUME NEW p \in Producers, PushFill(p) PROVE AqInv' /\ held_fds' = held_fds
  BY <1>5, PushFillKeeps
<1>6. ASSUME NEW p \in Producers, PushCommit(p) PROVE AqInv' /\ held_fds' = held_fds
  BY <1>6, PushCommitKeeps
<1>7. ASSUME Pop PROVE AqInv' /\ (held_fds' = held_fds \/ F!FifoNext)
  <2>1. ASSUME PopAdvance PROVE AqInv' /\ F!FifoNext
    <3>1. AqInv'
      BY <2>1, PopAdvanceKeeps
    <3>2. F!FifoNext
      BY <2>1, PopAdvanceGets, Zenon DEF F!FifoNext, F!Get
    <3> QED
      BY <3>1, <3>2
  <2> QED
    BY <1>7, <2>1, PopStartKeeps, PopReadKeeps, PopReleaseKeeps, Zenon DEF Pop
<1>8. CASE AqNext
  BY <1>2, <1>3, <1>4, <1>5, <1>6, <1>7, <1>8, Zenon DEF AqNext
<1> QED
  BY <1>1, <1>8

\* The state part of AqServed.
LEMMA AqInvGives ==
  ASSUME AqInv
  PROVE  PoppedOnce /\ FreeSlotsClear
<1>1. head \in AqSlots /\ tail \in AqSlots /\ used = dist(head, tail)
  BY DEF AqInv, AqTypes, used
<1>2. used \in AqSlots /\ held_fds = [k \in 1 .. used |-> FdIn(prod, entry, fwd(head, k - 1))]
  BY HeldIs DEF AqInv
<1>3. ASSUME NEW k \in DOMAIN held_fds PROVE ~Got(held_fds[k])
  <2>1. k \in 1 .. used /\ held_fds[k] = FdIn(prod, entry, fwd(head, k - 1))
    BY <1>2, <1>3
  <2>2. k - 1 \in AqSlots /\ k - 1 < used
    BY <1>2, <2>1, AqAssumption DEF AqSlots
  <2>3. PICK i \in AqSlots : i = fwd(head, k - 1) /\ dist(head, i) = k - 1
    BY <1>1, <2>2, FwdDist
  <2>4. Taken(i)
    BY <2>2, <2>3 DEF Taken
  <2>5. held_fds[k] = fd_at(i)
    BY <2>1, <2>3 DEF fd_at, FdIn
  <2> QED
    BY <2>4, <2>5, Zenon DEF AqInv, Fresh, FdsOfRing
<1>4. PoppedOnce
  BY <1>3, Zenon DEF AqInv, Fresh, FdsOfPopped, PoppedOnce, Got
<1>5. FreeSlotsClear
  <2>1. ASSUME NEW i \in AqSlots, (i + AqSize - head) % AqSize >= (tail + AqSize - head) % AqSize
        PROVE  ~entry[i].set
    <3>1. dist(head, i) >= used
      BY <1>1, <2>1, HeldLen, Zenon
    <3>2. dist(head, i) \in AqSlots
      BY <1>1, DistRange, Zenon
    <3>3. ~Taken(i)
      BY <1>2, <3>1, <3>2, AqAssumption DEF Taken, AqSlots
    <3> QED
      BY <3>3 DEF AqInv, Cleared
  <2> QED
    BY <2>1, Zenon DEF FreeSlotsClear, AqSlots
<1> QED
  BY <1>4, <1>5

\* accept_queue_push_mp() of any number of threads against accept_queue_pop_sc():
\* the ring is a first-in first-out queue, what is popped was pushed, once, and
\* a freed slot is clear, as long as no producer is lapped between its read of
\* the tail and its compare-and-swap.
THEOREM AqStaysServed ==
  ASSUME ~MayLap
  PROVE  AqSpec => AqServed
<1>1. AqInit => AqInv /\ F!FifoInit
  BY AqStarts DEF F!FifoInit
<1>2. AqInv /\ [AqNext]_aqVars => AqInv' /\ [F!FifoNext]_held_fds
  BY AqSteps
<1>3. AqInv => PoppedOnce /\ FreeSlotsClear
  BY AqInvGives
<1> QED
  BY <1>1, <1>2, <1>3, PTL DEF AqSpec, AqServed, AqIsFifo, F!FifoSpec
=============================================================================
