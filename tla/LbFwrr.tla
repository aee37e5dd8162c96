--------------------------------- MODULE LbFwrr ---------------------------------
(***************************************************************************)
(* The weighted round robin of src/lb_fwrr.c.  The servers of a group wait *)
(* in the tree "init" to be placed, or in "next" for the next turn, sorted *)
(* by weight; those of the current turn are in "curr", sorted by position. *)
(* A server is taken from curr when its position is reached, from init     *)
(* otherwise, and when both are empty init and next are switched.          *)
(*                                                                         *)
(* What changes in a server is prepared in its next_ fields under its      *)
(* lock, applied to the trees under the lock of the load balancer, and     *)
(* committed to its cur_ fields after that lock is released: another       *)
(* thread may choose a server before each of these steps.                  *)
(***************************************************************************)
EXTENDS Integers, Sequences, FiniteSets, SequencesExt

CONSTANTS
    LbServers,  \* the servers of the backend, in configuration order (a sequence)
    Backups,    \* those with SRV_F_BACKUP
    NoServer,   \* a NULL server
    Weights,    \* per server: the effective weights it is given; 0 is no weight
    EwghtMax,   \* SRV_EWGHT_MAX, for weights whose scale is 1
    UwghtRange, \* SRV_UWGHT_RANGE
    UWrap,      \* modulus of the unsigned integers: positions, keys, differences
    Saturates,  \* servers that may be found saturated
    Avoidable,  \* servers that a request may have to avoid
    MaxChanges, \* bound: changes of servers
    MaxLate     \* bound: choices while the change of a server is under way

VARIABLES
    lbsrv,      \* per server: cur and next (what cur_ and next_ fields say: up,
                \* eweight), lb_tree, key, npos, lpos, rweight, and pc: "rest",
                \* "next" (to be applied) or "commit"
    grp,        \* per group "act" and "bck": the trees t0, t1 and curr, which of
                \* t0 and t1 is init, curr_pos, curr_weight, next_weight
    lbprm,      \* srv_act, srv_bck, fbck, and all: the option PR_O_USE_ALL_BK
    changes,    \* changes of servers so far
    late,       \* choices since a change that is under way began
    chosen,     \* the outcome of the last fwrr_get_next_server(): "found", "none" could
                \* take the request, one was "missed", or it was missed while a
                \* change was being applied, "hidden"
    turn        \* since the last switch of the active group: how often each server
                \* was chosen, and whether nothing has disturbed the turn; the
                \* servers whose share of an undisturbed turn was not their weight

lbVars == <<lbsrv, grp, lbprm, changes, late, chosen, turn>>

under_way == \E s \in DOMAIN lbsrv : lbsrv[s].pc # "rest"

Servers == Range(LbServers)
Groups == {"act", "bck"}
group_of(s) == IF s \in Backups THEN "bck" ELSE "act"

lb_usable(x) == x.up /\ x.eweight > 0

u(x) == x % UWrap

total(f, S) == FoldSet(LAMBDA s, n : f[s] + n, 0, S)

(* Trees, as sequences sorted by key; a key that exists is put behind it. *)
eb32_insert(tree, s, srv) ==
    LET before == SelectSeq(tree, LAMBDA x : srv[x].key <= srv[s].key)
        behind == SelectSeq(tree, LAMBDA x : srv[x].key > srv[s].key)
    IN  before \o <<s>> \o behind

eb32_delete(tree, s) == SelectSeq(tree, LAMBDA x : x # s)

(* A pair L of a group g and the servers s is what an operation works on. *)
other_tree(tree) == IF tree = "t0" THEN "t1" ELSE "t0"
init_tree(L) == L.g.init
next_tree(L) == other_tree(L.g.init)

fwrr_dequeue_srv(L, s) ==
    [L EXCEPT !.g = [@ EXCEPT !.t0 = eb32_delete(@, s), !.t1 = eb32_delete(@, s),
                              !.curr = eb32_delete(@, s)]]

insert_in(L, tree, s, key) ==
    LET srv == [L.s EXCEPT ![s].key = key, ![s].lb_tree = tree]
    IN  [g |-> [L.g EXCEPT ![tree] = eb32_insert(@, s, srv)], s |-> srv]

fwrr_queue_by_weight(L, tree, s) == insert_in(L, tree, s, EwghtMax - L.s[s].next.eweight)

(* Delay everything which does not fit into the window *)
delayed(L, s) ==
    \/ L.s[s].next.eweight <= 0
    \/ L.s[s].npos >= 2 * L.g.curr_weight
    \/ L.s[s].npos >= L.g.curr_weight + L.g.next_weight

fwrr_queue_srv(L, s) ==
    IF ~lb_usable(L.s[s].next) THEN [L EXCEPT !.s[s].lb_tree = "none"]
    ELSE IF delayed(L, s)
    THEN fwrr_queue_by_weight([L EXCEPT !.s[s].npos = u(@ - L.g.curr_weight)], next_tree(L), s)
    ELSE insert_in(L, "curr", s,
                   u(UwghtRange * L.s[s].npos + EwghtMax + L.s[s].rweight - L.s[s].next.eweight))

(* fwrr_get_srv() with its three cases *)
fwrr_get_srv_init(L, s) == [L EXCEPT !.s[s].npos = 0, !.s[s].rweight = 0]

fwrr_get_srv(L, s) ==
    LET tree == L.s[s].lb_tree IN
    IF tree = init_tree(L) THEN fwrr_get_srv_init(L, s)
    ELSE IF tree = next_tree(L) THEN [L EXCEPT !.s[s].npos = u(@ + L.g.curr_weight)]
    ELSE IF tree = "none" THEN [L EXCEPT !.s[s].npos = L.g.curr_pos]
    ELSE L

fwrr_switch_trees(L) ==
    [L EXCEPT !.g = [@ EXCEPT !.init = other_tree(@), !.curr_weight = L.g.next_weight,
                              !.curr_pos = L.g.next_weight]]

(* The server at its position in the current tree, or else the first of the  *)
(* init tree, or else the first of the current tree.                         *)
first_in(tree) == IF tree = <<>> THEN NoServer ELSE tree[1]

from_curr(L) ==
    LET s1 == first_in(L.g.curr) IN
    s1 # NoServer /\ L.s[s1].cur.eweight # 0 /\ L.s[s1].npos <= L.g.curr_pos

from_init(L) ==
    LET s2 == first_in(L.g[init_tree(L)]) IN s2 # NoServer /\ L.s[s2].cur.eweight # 0

fwrr_get_server_from_group(L) ==
    IF ~from_curr(L) /\ from_init(L) THEN first_in(L.g[init_tree(L)]) ELSE first_in(L.g.curr)

taken_from(L, s) == IF ~from_curr(L) /\ from_init(L) THEN fwrr_get_srv_init(L, s) ELSE L

(* A mutant: the remainder of the division is forgotten. *)
position_rough(L, s) ==
    LET w    == L.s[s].cur.eweight
        here == IF L.s[s].npos = 0 THEN L.g.curr_pos ELSE L.s[s].npos
    IN  IF w = 0 THEN L
        ELSE [L EXCEPT !.s[s].lpos = here, !.s[s].npos = u(here + (L.g.next_weight \div w))]

fwrr_update_position(L, s) ==
    LET w    == L.s[s].cur.eweight
        here == IF L.s[s].npos = 0 THEN L.g.curr_pos ELSE L.s[s].npos
        r    == L.s[s].rweight + (L.g.next_weight % w)
    IN  IF w = 0 THEN L
        ELSE [L EXCEPT !.s[s].lpos = here,
                       !.s[s].npos = u(here + (L.g.next_weight \div w) + (IF r >= w THEN 1 ELSE 0)),
                       !.s[s].rweight = IF r >= w THEN r - w ELSE r]

(* The only server that is left is the one to avoid: take this one. *)
avoided_anyway(r) == r.avoided

(* The loop of fwrr_get_next_server(): the servers of the set saturated, and *)
(* once the one to avoid, are chained in full and the search goes on.        *)
RECURSIVE search(_, _, _)
search(r, saturated, avoid) ==
    LET L0  == IF r.L.g.curr_weight = 0
               THEN [r.L EXCEPT !.g.curr_weight = r.L.g.next_weight, !.g.curr_pos = r.L.g.next_weight]
               ELSE r.L
        srv == fwrr_get_server_from_group(L0)
    IN  IF srv = NoServer /\ r.switched THEN [r EXCEPT !.L = L0, !.srv = avoided_anyway(r)]
        ELSE IF srv = NoServer
        THEN search([r EXCEPT !.L = fwrr_switch_trees(L0), !.switched = TRUE], saturated, avoid)
        ELSE LET moved == fwrr_dequeue_srv(fwrr_update_position(taken_from(L0, srv), srv), srv)
                 L1    == [moved EXCEPT !.g.curr_pos = @ + 1]
                 room  == srv \notin saturated
             IN  IF room /\ (srv # avoid \/ r.avoided # NoServer)
                 THEN [r EXCEPT !.L = L1, !.srv = srv]
                 ELSE search([r EXCEPT !.L = L1, !.full = <<srv>> \o @,
                                       !.avoided = IF room THEN srv ELSE @], saturated, avoid)

(* The chosen server, then those of the list full, are queued again. *)
requeue(r) ==
    LET L0 == IF r.srv = NoServer THEN r.L ELSE fwrr_queue_srv(r.L, r.srv)
    IN  FoldLeft(LAMBDA L, s : IF s = r.srv THEN L
                               ELSE IF r.switched THEN fwrr_queue_by_weight(L, init_tree(L), s)
                               ELSE fwrr_queue_srv(L, s), L0, r.full)

(* recount_servers() and fwrr_init_server_groups(), for servers that start   *)
(* with any of the weights.                                                  *)
count(S, srv) == Cardinality({s \in S : lb_usable(srv[s].next)})

first_backup(srv, all) ==
    LET bck == SelectSeq(LbServers, LAMBDA s : s \in Backups /\ lb_usable(srv[s].next))
    IN  IF all THEN NoServer ELSE first_in(bck)

usable_weight(S, srv) ==
    total([s \in Servers |-> IF lb_usable(srv[s].next) THEN srv[s].next.eweight ELSE 0], S)

empty_group(w) ==
    [t0 |-> <<>>, t1 |-> <<>>, curr |-> <<>>, init |-> "t0",
     curr_pos |-> w, curr_weight |-> w, next_weight |-> w]

queue_all(g, S, srv) ==
    FoldLeft(LAMBDA L, s : IF s \in S /\ lb_usable(L.s[s].cur) THEN fwrr_queue_by_weight(L, "t0", s) ELSE L,
             [g |-> g, s |-> srv], LbServers)

no_turn == [cnt |-> [s \in Servers |-> 0], clean |-> FALSE, unfair |-> {}]

LbInit ==
    \E all \in BOOLEAN, w \in {f \in [Servers -> UNION Range(Weights)] : \A s \in Servers : f[s] \in Weights[s]} :
        LET srv0 == [s \in Servers |->
                       [cur |-> [up |-> TRUE, eweight |-> w[s]], next |-> [up |-> TRUE, eweight |-> w[s]],
                        lb_tree |-> "none", key |-> 0, npos |-> 0, lpos |-> 0, rweight |-> 0,
                        pc |-> "rest"]]
            act == queue_all(empty_group(usable_weight(Servers \ Backups, srv0)), Servers \ Backups, srv0)
            bck == queue_all(empty_group(usable_weight(Backups, srv0)), Backups, act.s)
        IN  /\ lbsrv = bck.s
            /\ grp = [act |-> act.g, bck |-> bck.g]
            /\ lbprm = [srv_act |-> count(Servers \ Backups, srv0), srv_bck |-> count(Backups, srv0),
                        fbck |-> first_backup(srv0, all), all |-> all]
            /\ changes = 0
            /\ late = 0
            /\ chosen = "none"
            /\ turn = no_turn

(* The next_ fields of a server change, under its lock. *)
SetNext(s) ==
    /\ lbsrv[s].pc = "rest"
    /\ changes < MaxChanges
    /\ changes' = changes + 1
    /\ \E up \in BOOLEAN, w \in Weights[s] :
          /\ [up |-> up, eweight |-> w] # lbsrv[s].cur
          /\ lbsrv' = [lbsrv EXCEPT ![s].next = [up |-> up, eweight |-> w], ![s].pc = "next"]
    /\ UNCHANGED <<grp, lbprm, late, chosen, turn>>

(* fwrr_set_server_status_down(), for a server that was usable *)
next_backup(s) ==
    LET later == {i \in 1 .. Len(LbServers) :
                    /\ \E j \in 1 .. i - 1 : LbServers[j] = s
                    /\ LbServers[i] \in Backups
                    /\ lb_usable(lbsrv[LbServers[i]].next)}
    IN  IF later = {} THEN NoServer ELSE LbServers[Min(later)]

gone_down(L, s) ==
    LET L1 == fwrr_dequeue_srv([L EXCEPT !.g.next_weight = @ - L.s[s].cur.eweight], s)
    IN  [L1 EXCEPT !.s[s].lb_tree = "none"]

(* A mutant: a backup server that is restored is used only when there is none. *)
fbck_kept(s) == IF lbprm.all \/ lbprm.fbck # NoServer THEN lbprm.fbck ELSE s

(* The restored backup server replaces one that is behind it. *)
fbck_up(s) ==
    LET at(x) == CHOOSE i \in 1 .. Len(LbServers) : LbServers[i] = x
    IN  IF lbprm.all \/ (lbprm.fbck # NoServer /\ at(lbprm.fbck) <= at(s)) THEN lbprm.fbck ELSE s

counted(s, n) ==
    IF s \in Backups
    THEN [lbprm EXCEPT !.srv_bck = @ + n,
                       !.fbck = IF n > 0 THEN fbck_up(s) ELSE IF @ = s THEN next_backup(s) ELSE @]
    ELSE [lbprm EXCEPT !.srv_act = @ + n]

(* fwrr_set_server_status_up(), for a server that was not usable: the        *)
(* difference is divided as an unsigned integer.                             *)
gone_up(L, s) ==
    LET w  == L.s[s].next.eweight
        L1 == fwrr_get_srv([L EXCEPT !.g.next_weight = @ + w], s)
        gap == u(L1.g.next_weight + L1.g.curr_weight - L1.g.curr_pos)
    IN  fwrr_queue_srv([L1 EXCEPT !.s[s].npos = u(L1.g.curr_pos + (gap \div w))], s)

(* fwrr_update_server_weight(), for one that stays usable *)
moved_npos(L, s) ==
    LET step == L.g.next_weight \div L.s[s].next.eweight
        npos == IF u(L.s[s].lpos + step) > L.s[s].npos THEN L.s[s].npos ELSE u(L.s[s].lpos + step)
    IN  IF npos < L.g.curr_pos + 2 THEN L.g.curr_pos + step ELSE npos

reweighted(L, s) ==
    LET L0 == [L EXCEPT !.g.next_weight = @ - L.s[s].cur.eweight + L.s[s].next.eweight]
    IN  IF L.s[s].lb_tree = init_tree(L)
        THEN fwrr_queue_by_weight(fwrr_dequeue_srv(L0, s), init_tree(L0), s)
        ELSE LET L1 == fwrr_get_srv(L0, s)
             IN  fwrr_queue_srv(fwrr_dequeue_srv([L1 EXCEPT !.s[s].npos = moved_npos(L1, s),
                                                            !.s[s].rweight = 0], s), s)

(* fwrr_update_server_weight(), and fwrr_set_server_status_down(), under the *)
(* lock of the load balancer                                                 *)
Apply(s) ==
    LET was  == lb_usable(lbsrv[s].cur)
        will == lb_usable(lbsrv[s].next)
        L    == [g |-> grp[group_of(s)], s |-> lbsrv]
    IN  /\ lbsrv[s].pc = "next"
        /\ \E L1 \in {IF was /\ will THEN reweighted(L, s)
                       ELSE IF was THEN gone_down(L, s)
                       ELSE IF will THEN gone_up(L, s) ELSE L} :
              /\ grp' = [grp EXCEPT ![group_of(s)] = L1.g]
              /\ lbsrv' = [L1.s EXCEPT ![s].pc = "commit"]
        /\ lbprm' = IF was = will THEN lbprm ELSE counted(s, IF will THEN 1 ELSE -1)
        /\ turn' = [no_turn EXCEPT !.unfair = turn.unfair]
        /\ UNCHANGED <<changes, late, chosen>>

(* srv_lb_commit_status(), after the lock is released *)
Commit(s) ==
    /\ lbsrv[s].pc = "commit"
    /\ lbsrv' = [lbsrv EXCEPT ![s].cur = lbsrv[s].next, ![s].pc = "rest"]
    /\ late' = IF \E t \in Servers \ {s} : lbsrv[t].pc # "rest" THEN late ELSE 0
    /\ UNCHANGED <<grp, lbprm, changes, chosen, turn>>

(* The turn of the active group, for the fairness of the distribution *)
counted_turn(r, disturbed) ==
    LET due == {s \in Servers \ Backups : lb_usable(lbsrv[s].cur)}
        t0  == IF r.switched
               THEN [cnt |-> [s \in Servers |-> 0], clean |-> TRUE,
                     unfair |-> IF turn.clean /\ ~disturbed
                                THEN {s \in due : turn.cnt[s] # lbsrv[s].cur.eweight}
                                ELSE turn.unfair]
               ELSE turn
    IN  IF disturbed \/ ~t0.clean THEN [no_turn EXCEPT !.unfair = t0.unfair]
        ELSE [t0 EXCEPT !.cnt[r.srv] = @ + 1]

(* fwrr_get_next_server() in a group *)
ChooseIn(g, saturated, avoid) ==
    \E r \in {search([L |-> [g |-> grp[g], s |-> lbsrv], full |-> <<>>, avoided |-> NoServer,
                      srv |-> NoServer, switched |-> FALSE], saturated, avoid)} :
        \E L \in {requeue(r)} :
            /\ grp' = [grp EXCEPT ![g] = L.g]
            /\ lbsrv' = L.s
            /\ chosen' = IF r.srv # NoServer THEN "found"
                         ELSE IF \A s \in Servers \ saturated : group_of(s) = g => lbsrv[s].pc # "rest" \/ ~lb_usable(lbsrv[s].cur)
                         THEN "none"
                         ELSE IF under_way THEN "hidden" ELSE "missed"
            /\ turn' = IF g = "bck" THEN turn
                       ELSE counted_turn(r, \/ saturated # {} \/ avoid # NoServer \/ r.srv = NoServer
                                       \/ under_way)
            /\ late' = IF under_way THEN late + 1 ELSE 0
            /\ UNCHANGED <<lbprm, changes>>

(* The group that is used, or the first backup server, or none *)
Choose ==
    /\ late < MaxLate
    /\ \E saturated \in SUBSET Saturates, avoid \in Avoidable \cup {NoServer} :
          IF lbprm.srv_act > 0 THEN ChooseIn("act", saturated, avoid)
          ELSE IF lbprm.fbck = NoServer /\ lbprm.srv_bck > 0 THEN ChooseIn("bck", saturated, avoid)
          ELSE /\ chosen' = IF lbprm.fbck = NoServer THEN "none" ELSE "found"
               /\ UNCHANGED <<lbsrv, grp, lbprm, changes, late, turn>>

LbNext == Choose \/ \E s \in Servers : SetNext(s) \/ Apply(s) \/ Commit(s)

LbSpec == LbInit /\ [][LbNext]_lbVars

--------------------------------------------------------------------------------

(* The weight that the trees know a server by, 0 for one that is not used *)
applied(s) ==
    LET x == IF lbsrv[s].pc = "commit" THEN lbsrv[s].next ELSE lbsrv[s].cur
    IN  IF lb_usable(x) THEN x.eweight ELSE 0

(* Every usable server is in exactly one tree, the one its lb_tree names,    *)
(* and a server that is not usable in none (one that is about to become      *)
(* unusable may already have left): whatever the order of status changes,    *)
(* weight changes and choices, no server is lost or doubled.                 *)
TreesExact ==
    \A s \in Servers :
        /\ \A tree \in {"t0", "t1", "curr"} :
              Len(SelectSeq(grp[group_of(s)][tree], LAMBDA x : x = s)) =
                  IF lbsrv[s].lb_tree = tree THEN 1 ELSE 0
        /\ lbsrv[s].lb_tree # "none" => applied(s) > 0
        /\ applied(s) > 0 =>
              (lbsrv[s].lb_tree # "none" \/ (lbsrv[s].pc = "next" /\ ~lb_usable(lbsrv[s].next)))

(* The weights and the numbers of servers of both groups are those of the    *)
(* usable servers, and fbck is the first of the usable backup servers (or of *)
(* those whose pending change makes them so).                                *)
GroupsExact ==
    /\ \A g \in Groups :
          grp[g].next_weight = total([s \in Servers |-> applied(s)], {s \in Servers : group_of(s) = g})
    /\ lbprm.srv_act = Cardinality({s \in Servers \ Backups : applied(s) > 0})
    /\ lbprm.srv_bck = Cardinality({s \in Backups : applied(s) > 0})
    /\ (\A s \in Backups : lbsrv[s].pc # "next") => lbprm.fbck = first_backup(lbsrv, lbprm.all)

(* No server is returned only if none of the group could take the request:   *)
(* each is unusable or saturated, or a server whose change is being applied  *)
(* hides the others (it is first in its tree with a current weight of zero). *)
NoneReason ==
    chosen # "missed"

(* In a turn of the active group that nothing disturbed, each server is      *)
(* chosen exactly as many times as its weight says.                          *)
FairTurn == turn.unfair = {}

(* The round robin is fair and complete: each server is in its tree, weighs  *)
(* what it should, gets its share of an undisturbed turn, and a request is   *)
(* refused for a reason only (fwrr_get_next_server()).                       *)
TurnsFair == TreesExact /\ GroupsExact /\ FairTurn /\ NoneReason
================================================================================
