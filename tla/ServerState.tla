---------------------------- MODULE ServerState ----------------------------
(***************************************************************************)
(* The state of the servers of a backend: what health checks, the agent,   *)
(* the administrator and the servers they track make of it                 *)
(* (src/src/server.c, src/src/checks.c, and the load balancer's view of it *)
(* in src/include/proto/backend.h).  Everything on a server happens under  *)
(* its lock; while a change is propagated its lock is kept and the locks   *)
(* of the servers that track it are taken one after the other, so that     *)
(* their own changes interleave.  A server record holds cur_ and next_     *)
(* state, admin flags and effective weight (cs, ns, ca, na, cw, nw), the   *)
(* user weight (uw), whether the slow start interval has elapsed since     *)
(* last_change (aged), whether the load balancer has it (lb), and the      *)
(* health check and the agent check (chk, agt).                            *)
(***************************************************************************)
EXTENDS Naturals, FiniteSets, Sequences

CONSTANTS
    VServers,     \* servers
    Track,        \* the server each one tracks, or "none"; chains have one link
    Slow,         \* those with a slow start
    Checked,      \* those with health checks configured
    Agented,      \* those with an agent
    Rise, Fall,   \* of the health checks
    ARise, AFall, \* of the agent
    VOps,         \* administrative operations used, by server
    MaxAdmin,     \* bound on their number
    OnError       \* what consecutive errors do to an observed server (s->onerror), or "none"

ASSUME VAssumption ==
    /\ IsFiniteSet(VServers)
    /\ {Rise, Fall, ARise, AFall} \subseteq Nat \ {0}

VARIABLES
    server,       \* the servers
    vcalls,       \* per server whose lock is kept: the calls still to be made
    vadmin,       \* administrative operations so far
    vpast         \* history: <<server, what happened to its check>>

vVars == <<server, vcalls, vadmin, vpast>>

Maint == {"FMAINT", "IMAINT", "RMAINT"}
Drain == {"FDRAIN", "IDRAIN"}
ChkFull == Rise + Fall - 1
AgtFull == ARise + AFall - 1

trackers(s) == {t \in VServers : Track[t] = s}
tracker_seq(s) == CHOOSE q \in [1 .. Cardinality(trackers(s)) -> trackers(s)] :
                    \A t \in trackers(s) : \E i \in DOMAIN q : q[i] = t

idle_check(on) == [en |-> on, pa |-> FALSE, hl |-> 0, ip |-> FALSE, res |-> "unknown", l7 |-> FALSE]

VInit ==
    /\ server = [s \in VServers |->
         [cs |-> "RUNNING", ns |-> "RUNNING", ca |-> {}, na |-> {}, cw |-> 2, nw |-> 2, uw |-> 1,
          aged |-> TRUE, lb |-> TRUE,
          chk |-> [idle_check(s \in Checked) EXCEPT !.hl = Rise],
          agt |-> [idle_check(s \in Agented) EXCEPT !.hl = ARise]]]
    /\ vcalls = [s \in VServers |-> <<>>]
    /\ vadmin = 0
    /\ vpast = {}

(* srv_currently_usable(), srv_willbe_usable() *)
usable(st, ad, w) == w > 0 /\ ad \cap (Maint \cup Drain) = {} /\ st \in {"STARTING", "RUNNING"}
is_usable(r) == usable(r.cs, r.ca, r.cw)
will_be(r) == usable(r.ns, r.na, r.nw)

srv_lb_status_changed(r) == r.ns # r.cs \/ r.na # r.ca \/ r.nw # r.cw
srv_lb_commit_status(r) == [r EXCEPT !.cs = r.ns, !.ca = r.na, !.cw = r.nw]

(* What the load balancer does when it is told of a change; a server enters *)
(* or leaves its trees on a transition only.                                *)
set_server_status_down(r) ==
    IF ~ srv_lb_status_changed(r) THEN r
    ELSE [srv_lb_commit_status(r) EXCEPT !.lb = IF ~ will_be(r) /\ is_usable(r) THEN FALSE ELSE @]

update_server_eweight(r) ==
    IF ~ srv_lb_status_changed(r) THEN r
    ELSE [srv_lb_commit_status(r) EXCEPT
            !.lb = IF will_be(r) # is_usable(r) THEN will_be(r) ELSE @]

(* server_recalc_eweight(): a slow start ends with its interval. *)
server_recalc_eweight(r, slow) ==
    LET ns == IF r.ns = "STARTING" /\ (r.aged \/ ~ slow) THEN "RUNNING" ELSE r.ns
    IN [r EXCEPT !.ns = ns, !.nw = IF r.uw = 0 THEN 0 ELSE IF ns = "STARTING" THEN 1 ELSE 2]

(* srv_update_status(), pending state changes first: they are applied as if *)
(* no administrative change were pending.                                   *)
apply_state(r, slow) ==
    LET r0 == [r EXCEPT !.na = r.ca]
        r1 == [r0 EXCEPT !.aged = FALSE]
        r2 == IF r.cs # "STOPPED" /\ r.ns = "STOPPED" THEN set_server_status_down(r1)
              ELSE IF r.cs # "STOPPING" /\ r.ns = "STOPPING" THEN set_server_status_down(r1)
              ELSE IF r.ns \in {"RUNNING", "STARTING"} /\ r.cs # r.ns
                   THEN update_server_eweight(server_recalc_eweight(r1, slow))
              ELSE IF r.cw # r.nw THEN update_server_eweight(r0)
              ELSE r0
    IN IF r.ca \cap Maint = {} THEN [r2 EXCEPT !.na = r.na] ELSE r

enter_maint(r) ==
    LET r1 == IF r.chk.en THEN [r EXCEPT !.chk.pa = TRUE, !.chk.hl = 0] ELSE r
    IN IF r.cs = "STOPPED" THEN [r1 EXCEPT !.ca = r.na]
       ELSE set_server_status_down([r1 EXCEPT !.chk.hl = 0, !.aged = FALSE, !.ns = "STOPPED"])

checks_pass(r) ==
    /\ r.agt.en => r.agt.hl >= ARise
    /\ r.chk.en => r.chk.hl >= Rise

(* The server is back up unless the server it tracks or its checks say no. *)
leave_maint(r, slow, tns) ==
    LET r1 == IF r.chk.en THEN [r EXCEPT !.chk.pa = FALSE, !.chk.hl = Rise] ELSE r
        r2 == IF tns = "STOPPED" \/ ~ checks_pass(r1) THEN r1
              ELSE [r1 EXCEPT !.ns = IF tns = "STOPPING" THEN "STOPPING"
                                     ELSE IF slow THEN "STARTING" ELSE "RUNNING"]
    IN update_server_eweight(server_recalc_eweight(r2, slow))

(* A mutant: the end of the drain is not told to the load balancer. *)
apply_drain_silent(r, slow) ==
    IF r.na \cap Maint # {} THEN r
    ELSE IF r.ca \cap Drain = {} /\ r.na \cap Drain # {}
         THEN set_server_status_down([r EXCEPT !.aged = FALSE])
    ELSE [r EXCEPT !.ca = r.na]

apply_drain(r, slow) ==
    IF r.na \cap Maint # {} THEN r
    ELSE IF r.ca \cap Drain = {} /\ r.na \cap Drain # {}
         THEN set_server_status_down([r EXCEPT !.aged = FALSE])
    ELSE IF r.ca \cap Drain # {} /\ r.na \cap Drain = {}
         THEN update_server_eweight(server_recalc_eweight([r EXCEPT !.aged = FALSE], slow))
    ELSE IF r.na \cap Drain # {} THEN [r EXCEPT !.ca = r.na]
    ELSE r

srv_update_status(r, slow, tns) ==
    LET r1 == apply_state(r, slow)
        r2 == IF r1.ca \cap Maint = {} /\ r1.na \cap Maint # {} THEN enter_maint(r1)
              ELSE IF r1.ca \cap Maint # {} /\ r1.na \cap Maint = {} THEN leave_maint(r1, slow, tns)
              ELSE IF r1.na \cap Maint # {} THEN [r1 EXCEPT !.ca = r1.na]
              ELSE r1
    IN apply_drain(r2, slow)

-----------------------------------------------------------------------------
slow_start(s) == s \in Slow
tracked_state(s) == IF Track[s] = "none" THEN "none" ELSE server[Track[s]].ns

update(s, r) == srv_update_status(r, slow_start(s), tracked_state(s))

(* A call is <<function, flag, server>>: srv_set_stopped(), _running() and  *)
(* _stopping(), srv_set_admin_flag() and srv_clr_admin_flag().  refused is  *)
(* the test each starts with, called the record it leaves, and passed_on    *)
(* the call its trackers get, if any.                                       *)
refused(c, r) ==
    CASE c[1] = "stopped"  -> r.ca \cap Maint # {} \/ r.ns = "STOPPED"
      [] c[1] = "running"  -> r.ca \cap Maint # {} \/ r.ns \in {"STARTING", "RUNNING"}
      [] c[1] = "stopping" -> r.ca \cap Maint # {} \/ r.ns = "STOPPING"
      [] c[1] = "set"      -> c[2] \in r.na
      [] c[1] = "clr"      -> c[2] \notin r.na

called(c, r) ==
    CASE c[1] = "stopped"  -> update(c[3], [r EXCEPT !.ns = "STOPPED"])
      [] c[1] = "running"  -> update(c[3], [r EXCEPT !.ns = IF slow_start(c[3]) THEN "STARTING" ELSE "RUNNING"])
      [] c[1] = "stopping" -> update(c[3], [r EXCEPT !.ns = "STOPPING"])
      [] c[1] = "set"      -> update(c[3], [r EXCEPT !.na = @ \cup {c[2]}])
      [] c[1] = "clr"      -> update(c[3], [r EXCEPT !.na = @ \ {c[2]}])

same_kind(flag) == IF flag \in Maint THEN Maint ELSE Drain
inherited(flag) == IF flag \in Maint THEN "IMAINT" ELSE "IDRAIN"

(* The servers behind are told unless they know already. *)
goes_down(c, r) ==
    c[1] \in {"set", "clr"} => r.na \cap (same_kind(c[2]) \ {c[2]}) = {}

passed_on(c, r) ==
    IF ~ goes_down(c, r) THEN <<>>
    ELSE LET ts == tracker_seq(c[3])
             fl == IF c[2] = "none" THEN "none" ELSE inherited(c[2])
         IN [i \in 1..Len(ts) |-> <<c[1], fl, ts[i]>>]

(* With the lock of h, and its record already made r: the first of the      *)
(* calls cs, the others being left for later steps.                         *)
perform(h, r, cs) ==
    LET srv == [server EXCEPT ![h] = r]
        c   == Head(cs)
        was == srv[c[3]]
    IN IF cs = <<>> THEN server' = srv /\ vcalls' = [vcalls EXCEPT ![h] = <<>>]
       ELSE IF refused(c, was)
       THEN server' = srv /\ vcalls' = [vcalls EXCEPT ![h] = Tail(cs)]
       ELSE \E now \in {called(c, was)} :
              /\ server' = [srv EXCEPT ![c[3]] = now]
              /\ vcalls' = [vcalls EXCEPT ![h] = passed_on(c, now) \o Tail(cs)]

unlocked(s) == vcalls[s] = <<>>

Command(s) == unlocked(s) /\ vadmin < MaxAdmin /\ vadmin' = vadmin + 1

(* The lock of s is kept: the next of the calls. *)
Propagate(s) ==
    /\ ~ unlocked(s)
    /\ perform(s, server[s], vcalls[s])
    /\ UNCHANGED <<vadmin, vpast>>

-----------------------------------------------------------------------------
(* srv_adm_set_maint(), _drain() and _ready(), and what name resolution     *)
(* does with RMAINT.                                                        *)
admin_calls(op, s) ==
    CASE op = "maint"   -> <<<<"set", "FMAINT", s>>, <<"clr", "FDRAIN", s>>>>
      [] op = "drain"   -> <<<<"set", "FDRAIN", s>>, <<"clr", "FMAINT", s>>>>
      [] op = "ready"   -> <<<<"clr", "FDRAIN", s>>, <<"clr", "FMAINT", s>>>>
      [] op = "lost"    -> <<<<"set", "RMAINT", s>>>>
      [] op = "resolved" -> <<<<"clr", "RMAINT", s>>>>

AdminState(s) ==
    /\ Command(s)
    /\ \E op \in VOps[s] \cap {"maint", "drain", "ready", "lost", "resolved"} :
          perform(s, server[s], admin_calls(op, s))
    /\ UNCHANGED vpast

(* "set server health" and "set server agent" *)
AdminHealth(s) ==
    /\ Command(s)
    /\ \/ /\ "health" \in VOps[s]
          /\ Track[s] = "none"
          /\ \/ perform(s, [server[s] EXCEPT !.chk.hl = ChkFull], <<<<"running", "none", s>>>>)
             \/ perform(s, [server[s] EXCEPT !.chk.hl = ChkFull], <<<<"stopping", "none", s>>>>)
             \/ perform(s, [server[s] EXCEPT !.chk.hl = 0], <<<<"stopped", "none", s>>>>)
       \/ /\ "agent" \in VOps[s]
          /\ server[s].agt.en
          /\ \/ perform(s, [server[s] EXCEPT !.agt.hl = AgtFull], <<<<"running", "none", s>>>>)
             \/ perform(s, [server[s] EXCEPT !.agt.hl = 0], <<<<"stopped", "none", s>>>>)
    /\ UNCHANGED vpast

(* "enable" and "disable health" and "agent": nothing but the bit.          *)
AdminCheck(s) ==
    /\ Command(s)
    /\ \/ /\ "switch" \in VOps[s]
          /\ s \in Checked
          /\ server' = [server EXCEPT ![s].chk.en = ~ @]
          /\ vpast' = IF server[s].chk.en /\ server[s].ca \cap Maint # {}
                      THEN vpast \cup {<<s, "disabled">>} ELSE vpast
       \/ /\ "switchagent" \in VOps[s]
          /\ s \in Agented
          /\ server' = [server EXCEPT ![s].agt.en = ~ @]
          /\ UNCHANGED vpast
    /\ UNCHANGED vcalls

(* server_parse_weight_change_request(): the user weight becomes null or not. *)
SetWeight(s) ==
    /\ Command(s)
    /\ "weight" \in VOps[s]
    /\ server' = [server EXCEPT ![s] =
                    update(s, server_recalc_eweight([server[s] EXCEPT !.uw = 1 - @], slow_start(s)))]
    /\ UNCHANGED <<vcalls, vpast>>

(* server_warmup(); its test of the state is made before the lock, hence    *)
(* may no longer be true.                                                   *)
Warmup(s) ==
    /\ unlocked(s)
    /\ slow_start(s)
    /\ server' = [server EXCEPT ![s] = update(s, server_recalc_eweight(@, TRUE))]
    /\ UNCHANGED <<vcalls, vadmin, vpast>>

SlowStartOver(s) ==
    /\ slow_start(s)
    /\ ~ server[s].aged
    /\ server' = [server EXCEPT ![s].aged = TRUE]
    /\ UNCHANGED <<vcalls, vadmin, vpast>>

-----------------------------------------------------------------------------
(* set_server_check_status(): the result of check c, and what it makes of   *)
(* its health.  Failing to reach the agent (not counted) costs nothing.     *)
set_check_status(c, res, rise, full, counted) ==
    LET hl == CASE res = "failed" /\ counted /\ c.hl > 0 -> IF c.hl - 1 < rise THEN 0 ELSE c.hl - 1
                [] res \in {"passed", "condpass"} /\ c.hl < full /\ (res = "passed" \/ c.hl > 0) ->
                     IF c.hl + 1 >= rise THEN full ELSE c.hl + 1
                [] OTHER -> c.hl
    IN [c EXCEPT !.res = res, !.hl = hl]

(* check_notify_failure(), _success() and _stopping(): the calls the result *)
(* of the check of r (the agent's if agent) leads to.                       *)
agrees(r, tns) == r.na \cap Maint = {} /\ tns # "STOPPED" /\ checks_pass(r)

(* A mutant: the success of the agent does not bring the server back. *)
notify_agent_not(s, r, c, agent) ==
    CASE c.res = "failed" /\ (agent => c.l7) /\ c.hl = 0 -> <<<<"stopped", "none", s>>>>
      [] c.res = "passed" /\ agrees(r, tracked_state(s)) /\ ~ agent -> <<<<"running", "none", s>>>>
      [] c.res = "condpass" /\ agrees(r, tracked_state(s)) /\ ~ agent -> <<<<"stopping", "none", s>>>>
      [] OTHER -> <<>>

notify(s, r, c, agent) ==
    CASE c.res = "failed" /\ (agent => c.l7) /\ c.hl = 0 -> <<<<"stopped", "none", s>>>>
      [] c.res = "passed" /\ agrees(r, tracked_state(s)) /\ (agent => r.ns # "STOPPING") ->
           <<<<"running", "none", s>>>>
      [] c.res = "condpass" /\ agrees(r, tracked_state(s)) /\ ~ agent -> <<<<"stopping", "none", s>>>>
      [] OTHER -> <<>>

(* process_chk_conn(): a check is started when enabled and not paused. *)
StartCheck(s) ==
    /\ unlocked(s)
    /\ \/ /\ ~ server[s].chk.ip /\ server[s].chk.en /\ ~ server[s].chk.pa
          /\ server' = [server EXCEPT ![s].chk.ip = TRUE, ![s].chk.res = "unknown"]
       \/ /\ ~ server[s].agt.ip /\ server[s].agt.en
          /\ server' = [server EXCEPT ![s].agt.ip = TRUE, ![s].agt.res = "unknown"]
    /\ UNCHANGED <<vcalls, vadmin, vpast>>

(* wake_srv_chk() and tcpcheck_main(): the health check has its result.     *)
(* Only a server which is not down may be asked to stop (404).              *)
CheckResult(s) ==
    /\ unlocked(s)
    /\ server[s].chk.ip /\ server[s].chk.res = "unknown"
    /\ \E res \in {"passed", "failed", "condpass"} :
          /\ res = "condpass" => server[s].ns # "STOPPED"
          /\ server' = [server EXCEPT ![s].chk = set_check_status(@, res, Rise, ChkFull, TRUE)]
    /\ UNCHANGED <<vcalls, vadmin, vpast>>

(* tcpcheck_agent_expect_reply(): "up" and "down" also decide the health of *)
(* the server; a reply without either says nothing.  The whole reply is     *)
(* ignored once the agent is disabled.                                      *)
AgentReply(s) ==
    /\ unlocked(s)
    /\ server[s].agt.ip /\ server[s].agt.res = "unknown" /\ server[s].agt.en
    /\ \E up \in BOOLEAN :
         \/ server' = [server EXCEPT
                ![s].chk.hl = IF up THEN ChkFull ELSE 0,
                ![s].agt = [set_check_status(@, IF up THEN "passed" ELSE "failed", ARise, AgtFull, TRUE)
                              EXCEPT !.l7 = TRUE]]
         \/ server' = [server EXCEPT ![s].agt.res = "neutral", ![s].agt.l7 = FALSE]
    /\ UNCHANGED <<vcalls, vadmin, vpast>>

(* The result of a check that is over is not looked at again. *)
over(c) == [c EXCEPT !.ip = FALSE, !.res = "unknown", !.l7 = FALSE]

(* process_chk_conn() again: the check is over, or has timed out.           *)
EndCheck(s) ==
    /\ unlocked(s)
    /\ server[s].chk.ip
    /\ LET c == IF server[s].chk.res # "unknown" THEN server[s].chk
                ELSE set_check_status(server[s].chk, "failed", Rise, ChkFull, TRUE)
           r == [server[s] EXCEPT !.chk = over(c)]
       IN perform(s, r, notify(s, r, c, FALSE))
    /\ UNCHANGED <<vadmin, vpast>>

EndAgent(s) ==
    /\ unlocked(s)
    /\ server[s].agt.ip
    /\ LET c == IF server[s].agt.res # "unknown" THEN server[s].agt
                ELSE [server[s].agt EXCEPT !.res = "failed", !.l7 = FALSE]
           r == [server[s] EXCEPT !.agt = over(c)]
       IN perform(s, r, notify(s, r, c, TRUE))
    /\ UNCHANGED <<vadmin, vpast>>

(* __health_adjust(): enough consecutive errors were seen in the traffic.   *)
Observed(s) ==
    /\ unlocked(s)
    /\ s \in Checked /\ OnError # "none"
    /\ LET c == CASE OnError = "sudden-death" /\ server[s].chk.hl > Rise -> [server[s].chk EXCEPT !.hl = Rise + 1]
                  [] OnError = "mark-down" -> [server[s].chk EXCEPT !.hl = Rise]
                  [] OTHER -> server[s].chk
           f == set_check_status(c, "failed", Rise, ChkFull, TRUE)
           r == [server[s] EXCEPT !.chk = IF f.ip THEN f ELSE over(f)]
       IN perform(s, r, notify(s, r, f, FALSE))
    /\ vpast' = IF server[s].chk.ip /\ server[s].chk.res \in {"passed", "condpass"}
                THEN vpast \cup {<<s, "observed">>} ELSE vpast
    /\ UNCHANGED vadmin

VNext ==
    \E s \in VServers :
        \/ Propagate(s) \/ AdminState(s) \/ AdminHealth(s) \/ AdminCheck(s) \/ SetWeight(s)
        \/ Warmup(s) \/ SlowStartOver(s) \/ StartCheck(s) \/ CheckResult(s) \/ AgentReply(s)
        \/ EndCheck(s) \/ EndAgent(s) \/ Observed(s)

VSpec == VInit /\ [][VNext]_vVars

-----------------------------------------------------------------------------
(* Once srv_update_status() is done with a server, its state and admin      *)
(* flags are those decided, the weight too out of maintenance, and the load *)
(* balancer has the server exactly if it is usable: no order of state,      *)
(* maintenance, drain and weight changes leaves one of them behind.         *)
LbExact ==
    \A s \in VServers :
        LET r == server[s]
        IN /\ r.cs = r.ns /\ r.ca = r.na
           /\ r.ca \cap Maint = {} => r.cw = r.nw
           /\ r.lb = is_usable(r)

(* Nothing that the lock of the tracked server protects is still on its way. *)
told(s) == Track[s] # "none" /\ unlocked(Track[s])

(* A server inherits maintenance and drain from the server it tracks, as    *)
(* long as and no longer than that server has a reason of its own, whatever *)
(* is done to both at the same time (srv_set_admin_flag(), _clr_).          *)
AdminInherited ==
    \A s \in VServers : told(s) =>
        LET t == server[Track[s]]
        IN /\ "IMAINT" \in server[s].na <=> t.na \cap Maint # {}
           /\ "IDRAIN" \in server[s].na <=> t.na \cap Drain # {}

(* A server without checks of its own is down whenever the server it tracks *)
(* is ("track && track->state == STOPPED" of check_notify_success()), and   *)
(* out of maintenance it is up, stopping or down with it.                   *)
TrackersFollow ==
    \A s \in VServers : told(s) /\ s \notin Checked \cup Agented =>
        LET t == server[Track[s]]
            kind(st) == IF st = "STARTING" THEN "RUNNING" ELSE st
        IN IF server[s].ca \cap Maint # {} THEN server[s].ns = "STOPPED"
           ELSE kind(server[s].ns) = kind(t.ns)

(* A server that is down has a reason to be: maintenance, the server it     *)
(* tracks, a health or an agent below its rise, or the result of a check    *)
(* that is still to be handled.  No interleaving of checks, agent replies   *)
(* and commands loses the way up.  An error observed between the success of *)
(* a check and its handling does: the success is then handled as a failure. *)
DownReason ==
    \A s \in VServers :
        LET r == server[s]
        IN r.ns = "STOPPED" /\ unlocked(s) /\ (Track[s] = "none" \/ told(s)) =>
             \/ r.ca \cap Maint # {}
             \/ tracked_state(s) = "STOPPED"
             \/ r.chk.hl < Rise \/ r.agt.hl < ARise
             \/ r.chk.ip \/ r.agt.ip
             \/ <<s, "observed">> \in vpast

(* Out of maintenance the health checks are not paused, unless they were    *)
(* disabled while the server was in maintenance.                            *)
PausedReason ==
    \A s \in VServers :
        server[s].chk.pa => server[s].ca \cap Maint # {} \/ <<s, "disabled">> \in vpast

(* The states, the flags and the health counters of the servers keep their   *)
(* types: check_notify_success() and _failure() stay in their ranges.       *)
VTypeOK ==
    /\ \A s \in VServers :
         /\ server[s].cs \in {"STOPPED", "STARTING", "RUNNING", "STOPPING"}
         /\ server[s].ns \in {"STOPPED", "STARTING", "RUNNING", "STOPPING"}
         /\ server[s].ca \subseteq Maint \cup Drain /\ server[s].na \subseteq Maint \cup Drain
         /\ server[s].chk.hl \in 0..ChkFull /\ server[s].agt.hl \in 0..AgtFull
    /\ vpast \subseteq VServers \X {"disabled", "observed"}

(* After srv_update_status() all that was decided of a server is applied, to *)
(* the server and to the load balancer.                                      *)
StatusApplied == VTypeOK /\ LbExact

(* A server is as the server it tracks, its checks, its agent and its        *)
(* operator make it, and is down or unchecked for a reason.                  *)
StatesExplained == AdminInherited /\ TrackersFollow /\ DownReason /\ PausedReason
=============================================================================
