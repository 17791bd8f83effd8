--------------------------- MODULE RuntimeSwitch ----------------------------
(***************************************************************************)
(* What the configuration workflow does to one live service: the plan of a *)
(* sync or a switch (build_cloud_run_env_sync_plan.py), the update of the  *)
(* template, the traffic (reconcile_cloud_runtime.py), the scheduler jobs, *)
(* and the drift that is shown meanwhile (env_sync_drift_check.py).  Runs  *)
(* of the workflow never overlap; other workflows and people change the    *)
(* service and the jobs at any time, and a run may end at any step.        *)
(***************************************************************************)
EXTENDS Integers

CONSTANTS
  Inventories,  \* what the private inventory may ask for
  Dispatches,   \* bound: runs of the workflow
  Changes       \* bound: changes by others

\* RUNTIME_TARGET_ENABLED; the target without its digests, "late" is "active"
\* with another precheck time; IBKR_FORCE_RUN; one optional variable; a
\* variable that no plan names.
Configs == [on: {"on", "off", "unset"}, target: {"active", "late", "reconcile"}, force: BOOLEAN,
            opt: {"-", "entry", "override", "default"}, extra: BOOLEAN]

VARIABLES
  pc, kind,
  want,      \* the inventory the run was planned with
  base,      \* baseline-revision.json: the configuration that served at first
  cand,      \* the configuration of the revision of this run
  svc,       \* template, serving configuration, and which revisions those are
  same,      \* the resourceVersion is as it was last read
  theirs,    \* another has changed something since the run began
  main, pre, \* the jobs of /run and /dry-run are on
  noop,      \* the switch has its value already
  result,    \* runtime-switch-result.json, or how a sync ended
  left, changes

vars == <<pc, kind, want, base, cand, svc, same, theirs, main, pre, noop, result, left, changes>>

Kinds == {"stage", "sync", "full", "jobs", "switch"}

TypeOK ==
  /\ pc \in {"idle", "read", "check", "stop", "pause", "paused", "again", "update", "route", "shift", "verify",
             "sched", "unchanged", "set", "readback", "jobs", "pre", "done"}
  /\ kind \in Kinds /\ want \in Inventories /\ {base, cand} \subseteq Configs
  /\ svc \in [tmpl: Configs, serving: Configs, at: {"base", "cand", "other"}, latest: {"base", "cand", "other"}]
  /\ {same, theirs, main, pre, noop} \subseteq BOOLEAN
  /\ result \in {"", "unknown", "partial", "applied", "staged", "synced", "set"}
  /\ left \in 0..Dispatches /\ changes \in 0..Changes

----------------------------------------------------------------------------
(* The plan.                                                               *)

\* Nothing said is enabled.
Enabled(c) == c.on # "off"
Permits(c) == c.target # "reconcile"
ForcedLive(c) == Enabled(c) /\ c.force

\* An optional variable: the target's entry, its overrides, the strategy's default.
Layered(i) ==
  CASE i.entry -> "entry" [] ~i.entry /\ i.override -> "override"
    [] ~i.entry /\ ~i.override /\ i.default -> "default" [] OTHER -> "-"
\* What the plan sets is set, what it does not say is removed.
Set(c, i) == [c EXCEPT !.on = i.on, !.target = i.target, !.force = i.force, !.opt = Layered(i)]
\* Only what the plan sets.
SetOnly(c, i) ==
  [c EXCEPT !.on = i.on, !.target = i.target, !.force = c.force \/ i.force,
            !.opt = IF Layered(i) = "-" THEN c.opt ELSE Layered(i)]
Applied(c, i) == Set(c, i)

\* Any plan is fine.
AnyPlan(i) == TRUE
\* A live target is not forced; a drill is for a target that is disabled and
\* is to be reconciled.
Admitted(i) == ~ForcedLive(i) /\ (i.drill => ~Enabled(i) /\ ~Permits(i) /\ ~i.force)
\* A switch needs an explicit value, and looks at nothing else.
Plannable(k, i) == IF k = "switch" THEN i.on # "unset" ELSE Admitted(i)
Standard(i) == Enabled(i) /\ Permits(i)

\* When disabling, the precheck's time may differ.
SameTarget(actual, wanted, disabling) ==
  actual = wanted \/ (disabling /\ {actual, wanted} \subseteq {"active", "late"})
ValidSwitch(c, i) ==
  /\ c.on # "unset" /\ SameTarget(c.target, i.target, i.on = "off")
  /\ i.on = "on" => Standard(i)

\* The drift of the template.
TemplateDrift(s, i) == {k \in DOMAIN s.tmpl : Applied(s.tmpl, i)[k] # s.tmpl[k]}
\* What a sync would change of what serves.
Drift(s, i) == {k \in DOMAIN s.serving : Applied(s.serving, i)[k] # s.serving[k]}

Init ==
  /\ \E i \in Inventories :
       /\ Admitted(i) /\ want = i
       /\ base = Applied([on |-> "on", target |-> "active", force |-> FALSE, opt |-> "-", extra |-> FALSE], i)
       /\ main = Standard(i) /\ pre = i.drill
  /\ cand = base /\ svc = [tmpl |-> base, serving |-> base, at |-> "base", latest |-> "base"]
  /\ pc = "idle" /\ kind = "full" /\ same = TRUE /\ theirs = FALSE /\ noop = FALSE /\ result = ""
  /\ left = Dispatches /\ changes = Changes

At(p) == pc = p
Go(p) == pc' = p

----------------------------------------------------------------------------
(* The run.                                                                *)

\* The inventory is as its editors left it.  Without traffic nothing is read.
Dispatch ==
  /\ At("idle") /\ left > 0 /\ left' = left - 1
  /\ \E k \in Kinds, i \in Inventories :
       /\ Plannable(k, i) /\ kind' = k /\ want' = i
       /\ Go(CASE k = "stage" -> "update" [] k = "jobs" -> "jobs" [] OTHER -> "read")
  /\ theirs' = FALSE /\ noop' = FALSE /\ result' = "" /\ base' = svc.serving /\ cand' = svc.serving /\ same' = TRUE
  /\ UNCHANGED <<svc, main, pre, changes>>

Read ==
  /\ At("read") /\ base' = svc.serving /\ svc' = [svc EXCEPT !.at = "base", !.latest = "base"] /\ same' = TRUE
  /\ Go(IF kind = "switch" THEN "check" ELSE "update")
  /\ UNCHANGED <<kind, want, cand, theirs, main, pre, noop, result, left, changes>>

\* The scheduler is stopped when everything else is done.
SwitchFirst(i, done) == IF done THEN "sched" ELSE "again"
\* A service is disabled after its scheduler.
StopFirst(i, done) == IF i.on = "off" THEN "stop" ELSE IF done THEN "sched" ELSE "again"
Check ==
  /\ At("check") /\ ValidSwitch(base, want) /\ noop' = (base.on = want.on) /\ result' = "unknown"
  /\ Go(StopFirst(want, noop'))
  /\ UNCHANGED <<kind, want, base, cand, svc, same, theirs, main, pre, left, changes>>

Stop ==
  /\ At("stop") /\ same /\ Go("pause")
  /\ UNCHANGED <<kind, want, base, cand, svc, same, theirs, main, pre, noop, result, left, changes>>
Pause ==
  /\ At("pause") /\ main' = FALSE /\ Go("paused")
  /\ UNCHANGED <<kind, want, base, cand, svc, same, theirs, pre, noop, result, left, changes>>
\* The job is read again.
Paused ==
  /\ At("paused") /\ ~main /\ result' = "partial" /\ Go(IF noop THEN "sched" ELSE "again")
  /\ UNCHANGED <<kind, want, base, cand, svc, same, theirs, main, pre, noop, left, changes>>
Again ==
  /\ At("again") /\ same /\ Go("update")
  /\ UNCHANGED <<kind, want, base, cand, svc, same, theirs, main, pre, noop, result, left, changes>>

\* A switch updates its variable only.
Updated(c) == IF kind = "switch" THEN [c EXCEPT !.on = want.on] ELSE Applied(c, want)
Update ==
  /\ At("update") /\ cand' = Updated(svc.tmpl) /\ svc' = [svc EXCEPT !.tmpl = Updated(svc.tmpl), !.latest = "cand"]
  /\ same' = FALSE /\ Go(IF kind = "stage" THEN "idle" ELSE "route")
  /\ result' = IF kind = "stage" THEN "staged" ELSE result
  /\ UNCHANGED <<kind, want, base, theirs, main, pre, noop, left, changes>>

\* The switch has the value that is wanted.
SwitchOnly == cand.on = want.on
\* But for the switch it is what served; a sync looks at target and switch.
SwitchAlone ==
  /\ cand.on = want.on
  /\ IF kind = "switch" THEN [cand EXCEPT !.on = base.on] = base /\ SameTarget(cand.target, want.target, want.on = "off")
                        ELSE want.on # "unset" /\ cand.target = want.target
Route ==
  /\ At("route") /\ svc.at = "base" /\ svc.latest = "cand" /\ SwitchAlone /\ Go("shift")
  /\ UNCHANGED <<kind, want, base, cand, svc, same, theirs, main, pre, noop, result, left, changes>>
Shift ==
  /\ At("shift") /\ svc' = [svc EXCEPT !.serving = cand, !.at = "cand"] /\ same' = FALSE /\ Go("verify")
  /\ UNCHANGED <<kind, want, base, cand, theirs, main, pre, noop, result, left, changes>>
Verify ==
  /\ At("verify") /\ svc.at = "cand"
  /\ Go(CASE kind = "switch" -> "sched" [] kind = "full" -> "jobs" [] OTHER -> "idle")
  /\ result' = IF kind = "sync" THEN "synced" ELSE result
  /\ UNCHANGED <<kind, want, base, cand, svc, same, theirs, main, pre, noop, left, changes>>

\* The right revision serves, with the right values.
ServesWanted ==
  /\ svc.at = IF noop THEN "base" ELSE "cand"
  /\ ValidSwitch(svc.serving, want) /\ svc.serving.on = want.on
Sched ==
  /\ At("sched") /\ ServesWanted /\ same' = TRUE /\ Go("unchanged")
  /\ UNCHANGED <<kind, want, base, cand, svc, theirs, main, pre, noop, result, left, changes>>
\* Not compared.
NotCompared == TRUE
\* The service is as it was when it was checked.
Compared == same
Unchanged ==
  /\ At("unchanged") /\ Compared /\ same' = TRUE /\ Go("set")
  /\ UNCHANGED <<kind, want, base, cand, svc, theirs, main, pre, noop, result, left, changes>>
SetJob ==
  /\ At("set") /\ main' = (want.on = "on") /\ Go("readback")
  /\ UNCHANGED <<kind, want, base, cand, svc, same, theirs, pre, noop, result, left, changes>>
\* The job is read again.
Readback ==
  /\ At("readback") /\ main = (want.on = "on") /\ result' = "applied" /\ Go("idle")
  /\ UNCHANGED <<kind, want, base, cand, svc, same, theirs, main, pre, noop, left, changes>>

\* All jobs are on.
EveryJob == Enabled(want)
\* The job of /run is for targets that may execute.
ApprovedJob == Standard(want)
SyncMain ==
  /\ At("jobs") /\ main' = ApprovedJob /\ Go("pre")
  /\ UNCHANGED <<kind, want, base, cand, svc, same, theirs, pre, noop, result, left, changes>>
SyncPre ==
  /\ At("pre") /\ main = ApprovedJob /\ pre' = want.drill /\ Go("done")
  /\ UNCHANGED <<kind, want, base, cand, svc, same, theirs, main, noop, result, left, changes>>
Synced ==
  /\ At("done") /\ pre = want.drill /\ Go("idle") /\ result' = IF kind = "full" THEN "synced" ELSE "set"
  /\ UNCHANGED <<kind, want, base, cand, svc, same, theirs, main, pre, noop, left, changes>>

\* A command fails, a check refuses, the run is cancelled.
Fail ==
  /\ ~At("idle") /\ Go("idle")
  /\ UNCHANGED <<kind, want, base, cand, svc, same, theirs, main, pre, noop, result, left, changes>>

\* Another one stages a variable, moves the traffic to the latest revision, or
\* switches a job.
Other ==
  /\ changes > 0 /\ changes' = changes - 1 /\ theirs' = TRUE
  /\ \/ /\ svc' = [svc EXCEPT !.tmpl.extra = ~svc.tmpl.extra, !.latest = "other"] /\ same' = FALSE
        /\ UNCHANGED <<main, pre>>
     \/ /\ svc' = [svc EXCEPT !.serving = svc.tmpl, !.at = "other"] /\ same' = FALSE /\ UNCHANGED <<main, pre>>
     \/ main' = ~main /\ UNCHANGED <<svc, same, pre>>
     \/ pre' = ~pre /\ UNCHANGED <<svc, same, main>>
  /\ UNCHANGED <<pc, kind, want, base, cand, noop, result, left>>

Next ==
  \/ Dispatch \/ Read \/ Check \/ Stop \/ Pause \/ Paused \/ Again \/ Update \/ Route \/ Shift \/ Verify
  \/ Sched \/ Unchanged \/ SetJob \/ Readback \/ SyncMain \/ SyncPre \/ Synced \/ Fail \/ Other

Spec == Init /\ [][Next]_vars

----------------------------------------------------------------------------
(* Properties.                                                             *)

\* A result says what is so: "partial" that the scheduler is stopped, "applied"
\* that job and serving revision are switched, as long as nobody else changes
\* them; a sync that ended, that what serves and the jobs are as the inventory
\* says.
ResultTrue ==
  ~theirs =>
    /\ result = "partial" => ~main
    /\ result = "applied" => main = (want.on = "on") /\ svc.serving.on = want.on
    /\ result = "synced" => /\ svc.serving.force = want.force /\ svc.serving.opt = Layered(want)
                            /\ svc.serving.on = want.on /\ svc.serving.target = want.target
                            /\ kind = "full" => main = Standard(want) /\ pre = want.drill

\* Whoever changed what: no drift is shown only of a service that serves what
\* the inventory says.
NoDriftIsTrue ==
  Drift(svc, want) = {} =>
    /\ svc.serving.force = want.force /\ svc.serving.opt = Layered(want)
    /\ svc.serving.on = want.on /\ svc.serving.target = want.target

\* A switch routes what served before but for the switch, nothing that was
\* staged in the template, and stops the scheduler before the service.
SwitchedAlone ==
  (kind = "switch" /\ svc.at # "cand" /\ svc'.at = "cand") =>
    /\ svc'.serving = [base EXCEPT !.on = want.on]
    /\ want.on = "off" /\ ~theirs => ~main

\* A scheduler is resumed by a switch when what serves is enabled and may
\* execute, if nobody changed that since it was compared.
ResumedWhenServing ==
  (kind = "switch" /\ At("set") /\ pc' = "readback" /\ same /\ ~main /\ main') => svc.serving.on = "on" /\ Permits(svc.serving)

\* No sync routes a live configuration that is forced to run on closed days.
NeverForcedLive == (kind # "switch" /\ svc.at # "cand" /\ svc'.at = "cand") => ~ForcedLive(svc'.serving)

(***************************************************************************)
(* The inductive invariant behind the last three: what is routed or        *)
(* resumed was compared, and nothing else has moved since.                 *)
(***************************************************************************)

Whole(c) == c = [on |-> c.on, target |-> c.target, force |-> c.force, opt |-> c.opt, extra |-> c.extra]
IInv ==
  /\ Whole(base) /\ Whole(cand) /\ DOMAIN svc = {"tmpl", "serving", "at", "latest"}
  /\ Whole(svc.tmpl) /\ Whole(svc.serving)
  /\ kind # "switch" => Admitted(want)
  /\ (kind # "switch" /\ pc \in {"route", "shift"}) => cand.on = want.on /\ cand.force = want.force
  /\ pc = "shift" => SwitchAlone
  /\ (kind = "switch" /\ want.on = "off" /\ ~theirs /\ pc \in {"paused", "again", "update", "route", "shift"}) => ~main
  /\ pc \in {"check", "stop", "pause", "paused", "again"} => kind = "switch"
  /\ (pc \in {"unchanged", "set"} /\ same) => ServesWanted

\* The one behind ResultTrue: what a run has done so far, if nobody else was at
\* it.
ServesPlan(c) == c.on = want.on /\ c.target = want.target /\ c.force = want.force /\ c.opt = Layered(want)
Done ==
  /\ pc \in {"stop", "pause", "paused"} => want.on = "off"
  /\ pc \in {"jobs", "pre", "done"} => kind \in {"full", "jobs"}
  /\ pc \in {"check", "stop", "pause", "paused", "again", "sched", "unchanged", "set", "readback"} => kind = "switch"
  /\ result = "partial" => kind = "switch" /\ want.on = "off"
  /\ result \in {"applied", "synced"} => pc = "idle"
  /\ kind # "switch" /\ pc \in {"route", "shift", "verify"} => ServesPlan(cand)
  /\ ~theirs =>
       /\ pc = "verify" => svc.serving = cand
       /\ pc \in {"unchanged", "set", "readback"} => svc.serving.on = want.on
       /\ kind = "full" /\ pc \in {"jobs", "pre", "done"} => ServesPlan(svc.serving)
       /\ pc \in {"pre", "done"} => main = Standard(want)
       /\ pc = "done" => pre = want.drill
  /\ ResultTrue
=============================================================================
