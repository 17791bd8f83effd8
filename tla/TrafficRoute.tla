---------------------------- MODULE TrafficRoute -----------------------------
(***************************************************************************)
(* ensure_latest_traffic of scripts/reconcile_cloud_runtime.py: for one    *)
(* target after the other, find the candidate revision, verify it the way  *)
(* the mode demands, route the traffic to it and read that back.           *)
(*                                                                         *)
(* Between the steps another actor may deploy a revision and move the      *)
(* traffic of a target.  Only the adoption of an initial state carries a   *)
(* resource version; the other modes call gcloud, which has no condition.  *)
(***************************************************************************)
EXTENDS Naturals, Sequences, FiniteSets

CONSTANTS N   \* the number of services in the plan

Targets   == 1..N   \* in the order of the plan
Modes     == {"deploy", "env", "switch_on", "switch_off", "initial", "health"}
Revisions == {"base", "cand", "alien"}

VARIABLES
  mode,      \* what the run was asked to do
  svc,       \* each service: version, latest revision, routed and serving one
  health,    \* each candidate: "pending", "up", "cold" (retired) or "failed"
  same,      \* the targets whose candidate differs from the baseline as planned
  pc, at,    \* the step, and the target it is about
  read,      \* the service as first read, for the target at hand
  result,    \* "running", "ok", "raised"
  foreign,   \* history: the targets another actor has changed
  moved,     \* history: the targets this run has routed
  proof      \* history: the candidate's health when it was verified

cloud == <<svc, health, foreign>>
vars  == <<mode, cloud, same, pc, at, read, result, moved, proof>>

Service == [rv: 0..4, latest: Revisions, want: Revisions, have: Revisions]

TypeOK ==
  /\ mode \in Modes
  /\ svc \in [Targets -> Service]
  /\ health \in [Targets -> {"pending", "up", "cold", "failed"}]
  /\ pc \in {"read", "verify", "route", "wait", "confirm", "over"}
  /\ at \in Targets
  /\ read \in Service
  /\ result \in {"running", "ok", "raised"}
  /\ same \subseteq Targets /\ foreign \subseteq Targets /\ moved \subseteq Targets
  /\ proof \in [Targets -> {"none", "pending", "up", "cold", "failed"}]

Fresh == [rv |-> 0, latest |-> "cand", want |-> "base", have |-> "base"]

Init ==
  /\ mode \in Modes
  /\ svc = [t \in Targets |-> Fresh]
  /\ health \in [Targets -> {"pending", "up", "cold", "failed"}]
  /\ same \in {Targets, {}}
  /\ pc = "read" /\ at = 1 /\ read = Fresh /\ result = "running"
  /\ foreign = {} /\ moved = {}
  /\ proof = [t \in Targets |-> "none"]

\* The modes that bring evidence of the revision and service they start from.
WithBaseline == mode \in {"env", "switch_on", "switch_off", "initial"}

(***************************************************************************)
(* The world around the run.                                               *)
(***************************************************************************)

HealthChanges(t) ==
  /\ health' \in [Targets -> {"pending", "up", "cold", "failed"}]
  /\ \A u \in Targets \ {t} : health'[u] = health[u]
  /\ health[t] = "pending" /\ health'[t] # "pending"
  /\ UNCHANGED <<mode, svc, foreign, same, pc, at, read, result, moved, proof>>

\* Somebody else deploys and routes a revision of their own.
Foreign(t) ==
  /\ t \notin foreign
  /\ foreign' = foreign \cup {t}
  /\ svc' = [svc EXCEPT ![t] = [rv |-> @.rv + 1, latest |-> "alien",
                                want |-> "alien", have |-> "alien"]]
  /\ UNCHANGED <<mode, health, same, pc, at, read, result, moved, proof>>

\* An accepted replacement takes its time.
Land(t) ==
  /\ svc[t].have # svc[t].want
  /\ svc' = [svc EXCEPT ![t].have = svc[t].want]
  /\ UNCHANGED <<mode, health, foreign, same, pc, at, read, result, moved, proof>>

(***************************************************************************)
(* The run.                                                                *)
(***************************************************************************)

Raise ==
  /\ pc # "over"
  /\ pc' = "over" /\ result' = "raised"
  /\ UNCHANGED <<mode, cloud, same, at, read, moved, proof>>

\* Mutant: the baseline is not compared with the service.
AnyService(s) == TRUE

\* With a baseline: it has all the traffic, and the candidate is the latest.
Continues(s) == s.have = "base" /\ s.latest = "cand"

\* The service and its candidate are read. A candidate whose health alone is
\* asked for must be the latest and must not serve.
Read ==
  /\ pc = "read"
  /\ WithBaseline => Continues(svc[at])
  /\ mode = "health" => svc[at].latest = "cand" /\ svc[at].have # "cand"
  /\ read' = svc[at]
  /\ pc' = "verify"
  /\ UNCHANGED <<mode, cloud, same, at, result, moved, proof>>

\* Mutants: a cold candidate is good enough for a deployment; the comparison
\* with the baseline is skipped.
Started(t)    == health[t] \in {"up", "cold"}
AsPlanned(t)  == TRUE

\* verify_traffic_revision and its two waiters: a stop needs the identity only,
\* a switch or an environment change may leave a disabled service cold, a
\* deployment needs an instance that has started.
Fit(t) ==
  CASE mode = "switch_off"                      -> TRUE
    [] mode \in {"switch_on", "env", "initial"} -> health[t] \in {"up", "cold"}
    [] OTHER                                    -> health[t] = "up"

\* Nothing but the planned fields differs from the baseline.
OnlyPlanned(t) == WithBaseline => t \in same

\* Evidence of a baseline is about a single target.
Last == IF WithBaseline THEN 1 ELSE N

\* Mutant: the loop runs past its last target.
PastTheLast == pc' = "read" /\ at' = at + 1 /\ UNCHANGED result

NextTarget ==
  IF at < Last
  THEN pc' = "read" /\ at' = at + 1 /\ UNCHANGED result
  ELSE pc' = "over" /\ result' = "ok" /\ UNCHANGED at

\* A health-only run ends here, and a candidate that has all the traffic
\* already is confirmed without a write.
Verify ==
  /\ pc = "verify"
  /\ OnlyPlanned(at) /\ Fit(at)
  /\ proof' = [proof EXCEPT ![at] = health[at]]
  /\ IF mode = "health"
     THEN NextTarget
     ELSE /\ pc' = IF read.have = "cand" THEN "confirm" ELSE "route"
          /\ UNCHANGED <<at, result>>
  /\ UNCHANGED <<mode, cloud, same, read, moved>>

\* Mutant: the adoption carries no version.
Whatever(t) == TRUE

\* The resource version of the service as first read.
Unchanged(t) == svc[t].rv = read.rv

\* _adopt_initial_candidate: one conditional replacement, never repeated.
Adopt ==
  /\ pc = "route" /\ mode = "initial"
  /\ IF Unchanged(at)
     THEN /\ svc' = [svc EXCEPT ![at].rv = @ + 1, ![at].want = "cand"]
          /\ moved' = moved \cup {at}
          /\ pc' = "wait" /\ UNCHANGED result
     ELSE /\ pc' = "over" /\ result' = "raised"
          /\ UNCHANGED <<svc, moved>>
  /\ UNCHANGED <<mode, health, foreign, same, at, read, proof>>

\* gcloud run services update-traffic.
Route ==
  /\ pc = "route" /\ mode # "initial"
  /\ svc' = [svc EXCEPT ![at].rv = @ + 1, ![at].want = "cand", ![at].have = "cand"]
  /\ moved' = moved \cup {at}
  /\ pc' = "confirm"
  /\ UNCHANGED <<mode, health, foreign, same, at, read, result, proof>>

\* Mutant: a write that was accepted is taken for done.
Accepted(t) == svc[t].want = "cand"

\* _traffic_on_revision of a fresh reading.
Confirmed(t) == svc[t].have = "cand"

\* _wait_initial_traffic: any other revision in it raises.
Wait ==
  /\ pc = "wait"
  /\ svc[at].latest = "cand" /\ Confirmed(at)
  /\ NextTarget
  /\ UNCHANGED <<mode, cloud, same, read, moved, proof>>

Confirm ==
  /\ pc = "confirm"
  /\ Confirmed(at)
  /\ NextTarget
  /\ UNCHANGED <<mode, cloud, same, read, moved, proof>>

Next ==
  \/ Raise \/ Read \/ Verify \/ Adopt \/ Route \/ Wait \/ Confirm
  \/ \E t \in Targets : HealthChanges(t) \/ Foreign(t) \/ Land(t)

Spec == Init /\ [][Next]_vars

(***************************************************************************)
(* Properties.                                                             *)
(***************************************************************************)

\* Traffic is moved only to a candidate that was verified for what it is for:
\* an instance was seen for a deployment, nothing unplanned differs from the
\* baseline, and a run that only asks for health moves nothing.
Verified(t) ==
  /\ mode # "health"
  /\ mode = "deploy" => proof[t] = "up"
  /\ mode \in {"switch_on", "env", "initial"} => proof[t] \in {"up", "cold"}
  /\ WithBaseline => t \in same
RoutedAsVerified == \A t \in moved : Verified(t)

\* The adoption of an initial state never undoes what somebody else has
\* deployed since the service was read (the version in _adopt_initial_candidate).
AdoptionYields ==
  \A t \in Targets :
    mode = "initial" /\ svc[t].want = "alien" => svc'[t].want = "alien"

\* A target is touched only after every earlier one has been confirmed, and a
\* run that succeeds has routed all of them, but for what others changed.
InPlanOrder ==
  /\ \A t \in moved, u \in Targets : u < t => u \in moved \/ u \in foreign
  /\ result = "ok" /\ mode # "health" =>
       \A t \in 1..Last : svc[t].have = "cand" \/ t \in foreign

(***************************************************************************)
(* The inductive invariant behind them.                                    *)
(***************************************************************************)

Shaped ==
  /\ mode \in Modes /\ at \in 1..Last /\ moved \subseteq 1..at
  /\ DOMAIN svc = Targets /\ DOMAIN proof = Targets
  /\ \A t \in Targets : DOMAIN svc[t] = DOMAIN Fresh /\ svc[t].rv \in Nat
  /\ result = "ok" => pc = "over"

\* The target at hand is moved once it has been verified.
AtHand ==
  /\ at \in moved => pc \in {"wait", "confirm", "over"}
  /\ pc \in {"route", "wait", "confirm"} => Verified(at)

\* What nobody else has changed is where this run has put it.
OurOwn ==
  \A t \in Targets \ foreign :
    /\ svc[t].want = IF t \in moved THEN "cand" ELSE "base"
    /\ svc[t].have \in {"base", svc[t].want}

\* The earlier targets are confirmed; after a success, all of them.
Behind ==
  \A t \in 1..Last :
    t < at \/ result = "ok" => mode = "health" \/ svc[t].have = "cand" \/ t \in foreign

\* At the version that was read nobody else has changed the target: who does
\* deploys a revision.
SinceRead ==
  /\ foreign \subseteq {t \in Targets : svc[t].latest = "alien"}
  /\ mode = "initial" /\ pc \in {"verify", "route"} =>
       /\ read.rv \in Nat /\ read.rv <= svc[at].rv
       /\ svc[at].rv = read.rv => at \notin foreign
IInv == Shaped /\ AtHand /\ RoutedAsVerified /\ OurOwn /\ Behind /\ SinceRead
=============================================================================
