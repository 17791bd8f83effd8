---------------------------- MODULE PinnedRelease ----------------------------
(***************************************************************************)
(* The releases that add a revision and never move traffic, and the two    *)
(* readings that go with them:                                             *)
(*   "replace"   scripts/deploy_notification_only.py, release: the whole   *)
(*               service is replaced, at the resource version read first;  *)
(*   "update"    scripts/deploy_pilot_no_traffic.py, release: gcloud run   *)
(*               services update --image --no-traffic;                     *)
(*   "readback"  readback_only: the revision of an earlier "replace";      *)
(*   "binding"   binding_prepare_only: the variables a later release may   *)
(*               add, prepared from one reading.                           *)
(* Others change configuration and traffic at any time.  A call may fail   *)
(* before or after its effect.                                             *)
(***************************************************************************)
EXTENDS Naturals

CONSTANT Changes   \* bound: how often others change the configuration

Modes == {"replace", "update", "readback", "binding"}

VARIABLES
  svc,      \* the service
  cand,     \* the candidate: "absent", "starting", "ready", "failed"
  config,   \* the configuration the candidate was made of
  mode,
  pc,
  before,   \* the service read first
  bound,    \* the notification variables bound already: none, as wanted, otherwise
  out       \* the receipt

vars == <<svc, cand, config, mode, pc, before, bound, out>>

\* The template's configuration but the image, whether its image is the new
\* one, who serves, whether traffic follows the latest revision, the version.
Service == [config: 0..Changes, new: BOOLEAN, serving: {"orig", "cand", "other"},
            follows: BOOLEAN, rv: Nat]
Receipt == [status: {"none", "stopped", "pass", "prepared"},
            pushed: {"no", "attempted", "completed"}, written: {"no", "attempted", "completed"}]

TypeOK ==
  /\ svc \in Service /\ before \in Service
  /\ cand \in {"absent", "starting", "ready", "failed"} /\ config \in 0..Changes
  /\ mode \in Modes
  /\ pc \in {"read", "admit", "build", "compare", "write", "wait", "verify", "over"}
  /\ bound \in {"absent", "wanted", "conflict"}
  /\ out \in Receipt

Init ==
  /\ mode \in Modes
  /\ cand \in IF mode = "readback" THEN {"absent", "starting", "ready", "failed"} ELSE {"absent"}
  /\ \E follows \in IF cand = "absent" THEN BOOLEAN ELSE {FALSE}, serving \in {"orig", "other"} :
       svc = [config |-> 0, new |-> cand # "absent", serving |-> serving,
              follows |-> follows, rv |-> 0]
  /\ config = 0 /\ before = svc
  /\ bound \in {"absent", "wanted", "conflict"}
  /\ pc = "read"
  /\ out = [status |-> "none", pushed |-> "no", written |-> "no"]

revision == <<cand, config>>
fixed    == <<mode, before, bound>>

(***************************************************************************)
(* Others, and Cloud Run.                                                  *)
(***************************************************************************)

Others ==
  /\ \/ /\ svc.config < Changes
        /\ svc' = [svc EXCEPT !.config = @ + 1, !.rv = @ + 1]
     \/ /\ svc.serving = "orig"
        /\ svc' = [svc EXCEPT !.serving = "other", !.rv = @ + 1]
  /\ UNCHANGED <<revision, mode, pc, before, bound, out>>

\* A revision that has become ready serves where traffic follows the latest.
Provider ==
  /\ cand = "starting"
  /\ \/ /\ cand' = "ready"
        /\ svc' = IF svc.follows THEN [svc EXCEPT !.serving = "cand"] ELSE svc
     \/ cand' = "failed" /\ UNCHANGED svc
  /\ UNCHANGED <<config, mode, pc, before, bound, out>>

(***************************************************************************)
(* The release.                                                            *)
(***************************************************************************)

\* The baseline: the qualified revision serves, with the template's
\* configuration.
Read ==
  /\ pc = "read"
  /\ svc.serving = "orig"
  /\ before' = svc
  /\ pc' = "admit"
  /\ UNCHANGED <<svc, revision, mode, bound, out>>

\* Source, budget, registry and risk binding are as approved.
Admit ==
  /\ pc = "admit" /\ mode \in {"replace", "update"}
  /\ pc' = "build"
  /\ UNCHANGED <<svc, revision, fixed, out>>

\* The image is built, pushed, read back, and kept: one attempt each.
Build ==
  /\ pc = "build"
  /\ \/ out' = [out EXCEPT !.pushed = "completed"] /\ pc' = "compare"
     \/ \E p \in {"no", "attempted", "completed"} :
          out' = [out EXCEPT !.pushed = p, !.status = "stopped"] /\ pc' = "over"
  /\ UNCHANGED <<svc, revision, fixed>>

\* The service is what it was before the build.
Compare ==
  /\ pc = "compare"
  /\ svc = before
  /\ cand = "absent"
  /\ pc' = "write"
  /\ UNCHANGED <<svc, revision, fixed, out>>

\* Mutant: replaced whatever the version.
Unconditional == TRUE

AtVersion == mode = "replace" => svc.rv = before.rv

\* Mutant: the traffic is left to follow the latest revision.
AsItWas == svc.follows

\* candidate() pins the routes it read; so does --no-traffic.
Follows == FALSE

\* "replace" writes what was read, "update" patches what is there.
Written ==
  LET base == IF mode = "replace" THEN before ELSE svc
  IN  [base EXCEPT !.new = TRUE, !.follows = Follows, !.rv = svc.rv + 1]

\* Mutant: the attempt is noted when the call has answered.
WriteNotedLate ==
  /\ pc = "write"
  /\ AtVersion
  /\ svc' = Written
  /\ cand' = "starting" /\ config' = Written.config
  /\ \/ out' = [out EXCEPT !.written = "completed"] /\ pc' = "verify"
     \/ out' = [out EXCEPT !.status = "stopped"] /\ pc' = "over"
  /\ UNCHANGED fixed

\* The attempt is noted, the call made, and its answer noted.
Write ==
  /\ pc = "write"
  /\ \/ /\ AtVersion
        /\ svc' = Written
        /\ cand' = "starting" /\ config' = Written.config
        /\ \/ /\ out' = [out EXCEPT !.written = "completed"]
              /\ pc' = IF mode = "replace" THEN "wait" ELSE "verify"
           \/ out' = [out EXCEPT !.written = "attempted", !.status = "stopped"] /\ pc' = "over"
     \/ /\ out' = [out EXCEPT !.written = "attempted", !.status = "stopped"]
        /\ pc' = "over"
        /\ UNCHANGED <<svc, revision>>
  /\ UNCHANGED fixed

\* Twenty-four readings; a revision that failed is not waited for.
Wait ==
  /\ pc = "wait" /\ cand = "ready"
  /\ pc' = "verify"
  /\ UNCHANGED <<svc, revision, fixed, out>>

\* Mutant: the candidate is verified against the template it stands in.
OfTheTemplate == svc.config = config

\* The candidate was made of the baseline's configuration.
OfTheBaseline == config = before.config

\* Routes and configuration as before, the candidate ready, and the baseline's
\* but for the image (verify_readback; unchanged and the candidate's checks).
Verify ==
  /\ pc = "verify"
  /\ svc.serving = before.serving /\ ~svc.follows
  /\ cand = "ready" /\ OfTheBaseline
  /\ mode = "replace" => svc.config = before.config
  /\ out' = [out EXCEPT !.status = "pass"]
  /\ pc' = "over"
  /\ UNCHANGED <<svc, revision, fixed>>

\* readback_only: the same verification, of one reading against itself.
Readback ==
  /\ pc = "admit" /\ mode = "readback"
  /\ svc.new /\ cand = "ready"
  /\ svc.serving = "orig" /\ ~svc.follows
  /\ config = 0 /\ svc.config = 0
  /\ out' = [out EXCEPT !.status = "pass"]
  /\ pc' = "over"
  /\ UNCHANGED <<svc, revision, fixed>>

\* binding_prepare_only: traffic follows the latest, the approved configuration
\* serves, and none of the variables has another value.
Bind ==
  /\ pc = "admit" /\ mode = "binding"
  /\ svc.serving = "orig" /\ svc.follows /\ svc.config = 0
  /\ bound # "conflict"
  /\ out' = [out EXCEPT !.status = "prepared"]
  /\ pc' = "over"
  /\ UNCHANGED <<svc, revision, fixed>>

\* Mutant: a candidate is waited for until it is ready.
StopUnlessWaiting ==
  /\ pc \notin {"wait", "over"}
  /\ out' = [out EXCEPT !.status = "stopped"]
  /\ pc' = "over"
  /\ UNCHANGED <<svc, revision, fixed>>

\* Anything else stops the release: nothing is retried or rolled back.
Stop ==
  /\ pc # "over"
  /\ out' = [out EXCEPT !.status = "stopped"]
  /\ pc' = "over"
  /\ UNCHANGED <<svc, revision, fixed>>

Going == Read \/ Admit \/ Build \/ Compare \/ Write \/ Wait \/ Verify \/ Readback \/ Bind \/ Stop

Next == Going \/ Others \/ Provider

Spec     == Init /\ [][Next]_vars
FairSpec == Spec /\ WF_vars(Going)

(***************************************************************************)
(* Properties.                                                             *)
(***************************************************************************)

\* The candidate gets no traffic, though the service may have followed its
\* latest revision until then (candidate pins the routes, --no-traffic).
NeverServes == svc.serving # "cand"

\* What passed was made of the configuration that was approved, also where
\* others changed it between the last comparison and an update that patches.
PassIsBaseline == out.status = "pass" => cand = "ready" /\ config = before.config

\* The receipt tells of every write that took place, answered or not, and
\* of none that did not.
ReceiptTells ==
  pc = "over" /\ mode \in {"replace", "update"} =>
    /\ cand # "absent" => out.written # "no"
    /\ out.written = "completed" => cand # "absent"

\* Configuration and traffic that others set are not put back.
OthersStand ==
  /\ svc'.config >= svc.config
  /\ svc.serving = "other" => svc'.serving = "other"

(***************************************************************************)
(* The inductive invariant behind them.                                    *)
(***************************************************************************)

Shaped ==
  /\ DOMAIN svc = {"config", "new", "serving", "follows", "rv"} /\ DOMAIN before = DOMAIN svc
  /\ DOMAIN out = {"status", "pushed", "written"}
  /\ {svc.config, svc.rv, before.config, before.rv} \subseteq Nat

\* The latest revision is followed only until there is a candidate.
NoTraffic ==
  /\ NeverServes /\ before.serving # "cand"
  /\ cand # "absent" => svc.follows = FALSE

\* At the version that was read the service is what was read.
SinceRead ==
  /\ before.config <= svc.config /\ before.rv <= svc.rv
  /\ svc.rv = before.rv => svc.config = before.config /\ svc.serving = before.serving

\* A write is noted before the candidate is there.
Noted ==
  mode \in {"replace", "update"} =>
    /\ cand # "absent" => out.written # "no"
    /\ out.written = "completed" => cand # "absent"
IInv ==
  /\ Shaped /\ NoTraffic /\ SinceRead /\ Noted
  /\ PassIsBaseline /\ (out.status = "pass" => pc = "over")
=============================================================================
