---------------------------- MODULE PilotRevision ----------------------------
(***************************************************************************)
(* scripts/run_pilot_cloud_tcp.py: a probe is deployed as a revision of    *)
(* the production service with a route of zero percent, observed through   *)
(* its log row, and the service is restored and the revision deleted, all  *)
(* while other people may change the service.  A workflow killed between   *)
(* two of its calls is cleaned up by a later dispatch (cleanup_existing),  *)
(* which deletes what is unused and never deploys or restores.             *)
(*                                                                         *)
(* A call may fail before or after its effect; the effect is there, or     *)
(* not, when the call ends.  Only a PUT names the resource version.        *)
(***************************************************************************)
EXTENDS Naturals

CONSTANT Changes       \* bound: how often others change the service

Template == {"base", "probe", "theirs"}

VARIABLES
  svc,       \* the service: template, the probe's route, the version of all else, resource version
  rev,       \* the probe revision: "absent", "starting", "ready"
  latest,    \* it is the latest revision, created or ready
  pc,
  before,    \* the service read first
  current,   \* the service the restoration or cleanup goes by
  out        \* the receipt

vars == <<svc, rev, latest, pc, before, current, out>>

Service == [template: Template, route: BOOLEAN, rest: 0..Changes, rv: Nat]
Receipt == [status: {"unavailable", "observed"}, restored: BOOLEAN, tried: BOOLEAN, deleted: BOOLEAN]
Blank   == [status |-> "unavailable", restored |-> FALSE, tried |-> FALSE, deleted |-> FALSE]

Working  == {"prepare", "deploy", "wait", "measure"}
Cleaning == {"restore", "put", "readback", "delete", "again"}
Tidying  == {"tidy", "recheck", "remove"}

TypeOK ==
  /\ svc \in Service /\ before \in Service /\ current \in Service
  /\ rev \in {"absent", "starting", "ready"}
  /\ latest \in BOOLEAN
  /\ pc \in {"idle", "killed", "over"} \cup Working \cup Cleaning \cup Tidying
  /\ out \in Receipt

Fresh == [template |-> "base", route |-> FALSE, rest |-> 0, rv |-> 0]

Init ==
  /\ svc = Fresh /\ before = Fresh /\ current = Fresh
  /\ rev = "absent" /\ latest = FALSE
  /\ pc = "idle" /\ out = Blank

cloudState == <<svc, rev, latest>>

(***************************************************************************)
(* Cloud Run, and others at work on the service.                           *)
(***************************************************************************)

\* Others deploy a template of theirs, or change traffic or settings; the
\* probe's route stays where they find it.
Others ==
  /\ pc # "idle"
  /\ \/ /\ svc.template # "theirs"
        /\ svc' = [svc EXCEPT !.template = "theirs", !.rv = @ + 1]
        /\ latest' = FALSE
     \/ /\ svc.rest < Changes
        /\ svc' = [svc EXCEPT !.rest = @ + 1, !.rv = @ + 1]
        /\ UNCHANGED latest
  /\ UNCHANGED <<rev, pc, before, current, out>>

\* The probe becomes ready; a restored template's revision becomes the latest.
Provider ==
  /\ \/ rev = "starting" /\ rev' = "ready" /\ UNCHANGED latest
     \/ latest /\ svc.template # "probe" /\ latest' = FALSE /\ UNCHANGED rev
  /\ UNCHANGED <<svc, pc, before, current, out>>

(***************************************************************************)
(* What the attempt asks of its readings.                                  *)
(***************************************************************************)

\* protected_baseline: all but the template and the probe's own route.
Protected(s) == s.rest = before.rest

\* The update is refused unless the service is at this version.
Unconditional(s) == TRUE
AtVersion(s) == svc.rv = s.rv

Unmoved == svc.template = before.template /\ AtVersion(before)

(***************************************************************************)
(* execute.                                                                *)
(***************************************************************************)

\* The claim of the operation is made once; the baseline serves pinned revisions.
Start ==
  /\ pc = "idle"
  /\ pc' = "prepare"
  /\ before' = svc /\ current' = svc
  /\ UNCHANGED <<cloudState, out>>

\* Both dry runs are verified, then everything is read once more.
Prepare ==
  /\ pc = "prepare"
  /\ Unmoved
  /\ pc' = "deploy"
  /\ UNCHANGED <<cloudState, before, current, out>>

\* The probe's template and route, at the version that was read.
Deploy ==
  /\ pc = "deploy"
  /\ \/ /\ AtVersion(before)
        /\ svc' = [svc EXCEPT !.template = "probe", !.route = TRUE, !.rv = @ + 1]
        /\ rev' = "starting" /\ latest' = TRUE
        /\ pc' \in {"wait", "restore"}
     \/ /\ pc' = "restore"
        /\ UNCHANGED cloudState
  /\ UNCHANGED <<before, current, out>>

Wait ==
  /\ pc = "wait"
  /\ Protected(svc) /\ rev = "ready" /\ svc.template = "probe"
  /\ pc' = "measure"
  /\ UNCHANGED <<cloudState, before, current, out>>

\* One valid row in the log of the probe revision.
Measure ==
  /\ pc = "measure"
  /\ out' = [out EXCEPT !.status = "observed"]
  /\ pc' = "restore"
  /\ UNCHANGED <<cloudState, before, current>>

\* A call, a reading or a check fails, or the rounds of a loop are used up.
Raise ==
  /\ \/ pc = "prepare" /\ pc' = "over"
     \/ pc \in Working \ {"prepare"} /\ pc' = "restore"
  /\ UNCHANGED <<cloudState, before, current, out>>

(***************************************************************************)
(* execute, the finally clause.                                            *)
(***************************************************************************)

\* Mutant: what stands there is replaced, whosever it is.
Any(s) == TRUE

\* Nobody has changed anything since, and the template is the probe's.
OursStill(s) == Protected(s) /\ s.template = "probe"

Restore ==
  /\ pc = "restore"
  /\ OursStill(svc)
  /\ current' = svc
  /\ pc' = "put"
  /\ UNCHANGED <<cloudState, before, out>>

\* The backup, at the version just read.
Put ==
  /\ pc = "put"
  /\ out' = [out EXCEPT !.tried = TRUE]
  /\ \/ /\ AtVersion(current)
        /\ svc' = [before EXCEPT !.rv = svc.rv + 1]
        /\ pc' \in {"readback", "again"}
     \/ /\ pc' = "again"
        /\ UNCHANGED svc
  /\ UNCHANGED <<rev, latest, before, current>>

\* Restored means read back so; it goes on when the probe is the latest no more.
Readback ==
  /\ pc = "readback"
  /\ Protected(svc) /\ ~svc.route /\ svc.template = before.template
  /\ out' = [out EXCEPT !.restored = TRUE]
  /\ \/ ~latest /\ pc' = "delete"
     \/ latest /\ pc' = "readback"
  /\ UNCHANGED <<cloudState, before, current>>

\* The delete call, then a reading: a deletion is an answer of 404.
DeleteFrom(here, status) ==
  /\ pc = here
  /\ \/ rev' = "absent" /\ out' = [out EXCEPT !.deleted = TRUE, !.status = status]
     \/ rev' \in {rev, "absent"} /\ out' = [out EXCEPT !.status = "unavailable"]
  /\ pc' = "over"
  /\ UNCHANGED <<svc, latest, before, current>>

Delete == DeleteFrom("delete", out.status)

\* Mutants: the restoration is read back until it shows; the cleanup failed and
\* the status stays as it is.
FailUnlessReading ==
  /\ pc \in Cleaning \ {"readback"}
  /\ out' = [out EXCEPT !.status = "unavailable"]
  /\ pc' = IF out.tried /\ pc # "delete" THEN "tidy" ELSE "over"
  /\ UNCHANGED <<cloudState, before, current>>
FailSilently ==
  /\ pc \in Cleaning
  /\ pc' = IF out.tried THEN "tidy" ELSE "over"
  /\ UNCHANGED <<cloudState, before, current, out>>

\* A restoration that was attempted is followed by cleanup_existing.
Fail ==
  /\ pc \in Cleaning
  /\ out' = [out EXCEPT !.status = "unavailable"]
  /\ pc' = IF out.tried /\ pc # "delete" THEN "tidy" ELSE "over"
  /\ UNCHANGED <<cloudState, before, current>>

(***************************************************************************)
(* cleanup_existing, called above or dispatched after a kill.              *)
(***************************************************************************)

StartCleanup ==
  /\ pc \in {"killed", "over"}
  /\ pc' = "tidy"
  /\ out' = Blank
  /\ UNCHANGED <<cloudState, before, current>>

\* Mutant: a probe without a route is unused.
Unrouted == ~svc.route

\* No route, not the template, not the latest revision.
Unused == ~svc.route /\ svc.template # "probe" /\ ~latest

Tidy ==
  /\ pc = "tidy"
  /\ rev # "absent"
  /\ Unused
  /\ current' = svc
  /\ pc' = "recheck"
  /\ UNCHANGED <<cloudState, before, out>>

\* Everything is read again before the one deletion.
Recheck ==
  /\ pc = "recheck"
  /\ svc.rest = current.rest /\ svc.template = current.template /\ Unused
  /\ pc' = "remove"
  /\ UNCHANGED <<cloudState, before, current, out>>

\* Called by execute, it does not touch the status there.
Remove == DeleteFrom("remove", IF out.tried \/ svc # current THEN out.status ELSE "observed")

GiveUpTidying ==
  /\ pc \in Tidying
  /\ pc' = "over"
  /\ UNCHANGED <<cloudState, before, current, out>>

Kill ==
  /\ pc \notin {"idle", "killed", "over"}
  /\ pc' = "killed"
  /\ UNCHANGED <<cloudState, before, current, out>>

Going ==
  \/ Prepare \/ Deploy \/ Wait \/ Measure \/ Raise
  \/ Restore \/ Put \/ Readback \/ Delete \/ Fail
  \/ Tidy \/ Recheck \/ Remove \/ GiveUpTidying

Next == Start \/ StartCleanup \/ Going \/ Kill \/ Others \/ Provider

Spec     == Init /\ [][Next]_vars
FairSpec == Spec /\ WF_vars(Going)

(***************************************************************************)
(* Properties.                                                             *)
(***************************************************************************)

\* What others change meanwhile is never put back: not by the deployment, not
\* by the restoration in the finally clause (the resource version, read after
\* the last comparison).
TheirsStands ==
  /\ svc'.rest >= svc.rest
  /\ svc.template = "theirs" => svc'.template = "theirs"

\* A receipt other than "unavailable" leaves nothing of the probe behind.
NothingHidden ==
  pc = "over" /\ out.status = "observed" =>
    rev = "absent" /\ svc.template # "probe" /\ ~svc.route

\* The revision is deleted when nothing refers to it: no route, no template,
\* and it is not the latest, in execute as in the cleanup after a kill.
InUseStands ==
  rev # "absent" /\ rev' = "absent" =>
    ~svc.route /\ svc.template # "probe" /\ ~latest

(***************************************************************************)
(* The inductive invariant behind TheirsStands and InUseStands: a version  *)
(* is that of one service, and the attempt has read it.                    *)
(***************************************************************************)

Versioned ==
  /\ DOMAIN svc = DOMAIN Fresh /\ {svc.rv, svc.rest} \subseteq Nat
  /\ \A s \in {before, current} :
       /\ DOMAIN s = DOMAIN Fresh /\ {s.rv, s.rest} \subseteq Nat /\ s.rv <= svc.rv
       /\ s.rv = svc.rv => s.template = svc.template /\ s.rest = svc.rest
IInv ==
  /\ Versioned
  /\ pc = "idle" => svc.template = "base"
  /\ before.template = "base" /\ before.rest <= svc.rest
  /\ pc = "put" => OursStill(current)
  /\ pc \in {"delete", "remove"} => Unused

\* The one behind the receipt: only when nothing is left does an attempt end
\* with what was observed.
Left ==
  /\ DOMAIN out = DOMAIN Blank
  /\ out.status = "observed" =>
       \/ pc \in {"restore", "put", "readback", "again", "delete", "killed"}
       \/ pc = "over" /\ rev = "absent" /\ svc.template # "probe" /\ ~svc.route
=============================================================================
