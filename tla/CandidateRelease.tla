-------------------------- MODULE CandidateRelease ---------------------------
(***************************************************************************)
(* The candidate lifecycle of scripts/cloud_run_candidate_warmup.py: a     *)
(* revision with a minimum of one instance is deployed without traffic,    *)
(* referenced by a tag (or by one percent of the traffic where no tag      *)
(* fits), qualified, promoted, and replaced by a revision with minimum     *)
(* zero.  Whatever happens, the finally clause cleans up.                  *)
(*                                                                         *)
(* A gcloud call may fail before or after its effect, and so may the read  *)
(* after it.  The effect of a call is there, or not, when the call ends;   *)
(* nobody else writes to the service during the attempt.                   *)
(***************************************************************************)
EXTENDS Naturals, Sequences

Revisions == {"prev", "warm", "reset"}

\* Traffic by the revisions that share it: the first has 100 or 99 percent.
Shares == {<<"prev">>, <<"prev", "warm">>, <<"warm">>, <<"warm", "reset">>, <<"reset">>}

Commands == {"deploy", "split", "promote", "unsplit", "untag", "reset", "swap", "repromote"}

VARIABLES
  svc,        \* the service: template minimum, latest revision, tag, traffic
  up,         \* the revisions whose instances have started and are healthy
  pc,
  expected,   \* the service as last accepted; the attempt's `before' is Before
  tagged,     \* the name leaves room for a tag
  serving,    \* at cleanup: the warm revision has all the traffic
  removed,    \* at cleanup: the tag is known to be gone
  count,      \* healthy observations in a row
  status,     \* the state file; "none" is no file
  issued,     \* history: the commands
  seen        \* history: a revision's observations in a row while it was up

locals == <<tagged, serving, removed>>
vars   == <<svc, up, pc, expected, locals, count, status, issued, seen>>

Service == [min: 0..1, latest: Revisions, tag: BOOLEAN, traffic: Shares]
Before  == [min |-> 0, latest |-> "prev", tag |-> FALSE, traffic |-> <<"prev">>]

Trying   == {"deploy", "bind", "split", "qualify", "promote"}
Cleaning == {"restore", "unsplit", "untag", "reset", "swap", "requalify", "repromote",
             "assert", "report"}

TypeOK ==
  /\ svc \in Service /\ expected \in Service
  /\ up \subseteq {"warm", "reset"}
  /\ pc \in {"idle", "begin", "failed", "over"} \cup Trying \cup Cleaning
  /\ {tagged, serving, removed} \subseteq BOOLEAN
  /\ count \in 0..2
  /\ status \in {"none", "started", "promoted", "restored", "cleanup_failed"}
  /\ issued \in Seq(Commands) /\ Len(issued) <= 8
  /\ seen \in [{"warm", "reset"} -> 0..2]

Init ==
  /\ svc = Before /\ expected = Before /\ up = {}
  /\ pc = "idle"
  /\ tagged = TRUE /\ serving = FALSE /\ removed = TRUE
  /\ count = 0 /\ status = "none" /\ issued = <<>>
  /\ seen = [r \in {"warm", "reset"} |-> 0]

Goto(here, there) == pc = here /\ pc' = there

(***************************************************************************)
(* Cloud Run: instances start where a tag or traffic refers to them.       *)
(***************************************************************************)

Referenced(r) == r \in {svc.traffic[i] : i \in DOMAIN svc.traffic} \/ (svc.tag /\ r = "warm")

InstanceChanges(r) ==
  /\ \/ r \notin up /\ Referenced(r) /\ up' = up \cup {r}
     \/ r \in up /\ up' = up \ {r}
  /\ UNCHANGED <<svc, pc, expected, locals, count, status, issued, seen>>

(***************************************************************************)
(* What the attempt asks of its readings.                                  *)
(***************************************************************************)

\* stable(): nothing has changed since the service was last accepted.
Stable == svc = expected

\* candidate(): the latest revision is the one deployed, with this minimum.
Bound(minimum) == svc.latest = (IF minimum = 1 THEN "warm" ELSE "reset") /\ svc.min = minimum

\* Mutant: a ready revision that was retired before it started is healthy.
ReadyEnough(r) == TRUE

\* verify_traffic_revision with require_startup_health.
Healthy(r) == r \in up

\* A command with the service it leads to. When it fails it may have had its
\* effect; adopt says that a reading in a finally clause follows.
Command(name, here, effect, there, adopt, otherwise) ==
  /\ pc = here
  /\ Stable
  /\ issued' = Append(issued, name)
  /\ svc' \in {svc, effect}
  /\ \/ /\ svc' = effect
        /\ expected' = effect
        /\ pc' = there
     \/ /\ expected' \in {expected} \cup (IF adopt THEN {svc'} ELSE {})
        /\ pc' = otherwise
  /\ UNCHANGED up

(***************************************************************************)
(* execute.                                                                *)
(***************************************************************************)

\* Mutant: the state file of an earlier attempt is overwritten.
AnyState == TRUE

NoState == status = "none"

\* allocate_tag: a service name may leave no room for one.
Begin ==
  /\ Goto("idle", "begin")
  /\ NoState
  /\ status' = "started"
  /\ tagged' \in BOOLEAN
  /\ expected' = svc
  /\ UNCHANGED <<svc, up, serving, removed, count, issued, seen>>

\* One serving revision, minimum zero there and in the template, tag free.
Admit ==
  /\ Goto("begin", "deploy")
  /\ Len(svc.traffic) = 1 /\ svc.min = 0 /\ svc.traffic[1] # "warm" /\ ~svc.tag
  /\ UNCHANGED <<svc, up, expected, locals, count, status, issued, seen>>

Deploy ==
  /\ Command("deploy", "deploy", [svc EXCEPT !.min = 1, !.latest = "warm", !.tag = tagged],
             "bind", TRUE, "restore")
  /\ UNCHANGED <<locals, count, status, seen>>

\* The deployed revision is the candidate and traffic has not moved; without a
\* tag the baseline is verified now, with one after the qualification.
Bind ==
  /\ pc = "bind"
  /\ Bound(1) /\ svc.traffic = Before.traffic
  /\ pc' = IF tagged THEN "qualify" ELSE "split"
  /\ count' = 0
  /\ UNCHANGED <<svc, up, expected, locals, status, issued, seen>>

\* activate(previous, candidate).
Split ==
  /\ Bound(1) /\ svc.traffic = Before.traffic
  /\ Command("split", "split", [svc EXCEPT !.traffic = <<"prev", "warm">>],
             "qualify", TRUE, "restore")
  /\ UNCHANGED <<locals, count, status, seen>>

\* One round of the health waiter; pending health starts the count over.
Observe(r, here, there) ==
  /\ pc = here
  /\ Stable
  /\ count' = IF Healthy(r) THEN count + 1 ELSE 0
  /\ seen' = [seen EXCEPT ![r] = IF r \notin up THEN 0 ELSE IF @ = 2 THEN 2 ELSE @ + 1]
  /\ pc' = IF count' = 2 THEN there ELSE here
  /\ UNCHANGED <<svc, up, expected, locals, status, issued>>

Qualify == Observe("warm", "qualify", "promote")

Promote ==
  /\ Healthy("warm")
  /\ Command("promote", "promote", [svc EXCEPT !.traffic = <<"warm">>],
             "restore", FALSE, "restore")
  /\ status' \in IF pc' = "restore" /\ expected' = svc' THEN {"promoted", status} ELSE {status}
  /\ UNCHANGED <<locals, count, seen>>

(***************************************************************************)
(* restore, in the finally clause.                                         *)
(***************************************************************************)

\* Mutant: only the traffic is compared.
TrafficUnmoved == svc.traffic = Before.traffic

NothingDone == svc = Before

\* What is to be undone, decided from one reading.
Restore ==
  /\ pc = "restore"
  /\ Stable
  /\ \/ /\ NothingDone
        /\ pc' = "report"
        /\ UNCHANGED serving
     \/ /\ ~NothingDone
        /\ Bound(1)
        /\ serving' = (svc.traffic = <<"warm">>)
        /\ \/ /\ svc.traffic = <<"prev", "warm">>
              /\ pc' = "unsplit"
           \/ /\ svc.traffic \in {<<"prev">>, <<"warm">>}
              /\ pc' = IF tagged THEN "untag" ELSE "reset"
  /\ UNCHANGED <<svc, up, expected, tagged, removed, count, status, issued, seen>>

Unsplit ==
  /\ Command("unsplit", "unsplit", [svc EXCEPT !.traffic = Before.traffic],
             IF tagged THEN "untag" ELSE "reset", FALSE, "failed")
  /\ UNCHANGED <<locals, count, status, seen>>

\* A failed removal is read back, never repeated; the minimum is reset anyway.
Untag ==
  /\ pc = "untag"
  /\ Stable /\ svc.tag
  /\ issued' = Append(issued, "untag")
  /\ \E failed \in BOOLEAN :
       /\ svc' \in {[svc EXCEPT !.tag = FALSE]} \cup (IF failed THEN {svc} ELSE {})
       /\ removed' = (~failed /\ ~svc'.tag)
  /\ expected' = svc'
  /\ pc' \in {"reset", "failed"}
  /\ UNCHANGED <<up, tagged, serving, count, status, seen>>

\* A minimum cannot change on a revision: zero makes another one.
Reset ==
  /\ Command("reset", "reset", [svc EXCEPT !.min = 0, !.latest = "reset"],
             IF ~removed THEN "failed" ELSE IF serving THEN "swap" ELSE "assert",
             FALSE, "failed")
  /\ count' = 0
  /\ UNCHANGED <<locals, status, seen>>

\* activate(warm, replacement).
Swap ==
  /\ Bound(0) /\ svc.traffic = <<"warm">>
  /\ Command("swap", "swap", [svc EXCEPT !.traffic = <<"warm", "reset">>],
             "requalify", TRUE, "failed")
  /\ UNCHANGED <<locals, count, status, seen>>

Requalify == Observe("reset", "requalify", "repromote")

Repromote ==
  /\ Healthy("reset")
  /\ Command("repromote", "repromote", [svc EXCEPT !.traffic = <<"reset">>],
             "assert", FALSE, "failed")
  /\ UNCHANGED <<locals, count, status, seen>>

\* The final assertions.
Assert ==
  /\ Goto("assert", "report")
  /\ Stable
  /\ ~svc.tag /\ ~Referenced("warm") /\ Bound(0)
  /\ UNCHANGED <<svc, up, expected, locals, count, status, issued, seen>>

Report ==
  /\ Goto("report", "over")
  /\ status' = "restored"
  /\ UNCHANGED <<svc, up, expected, locals, count, issued, seen>>

(***************************************************************************)
(* Failure.                                                                *)
(***************************************************************************)

\* A reading or a check fails, a deadline passes, or a signal arrives; signals
\* are ignored once the cleanup has begun.
Raise ==
  /\ \/ Goto("begin", "over")
     \/ pc \in Trying /\ pc' = "restore"
     \/ pc \in Cleaning /\ pc' = "failed"
  /\ UNCHANGED <<svc, up, expected, locals, count, status, issued, seen>>

CleanupFailed ==
  /\ Goto("failed", "over")
  /\ status' = "cleanup_failed"
  /\ UNCHANGED <<svc, up, expected, locals, count, issued, seen>>

\* Mutant: the health waiter has no deadline.
Patient == FALSE

\* The health waiter gives up after five minutes.
TimedOut == pc \in {"qualify", "requalify"}

GiveUp == TimedOut /\ Raise

Kill ==
  /\ pc \notin {"idle", "over"}
  /\ pc' = "idle"
  /\ UNCHANGED <<svc, up, expected, locals, count, status, issued, seen>>

Going ==
  \/ Admit \/ Deploy \/ Bind \/ Split \/ Qualify \/ Promote
  \/ Restore \/ Unsplit \/ Untag \/ Reset \/ Swap \/ Requalify \/ Repromote
  \/ Assert \/ Report \/ Raise \/ CleanupFailed

Next == Begin \/ Going \/ Kill \/ \E r \in {"warm", "reset"} : InstanceChanges(r)

Spec == Init /\ [][Next]_vars
FairSpec == Spec /\ WF_vars(Going) /\ WF_vars(GiveUp)

(***************************************************************************)
(* Properties.                                                             *)
(***************************************************************************)

\* An attempt that ends without "cleanup_failed" leaves nothing that costs: no
\* tag, no minimum of one in the template, no traffic for the warm revision
\* (restore and its final assertions, after any failed or half-done command).
NothingLeftUntold ==
  pc = "over" /\ status # "cleanup_failed" =>
    ~svc.tag /\ svc.min = 0 /\ svc.traffic \in {<<"prev">>, <<"reset">>}

\* A revision gets all the traffic only after two observations in a row that
\* found its instance up; a ready but retired revision does not count.
ServesWhenProven ==
  /\ svc.traffic[1] = "warm"  => seen["warm"] = 2
  /\ svc.traffic[1] = "reset" => seen["reset"] = 2

\* No command is repeated, within the attempt or by a rerun after a kill.
NothingReplayed == \A i, j \in 1..Len(issued) : issued[i] = issued[j] => i = j

(***************************************************************************)
(* The inductive invariant behind NothingReplayed.                         *)
(***************************************************************************)

\* The order of the commands, and which may still be issued at a place.
Order == [deploy |-> 1, split |-> 2, promote |-> 3, unsplit |-> 4, untag |-> 5, reset |-> 6, swap |-> 7, repromote |-> 8]
Place ==
  [begin |-> 1, deploy |-> 1, bind |-> 2, split |-> 2, qualify |-> 3, promote |-> 3, restore |-> 4, unsplit |-> 4,
   untag |-> 5, reset |-> 6, swap |-> 7, requalify |-> 8, repromote |-> 8]
IInv ==
  /\ issued \in Seq(Commands) /\ NothingReplayed
  /\ status = "none" => pc = "idle" /\ issued = <<>>
  /\ pc \in DOMAIN Place => \A i \in 1..Len(issued) : Order[issued[i]] < Place[pc]

\* The one behind ServesWhenProven and NothingLeftUntold: where the traffic is
\* at a place, and what was seen.
Clean == ~svc.tag /\ svc.min = 0 /\ svc.traffic \in {<<"prev">>, <<"reset">>}
Accounted ==
  /\ {svc.traffic, expected.traffic} \subseteq Shares /\ {DOMAIN svc, DOMAIN expected} = {DOMAIN Before}
  /\ seen \in [{"warm", "reset"} -> 0..2] /\ count \in 0..2
  /\ ServesWhenProven
  /\ status = "none" \/ pc = "begin" => svc = Before
  /\ pc \in Trying => svc.traffic[1] = "prev"
  /\ pc \in {"requalify", "repromote"} => svc.traffic[1] = "warm"
  /\ pc \in {"split", "swap"} => count = 0
  /\ pc = "qualify" => count < 2 /\ count <= seen["warm"]
  /\ pc = "requalify" => count < 2 /\ count <= seen["reset"]
  /\ pc = "promote" => seen["warm"] = 2
  /\ pc = "repromote" => seen["reset"] = 2
  /\ pc = "report" \/ (pc = "over" /\ status # "cleanup_failed") => Clean
=============================================================================
