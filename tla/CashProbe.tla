------------------------------ MODULE CashProbe ------------------------------
(***************************************************************************)
(* One reading of an account's cash in the cloud, beside the serving       *)
(* revision, by a workflow that may be killed anywhere and dispatched      *)
(* again.  Either a tag without traffic on the candidate and a scheduler   *)
(* job that calls its /probe once (observe_maintenance_cash.py), or a      *)
(* Cloud Run job that is executed once (execute_job of                     *)
(* observe_maintenance_cash_job.py, also for execute_account_cash_job.py). *)
(* A call's effect is there or not when the call ends.                     *)
(***************************************************************************)
EXTENDS Integers

CONSTANT Dispatches   \* bound: how often the workflow is dispatched

Runs == 1..Dispatches

VARIABLES
  mode,       \* "tag" or "job"
  base,       \* production, by version
  tags,       \* the dispatches whose tag is on the candidate
  jobs,       \* the dispatches whose job exists
  reading,    \* by dispatch: "none", "active", "whole", "part", "failed"
  at,         \* by dispatch: in which dispatch its reading ended
  n, pc,
  before,     \* production as it was read first
  attempted,  \* what may have been created: "tag", "job"
  started,    \* execute was called
  taken,      \* the dispatch whose report was taken; 0: none
  out         \* the receipt

vars == <<mode, base, tags, jobs, reading, at, n, pc, before, attempted, started, taken, out>>
cloud == <<base, tags, jobs, reading, at>>

Steps == {"compare", "tag", "tagged", "create", "verify", "execute", "await", "collect"}
Cleaning == {"owned", "cancel", "delete", "listed", "untag", "baseline"}
Blank == [observed |-> FALSE, jobClean |-> FALSE, restored |-> FALSE, failed |-> FALSE]

TypeOK ==
  /\ mode \in {"tag", "job"} /\ base \in 0..1 /\ before \in 0..1
  /\ tags \subseteq Runs /\ jobs \subseteq Runs
  /\ reading \in [Runs -> {"none", "active", "whole", "part", "failed"}]
  /\ at \in [Runs -> 0..Dispatches] /\ n \in 0..Dispatches /\ taken \in 0..Dispatches
  /\ pc \in {"idle", "over", "killed"} \cup Steps \cup Cleaning
  /\ attempted \subseteq {"tag", "job"} /\ started \in BOOLEAN
  /\ out \in [observed: BOOLEAN, jobClean: BOOLEAN, restored: BOOLEAN, failed: BOOLEAN]

Init ==
  /\ mode \in {"tag", "job"} /\ base = 0 /\ before = 0 /\ tags = {} /\ jobs = {}
  /\ reading = [r \in Runs |-> "none"] /\ at = [r \in Runs |-> 0]
  /\ n = 0 /\ pc = "idle" /\ attempted = {} /\ started = FALSE /\ taken = 0 /\ out = Blank

----------------------------------------------------------------------------
(* The cloud.                                                              *)

program == <<n, pc, before, attempted, started, taken, out>>

\* Somebody deploys or moves traffic.
Deploy == base = 0 /\ base' = 1 /\ UNCHANGED <<mode, tags, jobs, reading, at, program>>

\* The scheduler calls the tag, once.
Fire(r) ==
  /\ mode = "tag" /\ r \in jobs \cap tags /\ reading[r] = "none"
  /\ reading' = [reading EXCEPT ![r] = "active"]
  /\ UNCHANGED <<mode, base, tags, jobs, at, program>>

\* A future that is done.
Done(end, error) == end \/ error
\* Only the end callback of the request tells that all rows came; an error
\* raises.
Complete(end, error) == end /\ ~error
\* A /probe whose account is not the target's leaves the facts out; the entry
\* of a job reports an error instead.
Ends(r) ==
  /\ reading[r] = "active"
  /\ \E end, error \in BOOLEAN :
       reading' = [reading EXCEPT ![r] =
         IF mode = "tag" THEN IF error THEN "failed" ELSE IF end THEN "whole" ELSE "part"
         ELSE IF ~Complete(end, error) THEN "failed" ELSE IF end THEN "whole" ELSE "part"]
  /\ at' = [at EXCEPT ![r] = n]
  /\ UNCHANGED <<mode, base, tags, jobs, program>>

----------------------------------------------------------------------------
(* The program.                                                            *)

Goto(l) == pc' = l
\* The finally clause; what may not have been created is not looked for.
Cleanup == IF "job" \in attempted' THEN "owned" ELSE IF mode = "tag" THEN "untag" ELSE "baseline"
Clean == IF "job" \in attempted' THEN out ELSE [out EXCEPT !.jobClean = TRUE]
Raised == pc' = Cleanup /\ out' = [Clean EXCEPT !.observed = FALSE]

Dispatch ==
  /\ pc \in {"idle", "over", "killed"} /\ n < Dispatches
  /\ n' = n + 1 /\ before' = base
  /\ attempted' = {} /\ started' = FALSE /\ taken' = 0 /\ out' = Blank
  /\ Goto(IF mode = "tag" THEN "compare" ELSE "create")
  /\ UNCHANGED <<mode, cloud>>

\* Routing is read again immediately before it is written.
Compare ==
  /\ pc = "compare"
  /\ IF base = before /\ n \notin tags
       THEN Goto("tag") /\ UNCHANGED <<attempted, out>> ELSE UNCHANGED attempted /\ Raised
  /\ UNCHANGED <<mode, cloud, n, before, started, taken>>

Tag ==
  /\ pc = "tag"
  /\ attempted' = attempted \cup {"tag"}
  /\ \/ tags' = tags \cup {n} /\ Goto("tagged") /\ UNCHANGED out
     \/ tags' \in {tags, tags \cup {n}} /\ Raised
  /\ UNCHANGED <<mode, base, jobs, reading, at, n, before, started, taken>>

\* The tag is there and everything else as it was.
Tagged ==
  /\ pc = "tagged"
  /\ IF n \in tags /\ base = before
       THEN Goto("create") /\ UNCHANGED <<attempted, out>> ELSE UNCHANGED attempted /\ Raised
  /\ UNCHANGED <<mode, cloud, n, before, started, taken>>

\* What was seen to be created.
IfConfirmed(ok) == IF ok THEN attempted \cup {"job"} ELSE attempted
Attempts(ok) == attempted \cup {"job"}
Create ==
  /\ pc = "create"
  /\ \E ok \in BOOLEAN :
       /\ attempted' = Attempts(ok)
       /\ IF ok THEN jobs' = jobs \cup {n} /\ Goto("verify") /\ UNCHANGED out
                ELSE jobs' \in {jobs, jobs \cup {n}} /\ Raised
  /\ UNCHANGED <<mode, base, tags, reading, at, n, before, started, taken>>

\* It is read back; a job has no execution yet, and production is as it was.
Verify ==
  /\ pc = "verify"
  /\ IF mode = "job" /\ base # before
       THEN UNCHANGED attempted /\ Raised
       ELSE Goto(IF mode = "job" THEN "execute" ELSE "await") /\ UNCHANGED <<attempted, out>>
  /\ UNCHANGED <<mode, cloud, n, before, started, taken>>

Execute ==
  /\ pc = "execute"
  /\ started' = TRUE /\ UNCHANGED attempted
  /\ \/ reading' = [reading EXCEPT ![n] = "active"] /\ Goto("await") /\ UNCHANGED out
     \/ reading' \in {reading, [reading EXCEPT ![n] = "active"]} /\ Raised
  /\ UNCHANGED <<mode, base, tags, jobs, at, n, before, taken>>

Finished == {r \in Runs : reading[r] \in {"whole", "part", "failed"}}
\* Every report of the candidate that was ever written.
AnyTime == {r \in Finished : at[r] > 0}
\* The reports the log names: of the candidate since this dispatch began, or of
\* the one execution.
Reported == IF mode = "job" THEN Finished \cap {n} ELSE {r \in Finished : at[r] = n}
Await ==
  /\ pc = "await"
  /\ \E r \in Reported : taken' = r
  /\ IF \A r, s \in Reported : r = s
       THEN Goto("collect") /\ UNCHANGED <<attempted, out>> ELSE UNCHANGED attempted /\ Raised
  /\ UNCHANGED <<mode, cloud, n, before, started>>

\* The report is ok; the one of a /probe has the facts of the account, the one
\* of a job does not tell which rows are missing.
Projected == reading[taken] \in IF mode = "tag" THEN {"whole"} ELSE {"whole", "part"}
Collect ==
  /\ pc = "collect" /\ UNCHANGED attempted
  /\ pc' = Cleanup
  /\ out' = [Clean EXCEPT !.observed = Projected]
  /\ UNCHANGED <<mode, cloud, n, before, started, taken>>

\* A reading that fails or does not verify, a deadline that passes.
Raise ==
  /\ pc \in Steps \ {"tag", "create", "execute"} /\ UNCHANGED attempted
  /\ Raised
  /\ UNCHANGED <<mode, cloud, n, before, started, taken>>

----------------------------------------------------------------------------
(* The finally clause.                                                     *)

cleaned == <<mode, base, reading, at, n, before, attempted, started, taken>>
AfterJob == IF mode = "tag" THEN "untag" ELSE "baseline"

\* Listed; only the job that is this dispatch's is deleted, with no execution
\* under way.
Owned ==
  /\ pc = "owned"
  /\ Goto(IF n \notin jobs THEN "listed"
          ELSE IF mode = "job" /\ reading[n] = "active" THEN "cancel" ELSE "delete")
  /\ UNCHANGED <<cleaned, tags, jobs, out>>

\* A cancellation that was accepted.
Accepted == TRUE
Stopped == reading[n] # "active"
Cancel ==
  /\ pc = "cancel"
  /\ \/ /\ reading[n] = "active"
        /\ reading' = [reading EXCEPT ![n] = "failed"] /\ at' = [at EXCEPT ![n] = n]
        /\ UNCHANGED pc
     \/ Stopped /\ Goto("delete") /\ UNCHANGED <<reading, at>>
  /\ UNCHANGED <<mode, base, tags, jobs, n, before, attempted, started, taken, out>>

Delete ==
  /\ pc = "delete"
  /\ jobs' \in {jobs, jobs \ {n}} /\ Goto("listed")
  /\ UNCHANGED <<cleaned, tags, out>>

Listed ==
  /\ pc = "listed"
  /\ out' = IF n \in jobs THEN [out EXCEPT !.failed = TRUE, !.observed = FALSE]
                          ELSE [out EXCEPT !.jobClean = TRUE]
  /\ Goto(AfterJob)
  /\ UNCHANGED <<cleaned, tags, jobs>>

Untag ==
  /\ pc = "untag"
  /\ \/ "tag" \in attempted /\ tags' \in {tags, tags \ {n}}
     \/ UNCHANGED tags /\ "tag" \notin attempted
  /\ Goto("baseline")
  /\ UNCHANGED <<cleaned, jobs, out>>

\* What serves is as it was.
Serving == base = before
\* Nothing of this dispatch, nor of anybody else, has changed production.
AsBefore == base = before /\ n \notin tags
Baseline ==
  /\ pc = "baseline"
  /\ out' = IF AsBefore THEN [out EXCEPT !.restored = TRUE]
                        ELSE [out EXCEPT !.failed = TRUE, !.observed = FALSE]
  /\ Goto("over")
  /\ UNCHANGED <<cleaned, tags, jobs>>

\* A call of the cleanup fails: the rest is tried nevertheless.
Fail ==
  /\ pc \in Cleaning
  /\ out' = [out EXCEPT !.failed = TRUE, !.observed = FALSE]
  /\ Goto(IF pc \in {"owned", "cancel", "delete", "listed"} THEN AfterJob
          ELSE IF pc = "untag" THEN "baseline" ELSE "over")
  /\ UNCHANGED <<cleaned, tags, jobs>>

Kill == pc \in Steps \cup Cleaning /\ Goto("killed")
        /\ UNCHANGED <<mode, cloud, n, before, attempted, started, taken, out>>

Next ==
  \/ Deploy \/ \E r \in Runs : Fire(r) \/ Ends(r)
  \/ Dispatch \/ Compare \/ Tag \/ Tagged \/ Create \/ Verify \/ Execute \/ Await \/ Collect
  \/ Raise \/ Owned \/ Cancel \/ Delete \/ Listed \/ Untag \/ Baseline \/ Fail \/ Kill

Spec == Init /\ [][Next]_vars

----------------------------------------------------------------------------
(* Properties.                                                             *)

\* What the receipt calls clean is gone, with no execution left running, and
\* what it calls restored has no tag of this dispatch: however a call failed
\* ("Read back ambiguous creates before deleting", observe).
CleanIsGone ==
  pc = "over" =>
    /\ out.jobClean => n \notin jobs /\ (mode = "job" => reading[n] # "active")
    /\ out.restored => n \notin tags

\* An observation is of a reading that ended under this dispatch, whatever an
\* earlier one left armed, and in which every row was seen ("Completion alone
\* is not accountSummaryEnd proof").
ObservedNow == out.observed => taken # 0 /\ at[taken] = n /\ reading[taken] = "whole"

\* Success is only told when nothing is left.
SuccessLeavesNothing ==
  pc = "over" /\ out.observed => out.jobClean /\ out.restored /\ n \notin jobs \cup tags

(***************************************************************************)
(* The inductive invariant behind them: what the dispatch at work made,    *)
(* what it took, and how far its cleanup has come.                         *)
(***************************************************************************)

\* Only dispatches so far have left anything, and a reading that ended under
\* this dispatch says so.
Made ==
  /\ n \in 0..Dispatches /\ mode \in {"tag", "job"} /\ {DOMAIN reading, DOMAIN at} = {Runs}
  /\ jobs \cup tags \subseteq 1..n /\ \A r \in Runs : reading[r] # "none" => r <= n
  /\ n \in Finished => at[n] = n
  /\ "job" \notin attempted => n \notin jobs
  /\ "tag" \notin attempted => n \notin tags
  /\ mode = "job" =>
       \A r \in Runs : reading[r] # "part" /\ (r = n /\ reading[r] = "active" => r \in jobs)

\* What was taken ended under this dispatch.
Took ==
  /\ taken # 0 => taken \in Finished /\ at[taken] = n
  /\ out.observed => taken # 0 /\ reading[taken] = "whole"

\* Where the dispatch is.
Way ==
  /\ pc \in {"idle"} \cup Steps => out = Blank
  /\ pc = "collect" => taken # 0
  /\ pc # "idle" => n > 0
  /\ pc \in {"verify", "execute"} => n \in jobs
  /\ mode = "job" /\ pc \in {"create", "verify", "execute"} => reading[n] = "none"
  /\ pc \in {"compare", "tag", "tagged"} => mode = "tag"
  /\ pc = "execute" => mode = "job"
  /\ mode = "job" /\ pc = "delete" => reading[n] # "active"

\* What the receipt tells.
Tells ==
  /\ DOMAIN out = DOMAIN Blank
  /\ out.jobClean => n \notin jobs
  /\ out.restored => pc = "over" /\ n \notin tags
  /\ out.observed /\ pc \in {"untag", "baseline", "over"} => out.jobClean
  /\ out.observed /\ pc = "over" => out.restored

IInv == Made /\ Took /\ Way /\ Tells
=============================================================================
