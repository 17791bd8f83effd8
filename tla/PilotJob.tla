------------------------------ MODULE PilotJob -------------------------------
(***************************************************************************)
(* scripts/run_pilot_job_tcp.py: one Cloud Run job is created, run once,   *)
(* measured through its log row and deleted, in a workflow that may be     *)
(* killed anywhere and dispatched again.  The receipt it leaves is all an  *)
(* operator sees.                                                          *)
(*                                                                         *)
(* A call may fail before or after its effect; the effect is there, or     *)
(* not, when the call ends, save a deletion, which may take its time.      *)
(* Jobs are numbered by the dispatch, whose id their name digests.         *)
(***************************************************************************)
EXTENDS Naturals, FiniteSets

CONSTANT Dispatches    \* bound: how often the workflow is dispatched

VARIABLES
  jobs,        \* the jobs that exist, by dispatch
  run,         \* by dispatch: its execution, "none", "active", "ok", "bad", "cancelled"
  doomed,      \* the jobs whose deletion was accepted
  production,  \* the serving service and its schedulers, by version
  n,           \* the dispatch at work; 0 before the first
  pc,
  phase,       \* "tcp", or "app": isolation and cycle
  before,      \* the production state read first
  out          \* the receipt

vars == <<jobs, run, doomed, production, n, pc, phase, before, out>>

Ids == 1..Dispatches

Receipt == [status: {"unavailable", "observed"}, executed: BOOLEAN, read: BOOLEAN,
            measured: BOOLEAN, deleted: BOOLEAN, unchanged: BOOLEAN]
Blank   == [status |-> "unavailable", executed |-> FALSE, read |-> FALSE,
            measured |-> FALSE, deleted |-> FALSE, unchanged |-> FALSE]

Working  == {"prepare", "create", "ready", "admit", "run", "await", "measure"}
Cleaning == {"read", "cancel", "stopped", "delete", "gone"}

TypeOK ==
  /\ jobs \subseteq Ids /\ doomed \subseteq jobs
  /\ run \in [Ids -> {"none", "active", "ok", "bad", "cancelled"}]
  /\ production \in 0..1 /\ before \in 0..1
  /\ n \in 0..Dispatches
  /\ pc \in {"idle", "final", "over"} \cup Working \cup Cleaning
  /\ phase \in {"tcp", "app"}
  /\ out \in Receipt

Init ==
  /\ jobs = {} /\ run = [i \in Ids |-> "none"] /\ doomed = {}
  /\ production = 0 /\ before = 0
  /\ n = 0 /\ pc = "idle"
  /\ phase \in {"tcp", "app"}
  /\ out = Blank

cloudState == <<jobs, run, doomed, production>>
fixed      == <<n, phase, before>>

(***************************************************************************)
(* Cloud Run and the operators of the service.                             *)
(***************************************************************************)

\* The task ends, a deletion lands, production changes.
Elsewhere ==
  /\ \/ \E i \in Ids : /\ run[i] = "active"
                       /\ run' \in {[run EXCEPT ![i] = r] : r \in {"ok", "bad"}}
                       /\ UNCHANGED <<jobs, doomed, production>>
     \/ \E i \in doomed : /\ jobs' = jobs \ {i} /\ doomed' = doomed \ {i}
                          /\ UNCHANGED <<run, production>>
     \/ /\ production' = 1
        /\ UNCHANGED <<jobs, run, doomed>>
  /\ UNCHANGED <<fixed, pc, out>>

(***************************************************************************)
(* execute, up to the one run of the job.                                  *)
(***************************************************************************)

Dispatch ==
  /\ pc \in {"idle", "over"} /\ n < Dispatches
  /\ n' = n + 1
  /\ pc' = "prepare"
  /\ before' = production
  /\ out' = Blank
  /\ UNCHANGED <<cloudState, phase>>

\* Mutant: only a job of the same name is looked for.
NoneOfThisName == n \notin jobs

\* No job with the prefix of these probes is left of an earlier dispatch.
NothingLeft == jobs = {}

\* The dry run verified the template; the baseline has not changed.
Admit ==
  /\ pc = "prepare"
  /\ NothingLeft
  /\ production = before
  /\ pc' = "create"
  /\ UNCHANGED <<cloudState, fixed, out>>

\* With diagnostic_only the answer of the dry run is all there is.
Diagnose ==
  /\ pc = "prepare" /\ phase = "app"
  /\ NothingLeft
  /\ pc' = "over"
  /\ out' = [out EXCEPT !.status = "observed"]
  /\ UNCHANGED <<cloudState, fixed>>

Create ==
  /\ pc = "create"
  /\ \/ jobs' = jobs \cup {n} /\ pc' \in {"ready", "read"}
     \/ jobs' = jobs /\ pc' = "read"
  /\ UNCHANGED <<run, doomed, production, fixed, out>>

\* The job is read until it is ready.
Ready ==
  /\ pc = "ready" /\ n \in jobs
  /\ pc' = "admit"
  /\ UNCHANGED <<cloudState, fixed, out>>

\* No execution yet, and production as it was.
Unexecuted ==
  /\ pc = "admit"
  /\ run[n] = "none" /\ production = before
  /\ pc' = "run"
  /\ UNCHANGED <<cloudState, fixed, out>>

Run ==
  /\ pc = "run"
  /\ out' = [out EXCEPT !.executed = TRUE]
  /\ \/ run' = [run EXCEPT ![n] = "active"] /\ pc' \in {"await", "read"}
     \/ run' = run /\ pc' = "read"
  /\ UNCHANGED <<jobs, doomed, production, fixed>>

\* A failed task of the "tcp" phase is not measured.
Await ==
  /\ pc = "await" /\ run[n] \in {"ok", "bad"}
  /\ pc' = IF run[n] = "ok" \/ phase = "app" THEN "measure" ELSE "read"
  /\ UNCHANGED <<cloudState, fixed, out>>

\* Mutant: the measurement counts, however its task ended.
TaskIgnored == TRUE

\* The task succeeded, once and without a retry.
TaskSucceeded == run[n] = "ok"

\* The log has exactly one valid row of this execution. What it says was
\* observed; an application is observed only if its task succeeded as well.
Measure ==
  /\ pc = "measure"
  /\ \E passed \in BOOLEAN :
       out' = [out EXCEPT !.read = TRUE, !.measured = passed,
                 !.status = IF phase = "tcp" \/ (TaskSucceeded /\ passed)
                            THEN "observed" ELSE "unavailable"]
  /\ pc' = "read"
  /\ UNCHANGED <<cloudState, fixed>>

\* Anything else: a reading that fails or does not verify, a deadline.
Raise ==
  /\ \/ pc = "prepare" /\ pc' = "over"
     \/ pc \in Working \ {"prepare"} /\ pc' = "read"
  /\ UNCHANGED <<cloudState, fixed, out>>

(***************************************************************************)
(* execute, the finally clause.                                            *)
(***************************************************************************)

\* An answer of 404 is a deletion only if no run was asked for.
NeverRun == ~out.executed

\* The job and its executions are read.
Read ==
  /\ pc = "read"
  /\ \/ /\ n \in jobs
        /\ pc' = IF run[n] = "active" THEN "cancel" ELSE "delete"
        /\ UNCHANGED out
     \/ /\ n \notin jobs
        /\ pc' = "final"
        /\ out' = IF NeverRun THEN [out EXCEPT !.deleted = TRUE]
                  ELSE [out EXCEPT !.status = "unavailable"]
  /\ UNCHANGED <<cloudState, fixed>>

\* The execution is cancelled, or ends by itself meanwhile.
Cancel ==
  /\ pc = "cancel"
  /\ run' \in {run, [run EXCEPT ![n] = IF @ = "active" THEN "cancelled" ELSE @]}
  /\ pc' = "stopped"
  /\ UNCHANGED <<jobs, doomed, production, fixed, out>>

\* Mutant: a cancel that was accepted has stopped the execution.
Accepted == TRUE

\* Read back: the execution has ended.
Ended == run[n] # "active"

Stopped ==
  /\ pc = "stopped"
  /\ Ended
  /\ pc' = "delete"
  /\ UNCHANGED <<cloudState, fixed, out>>

Delete ==
  /\ pc = "delete"
  /\ doomed' \in {doomed, doomed \cup (jobs \cap {n})}
  /\ pc' = "gone"
  /\ UNCHANGED <<jobs, run, production, fixed, out>>

\* Mutant: a deletion that was accepted is a deletion.
Doomed == n \in doomed \/ n \notin jobs

\* Read back until the answer is 404.
Gone == n \notin jobs

Deleted ==
  /\ pc = "gone"
  /\ Gone
  /\ out' = [out EXCEPT !.deleted = TRUE]
  /\ pc' = "final"
  /\ UNCHANGED <<cloudState, fixed>>

\* Mutants: the cleanup waits for the job to be gone; a failed cleanup leaves
\* the status as it is.
FailUnlessWaiting ==
  /\ pc \in Cleaning \ {"gone"}
  /\ out' = [out EXCEPT !.status = "unavailable"]
  /\ pc' = "final"
  /\ UNCHANGED <<cloudState, fixed>>
FailSilently ==
  /\ pc \in Cleaning
  /\ pc' = "final"
  /\ UNCHANGED <<cloudState, fixed, out>>

\* A call or reading of the cleanup fails, or its loops run out of rounds.
Fail ==
  /\ pc \in Cleaning
  /\ out' = [out EXCEPT !.status = "unavailable"]
  /\ pc' = "final"
  /\ UNCHANGED <<cloudState, fixed>>

\* The production checks, after the cleanup.
Final ==
  /\ pc = "final"
  /\ out' \in {[out EXCEPT !.unchanged = u] : u \in {FALSE, production = before}}
  /\ pc' = "over"
  /\ UNCHANGED <<cloudState, fixed>>

Kill ==
  /\ pc \notin {"idle", "over"}
  /\ pc' = "idle"
  /\ UNCHANGED <<cloudState, fixed, out>>

Going ==
  \/ Admit \/ Diagnose \/ Create \/ Ready \/ Unexecuted \/ Run \/ Await \/ Measure
  \/ Raise \/ Read \/ Cancel \/ Stopped \/ Delete \/ Deleted \/ Fail \/ Final

Next == Dispatch \/ Going \/ Kill \/ Elsewhere

Spec     == Init /\ [][Next]_vars
FairSpec == Spec /\ WF_vars(Going)

(***************************************************************************)
(* Properties.                                                             *)
(***************************************************************************)

\* main exits 0.
Success ==
  /\ pc = "over" /\ out.status = "observed" /\ out.read /\ out.measured
  /\ out.deleted /\ out.unchanged

\* A receipt of success is one of a task that ran to its own end, and succeeded.
SuccessRan == Success => run[n] = "ok"

\* A job said to be deleted does not exist, and its task is not running: the
\* finally clause read the 404, after it saw the execution end.
DeletedIsGone == out.deleted => n \notin jobs /\ run[n] # "active"

\* Two probes never exist together, whatever was killed in between.
OneProbe == Cardinality(jobs) <= 1

\* A receipt that is not "unavailable" hides nothing: the job is gone.
NothingHidden == pc = "over" /\ out.status = "observed" => n \notin jobs

(***************************************************************************)
(* The inductive invariant behind OneProbe.                                *)
(***************************************************************************)

\* What exists of one dispatch alone; a job is created where there is none.
AtMostOne == \A i, j \in jobs : i = j
IInv == AtMostOne /\ doomed \subseteq jobs /\ (pc = "create" => jobs = {})

\* The one behind the receipt: what ran, and what is left of it.
Ran ==
  /\ n \in 0..Dispatches /\ DOMAIN run = Ids /\ DOMAIN out = DOMAIN Blank
  /\ \A i \in Ids : i > n => run[i] = "none"
  /\ n = 0 => pc = "idle" /\ out = Blank
  /\ pc \in Working => out.status = "unavailable" /\ ~out.measured
  /\ pc \in Working \cup Cleaning => ~out.deleted
  /\ n > 0 /\ run[n] = "active" => out.executed
  /\ pc = "run" => run[n] = "none"
  /\ pc = "measure" /\ phase = "tcp" => run[n] = "ok"
  /\ out.measured /\ out.status = "observed" => run[n] = "ok"
  /\ pc \in {"delete", "gone"} => run[n] # "active"
  /\ pc = "final" /\ out.status = "observed" => n \notin jobs
  /\ DeletedIsGone /\ NothingHidden
=============================================================================
