-------------------------- MODULE ReportHeartbeat --------------------------
(***************************************************************************)
(* scripts/execution_report_heartbeat.py: which targets must have reported,*)
(* what the newest objects of the report bucket say of each, and whether   *)
(* the scheduled job ends well.  The scheduler, the listing of the bucket, *)
(* every object and the message may each fail on its own.  Objects are     *)
(* numbered as they were written; an object that cannot be read may be     *)
(* anybody's.                                                              *)
(***************************************************************************)
EXTENDS Integers, FiniteSets, FiniteSetsExt

CONSTANTS
  Targets,      \* the enabled targets, each with its service
  Kinds,        \* what an object may be: [of, as]
  Objects,      \* bound: objects since the lookback began
  Limits        \* values of max_reports

As == {"quiet", "loud", "bad", "conflict"}  \* accepted twice, failing, misnamed

VARIABLES
  store,     \* the objects, oldest first
  jobs,      \* the scheduler's job of every service: due in the window or not
  dueAt,     \* objects written before a target's latest due time
  aware,     \* whether targets are configured with their schedules
  pc,
  required,  \* required_keys
  result     \* "ok", "alert" or "skip", told or not, and the job's exit code

vars == <<store, jobs, dueAt, aware, pc, required, result>>
world == <<store, jobs, dueAt, aware>>

None == [is |-> "none", told |-> FALSE, code |-> 0]

TypeOK ==
  /\ store \in [1..Objects -> Kinds]
  /\ \A k \in Kinds : k.as \in As
  /\ jobs \in [Targets -> {"due", "not", "none"}]
  /\ dueAt \in [Targets -> 0..Objects]
  /\ aware \in BOOLEAN
  /\ pc \in {"hydrate", "resolve", "judge", "over"}
  /\ required \subseteq Targets
  /\ result \in [is: {"none", "ok", "alert", "skip"}, told: BOOLEAN, code: {0, 1}]

Init ==
  /\ store \in [1..Objects -> Kinds]
  /\ jobs \in [Targets -> {"due", "not", "none"}]
  /\ dueAt \in [Targets -> 0..1]
  /\ aware \in BOOLEAN
  /\ pc = "hydrate"
  /\ required = {} /\ result = None

Due == {t \in Targets : jobs[t] = "due"}

----------------------------------------------------------------------------
(* Who must have reported.                                                 *)

Skip ==
  /\ result' = [is |-> "skip", told |-> FALSE, code |-> 0]
  /\ pc' = "over"
\* An alert is sent once, whether or not it arrives; the job is red.
Alert == \E arrives \in BOOLEAN :
  /\ result' = [is |-> "alert", told |-> arrives, code |-> 1]
  /\ pc' = "over"

\* A target without a whole cron asks the scheduler for its own.
Hydrate ==
  /\ pc = "hydrate"
  /\ \/ aware /\ Alert /\ UNCHANGED required
     \/ aware /\ Due = {} /\ Skip /\ UNCHANGED required
     \/ /\ aware => Due # {}
        /\ required' = IF aware THEN Due ELSE Targets
        /\ pc' = "resolve" /\ UNCHANGED result
  /\ UNCHANGED world

\* The list of the jobs, or else those with the name that is expected.
Existing == {t \in Targets : jobs[t] # "none"}
Known == {Existing} \cup SUBSET Existing
\* A service of which no job is known is due.
OnlyKnown(known) == {t \in known : jobs[t] = "due"}
ScheduledDue(known) == {t \in Targets : t \notin known \/ jobs[t] = "due"}
Resolved == {Targets} \cup {ScheduledDue(known) : known \in Known}

\* Services named in RUNTIME_HEARTBEAT_REQUIRED_SERVICES are required in any case.
Resolve ==
  /\ pc = "resolve"
  /\ \E explicit \in BOOLEAN : \E due \in IF explicit THEN {Targets} ELSE Resolved :
       IF due = {} THEN Skip /\ UNCHANGED required
       ELSE required' = required \cap due /\ pc' = "judge" /\ UNCHANGED result
  /\ UNCHANGED world

----------------------------------------------------------------------------
(* What they reported.                                                     *)

\* One pattern per month: what is before or after some moment may be missing.
Listings == {1..last : last \in 0..Objects} \cup {first..Objects : first \in 1..Objects + 1}
\* The newest ones are opened; of any the reading may fail.
Opened(listed, limit) == {o \in listed : Cardinality({p \in listed : p > o}) < limit}

\* Reports of a target that name it rightly and are not older than its run.
Matching(read, t) ==
  {o \in read : store[o] \in [of: {t}, as: As \ {"conflict"}] /\ (aware => o > dueAt[t])}
Says(read, t) == store[Max(Matching(read, t))].as
Accepted(read, t) == Matching(read, t) # {} /\ Says(read, t) \in {"quiet", "loud"}
Quiet(read, t) == Matching(read, t) # {} /\ Says(read, t) = "quiet"
\* The newest report fails, or a newer one is misnamed.
Issue(read, t) ==
  \/ Matching(read, t) # {} /\ Says(read, t) = "bad"
  \/ \E o \in read : store[o] = [of |-> t, as |-> "conflict"] /\ \A p \in Matching(read, t) : p < o

\* What cannot be read may be newer than what was accepted.
NewerThanAll(o, read) == \A t \in required : o > Max(Matching(read, t))
MayBeNewer(o, read) == \E t \in required : o > Max(Matching(read, t))
Incomplete(read, unread) ==
  IF \A t \in required : Quiet(read, t) /\ ~Issue(read, t)
    THEN \E o \in unread : MayBeNewer(o, read)
    ELSE unread # {}

Healthy(read, unread) ==
  /\ required # {}
  /\ \A t \in required : Accepted(read, t) /\ ~Issue(read, t)
  /\ ~Incomplete(read, unread)

\* Healthy reports are published one by one; what is not confirmed is red.
Judge ==
  /\ pc = "judge"
  /\ \E listed \in Listings, limit \in Limits : \E read \in SUBSET Opened(listed, limit) :
       IF listed = 1..Objects /\ Healthy(read, Opened(listed, limit) \ read)
         THEN /\ \E confirmed \in BOOLEAN :
                   result' = [is |-> "ok", told |-> confirmed,
                              code |-> IF confirmed THEN 0 ELSE 1]
              /\ pc' = "over"
         ELSE Alert
  /\ UNCHANGED <<world, required>>

Next == Hydrate \/ Resolve \/ Judge

Spec == Init /\ [][Next]_vars

----------------------------------------------------------------------------
(* Properties.                                                             *)

\* The job is green after reports were read only if the newest object that
\* is a due target's, whether it could be read or not, reports a healthy run
\* under its own name, written after the run was due.
GreenIsHealthy ==
  result.is = "ok" /\ result.code = 0 =>
    \A t \in required :
      LET own == {o \in 1..Objects : store[o].of = t}
      IN  /\ own # {} /\ store[Max(own)].as \in {"quiet", "loud"}
          /\ aware => Max(own) > dueAt[t]

\* Whatever of the scheduler cannot be read: a service that was due is
\* checked, or the job is red.
DueIsChecked ==
  pc = "over" /\ result.code = 0 => \A t \in Due : t \in required

(***************************************************************************)
(* The inductive invariant behind DueIsChecked.                            *)
(***************************************************************************)

\* Nobody who is due is dropped on the way.
IInv ==
  /\ pc \in {"hydrate", "resolve", "judge", "over"} /\ DOMAIN jobs = Targets
  /\ pc \in {"resolve", "judge"} => Due \subseteq required
  /\ DueIsChecked

\* The one behind GreenIsHealthy: nothing is said before it was judged, of
\* objects that do not change.
Green ==
  /\ store \in [1..Objects -> Kinds] /\ dueAt \in [Targets -> 0..1]
  /\ (pc # "over" => result = None) /\ GreenIsHealthy
============================================================================
