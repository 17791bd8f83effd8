---------------------------- MODULE FlexForward -----------------------------
(***************************************************************************)
(* The forward evidence of the daily Flex collector.                       *)
(*                                                                         *)
(* flex_daily.runner.collect fetches one report for each day, newest days  *)
(* first, and qualifies it: the report's snapshot is the day's anchor, and *)
(* its events are measured in the interval from the latest earlier anchor  *)
(* to its own.  A provider may revise a report, refuse it or send one that *)
(* cannot be qualified; the job may be killed between any two writes.  The *)
(* lease lets one run at a time touch the coverage, and every change of it *)
(* is persisted before the next step, so the coverage is one variable.     *)
(*                                                                         *)
(* One account; day d is anchored at time d.  Left out, since they only    *)
(* take behaviours away or revoke what is modelled here: the monthly       *)
(* controls, and the blocked flag that an operator has to clear.           *)
(***************************************************************************)
EXTENDS Integers, FiniteSets

CONSTANTS
  LastDay,   \* bound: forward days are 1..LastDay
  Recent,    \* days fetched again by every run (7)
  Limit,     \* windows of a run (30)
  Events,    \* native events
  When,      \* When[e]: the effective time of event e
  None       \* no report, no evidence, no anchor

Days == 1..LastDay

ASSUME ForwardAssumption == /\ LastDay \in Nat /\ Recent \in Nat /\ Limit \in Nat
                            /\ When \in [Events -> Nat]

\* What tells two reports of one day apart: whether its snapshot can serve as
\* an anchor, whether all its events can be read, and the events that can,
\* late and repeated ones included.
Reports == [anchors: BOOLEAN, readable: BOOLEAN, rows: SUBSET Events]

\* What qualify derives from a report and the prior anchor.
Evidence == [anchors: BOOLEAN, prior: Days \cup {None}, source: Reports \cup {None},
             selected: SUBSET Events, seen: SUBSET Events]

ASSUME NoneAssumption == None \notin Nat /\ None \notin Reports /\ None \notin Evidence

\* failed: the slot has a next_attempt_at and may not be due.
Slots == [raw: Reports \cup {None}, status: {"none", "missing", "pending", "received", "complete"},
          evidence: Evidence \cup {None}, validated: BOOLEAN, failed: BOOLEAN]

VARIABLES
  target,    \* the last complete day
  coverage,  \* coverage[d]: the slot of day d in state/coverage.json
  pc,        \* where the run is: "idle", "next" or "fetch"
  windows,   \* the days it still has to process
  window     \* the day it processes

vars == <<target, coverage, pc, windows, window>>

Blank(status) == [raw |-> None, status |-> status, evidence |-> None, validated |-> FALSE,
                  failed |-> FALSE]

NoSlot == Blank("none")

Init ==
  /\ target = 0 /\ coverage = [d \in Days |-> NoSlot]
  /\ pc = "idle" /\ windows = {} /\ window = None

-----------------------------------------------------------------------------
(***************************************************************************)
(* The queue.                                                              *)
(***************************************************************************)

\* Every day up to the target has a slot.
Seeded ==
  [d \in Days |-> IF d <= target /\ coverage[d].status = "none"
                    THEN Blank("missing") ELSE coverage[d]]

IsRecent(d) == d > target - Recent

\* Recent days come newest first, whatever their status, then the oldest
\* holes. resting are those whose next attempt is not due.
Precedes(d, e) ==
  \/ IsRecent(d) /\ IsRecent(e) /\ d > e
  \/ IsRecent(d) /\ ~IsRecent(e)
  \/ ~IsRecent(d) /\ ~IsRecent(e) /\ d < e

Due(resting) ==
  {d \in Days : /\ d <= target /\ d \notin resting
                /\ IsRecent(d) \/ Seeded[d].status # "complete"}

Selected(resting) ==
  {d \in Due(resting) : Cardinality({e \in Due(resting) : Precedes(e, d)}) < Limit}

Start ==
  /\ pc = "idle"
  /\ coverage' = Seeded
  /\ \E resting \in SUBSET {d \in Days : coverage[d].failed} : windows' = Selected(resting)
  /\ pc' = "next"
  /\ UNCHANGED <<target, window>>

\* What is left of a slot whose validation is revoked: its report, if any.
Cleared(slot, status) ==
  [raw |-> slot.raw, status |-> status, evidence |-> None, validated |-> FALSE,
   failed |-> slot.failed]

\* The validation of the next window is revoked, and that is persisted,
\* before its report is fetched.
Revoke ==
  /\ pc = "next"
  /\ \E d \in windows :
       /\ \A e \in windows \ {d} : Precedes(d, e)
       /\ window' = d /\ windows' = windows \ {d}
       /\ coverage' = [coverage EXCEPT ![d] = Cleared(coverage[d], "missing")]
  /\ pc' = "fetch"
  /\ UNCHANGED target

\* The queue or the budget of the run is exhausted, a call raises, or the job
\* is killed: what was not persisted is lost, and nothing was.
Stop ==
  /\ pc # "idle"
  /\ pc' = "idle" /\ windows' = {} /\ window' = None
  /\ UNCHANGED <<target, coverage>>

-----------------------------------------------------------------------------
(***************************************************************************)
(* One window.                                                             *)
(***************************************************************************)

\* Mutant: only the next day is revoked.
Adjacent(d) == {d + 1} \cap Days
\* Later intervals were qualified against this evidence.
Following(d) == {e \in Days : d < e /\ e <= target}

\* Mutant: the days are queued again but keep their validation.
Requeued(d) ==
  [e \in Days |-> IF e \in Following(d)
     THEN [coverage[e] EXCEPT !.status = "pending", !.evidence = None] ELSE coverage[e]]
\* They keep their reports and need fresh validation.
Revoked(d) ==
  [e \in Days |-> IF e \in Following(d)
                    THEN Cleared(coverage[e], "pending") ELSE coverage[e]]

\* The latest earlier day with an anchor.
Anchors(d) == {p \in Days : /\ p < d /\ coverage[p].evidence # None
                            /\ coverage[p].evidence.anchors}
Latest(d, p) == p \in Anchors(d) /\ \A q \in Anchors(d) : q <= p
Prior(d) ==
  IF \E p \in Days : Latest(d, p) THEN CHOOSE p \in Days : Latest(d, p) ELSE None

\* Mutant: an event at the prior anchor's time belongs to the interval.
FromAnchor(e, p, d) == p # None /\ p <= When[e] /\ When[e] <= d
\* The interval excludes the prior anchor's time and includes the day's own.
Within(e, p, d) == p # None /\ p < When[e] /\ When[e] <= d

Qualified(d, report) ==
  LET p        == Prior(d)
      before   == IF p = None THEN {} ELSE coverage[p].evidence.seen
      selected == {e \in report.rows \ before : report.anchors /\ Within(e, p, d)}
  IN  [anchors |-> report.anchors, prior |-> p,
       source |-> IF p = None THEN None ELSE coverage[p].raw,
       selected |-> selected, seen |-> before \cup selected]

\* A report with an issue, or without opening, is received, not complete.
Complete(report, evidence) == report.anchors /\ report.readable /\ evidence.prior # None

Outcome(d, report) ==
  LET ev == Qualified(d, report)
  IN  IF Complete(report, ev)
        THEN [raw |-> report, status |-> "complete", evidence |-> ev,
              validated |-> TRUE, failed |-> FALSE]
        ELSE [raw |-> report, status |-> "received", evidence |-> ev,
              validated |-> FALSE, failed |-> TRUE]

\* Did this report replace a different one?
Revises(d, report) == coverage[d].raw \notin {None, report}

\* The report arrives, is stored, qualified and persisted with all that its
\* revision revokes.
Receive ==
  /\ pc = "fetch"
  /\ \E report \in Reports :
       coverage' = [(IF Revises(window, report) THEN Revoked(window) ELSE coverage)
                      EXCEPT ![window] = Outcome(window, report)]
  /\ pc' = "next" /\ window' = None
  /\ UNCHANGED <<target, windows>>

\* No report, or one that fails its checks: what was measured from the day's
\* earlier report is revoked. Some errors end the run.
Fail ==
  /\ pc = "fetch"
  /\ coverage' = [(IF coverage[window].raw # None THEN Revoked(window) ELSE coverage)
                     EXCEPT ![window].failed = TRUE]
  /\ window' = None
  /\ \/ pc' = "next" /\ UNCHANGED windows
     \/ pc' = "idle" /\ windows' = {}
  /\ UNCHANGED target

\* A day passes. A run keeps the target it started with.
DayTick ==
  /\ pc = "idle" /\ target < LastDay
  /\ target' = target + 1
  /\ UNCHANGED <<coverage, pc, windows, window>>

Next == Start \/ Revoke \/ Stop \/ Receive \/ Fail \/ DayTick

Spec == Init /\ [][Next]_vars

-----------------------------------------------------------------------------
(***************************************************************************)
(* Properties.                                                             *)
(***************************************************************************)

\* The coverage, the queue and the target have their types, and the fields of
\* a slot go together (collect and state.seed).
SlotOK(slot) ==
  /\ slot.validated => slot.status = "complete"
  /\ slot.status = "complete" => slot.evidence # None
  /\ slot.evidence # None => slot.raw # None

TypeOK ==
  /\ target \in 0..LastDay
  /\ coverage \in [Days -> Slots]
  /\ \A d \in Days : SlotOK(coverage[d])
  /\ pc \in {"idle", "next", "fetch"}
  /\ windows \subseteq 1..target
  /\ window \in (IF pc = "fetch" THEN 1..target ELSE {None})

Valid(d) == coverage[d].validated

\* A validated interval starts at an anchor that still stands: the report of
\* its prior day is the one it was measured from (invalidate_following).
AnchorNotRevised ==
  \A d \in Days : Valid(d) =>
    LET ev == coverage[d].evidence
    IN  ev.prior \in 1..(d - 1) /\ ev.source # None /\ coverage[ev.prior].raw = ev.source

\* No event is selected by two validated days: what the documentation says of
\* repeated observations, which never become additional movements.
CountedOnce ==
  \A d, f \in Days : Valid(d) /\ Valid(f) /\ d # f =>
    coverage[d].evidence.selected \cap coverage[f].evidence.selected = {}

\* As CountedOnce, for days between which no anchor was skipped: an event is
\* only counted twice by a later day whose interval starts before the earlier.
CountedOnceAlongAnchors ==
  \A d, f \in Days : Valid(d) /\ Valid(f) /\ d < f /\ d <= coverage[f].evidence.prior =>
    coverage[d].evidence.selected \cap coverage[f].evidence.selected = {}

\* Only days up to the target are known; a day without status is untouched.
Known ==
  \A d \in Days : IF coverage[d].status = "none" THEN coverage[d] = NoSlot ELSE d <= target

\* What a day selects lies in its interval.
InInterval(d, evidence) == \A e \in evidence.selected : Within(e, evidence.prior, d)

\* The inductive invariant.
IInv ==
  /\ TypeOK
  /\ AnchorNotRevised
  /\ Known
  /\ pc = "fetch" => coverage[window].status # "none"
  /\ \A d \in Days : coverage[d].evidence # None => InInterval(d, coverage[d].evidence)
=============================================================================
