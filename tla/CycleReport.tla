----------------------------- MODULE CycleReport ----------------------------
(***************************************************************************)
(* What a live request tells of itself (main._handle_request): the pass's  *)
(* summary becomes a reconciliation record, a notice, an execution receipt *)
(* and a runtime report; the reports of a day become the row of its digest *)
(* (project_digest_candidates).  What the broker did is chosen; the model  *)
(* follows what is said of it, whatever fails on the way.                  *)
(***************************************************************************)
EXTENDS Integers, FiniteSets

CONSTANT Runs   \* bound: requests of one day, in the order in which they begin

R == 1..Runs
Deeds == {"none", "sent", "filled"}   \* what the broker has of the run
\* How an order-free summary ends, and one with orders: a guard may refuse
\* (expected), a gate fail (blocked).
Statuses == {"no_op", "guarded", "blocked", "executed", "pending_reconciliation"}
NoSummary == [status |-> "", submitted |-> FALSE, filled |-> FALSE, brake |-> FALSE]
Outcomes ==
  {"no_action", "no_signal", "risk_blocked", "submitted", "filled", "reconciliation_required", "failed", "unknown"}
NoReport == [status |-> "", outcome |-> "", sum |-> NoSummary]

VARIABLES
  pc,       \* by run
  lock,     \* STRATEGY_RUN_LOCK: the run that has it, or 0
  did,      \* by run: what the broker did
  sum,      \* by run: the summary of the pass
  report,   \* by run: as the process has it
  stored,   \* by run: what the bucket has
  marker,   \* the day's execution marker
  told      \* by run: a message went out, whether or not it was accepted

vars == <<pc, lock, did, sum, report, stored, marker, told>>

Reports == [status: {"", "ok", "skipped", "error"}, outcome: Outcomes \cup {""},
            sum: [status: Statuses \cup {""}, submitted: BOOLEAN, filled: BOOLEAN, brake: BOOLEAN]]

TypeOK ==
  /\ pc \in [R -> {"idle", "plugins", "market", "pass", "mark", "record", "publish", "report", "close", "over"}]
  /\ lock \in 0..Runs /\ did \in [R -> Deeds]
  /\ \A r \in R : sum[r] \in [status: Statuses \cup {""}, submitted: BOOLEAN, filled: BOOLEAN, brake: BOOLEAN]
  /\ \A r \in R : {report[r], stored[r]} \subseteq Reports
  /\ marker \in BOOLEAN /\ told \in [R -> BOOLEAN]

Init ==
  /\ pc = [r \in R |-> "idle"] /\ lock = 0 /\ did = [r \in R |-> "none"]
  /\ sum = [r \in R |-> NoSummary] /\ report = [r \in R |-> NoReport] /\ stored = [r \in R |-> NoReport]
  /\ marker = FALSE /\ told = [r \in R |-> FALSE]

At(r, p) == pc[r] = p
Go(r, p) == pc' = [pc EXCEPT ![r] = p]
\* A message is accepted, or it is refused and that is all.
Tell(r) == told' = [told EXCEPT ![r] = TRUE]
Quiet == UNCHANGED told

----------------------------------------------------------------------------
(* The request.                                                            *)

\* The plugins are loaded before the lock is tried.
Begin(r) ==
  /\ At(r, "idle") /\ (\A q \in 1..r - 1 : ~At(q, "idle")) /\ Go(r, "plugins")
  /\ UNCHANGED <<lock, did, sum, report, stored, marker>> /\ Quiet

\* Another run has the lock.
Overlap(r) ==
  /\ At(r, "plugins") /\ lock # 0
  /\ report' = [report EXCEPT ![r].status = "skipped"] /\ Go(r, "close")
  /\ UNCHANGED <<lock, did, sum, stored, marker>> /\ Quiet
TakeLock(r) ==
  /\ At(r, "plugins") /\ lock = 0 /\ lock' = r /\ Go(r, "market")
  /\ UNCHANGED <<did, sum, report, stored, marker>> /\ Quiet

\* The market is closed, or the strategy cannot be executed here.
Skip(r) ==
  /\ At(r, "market")
  /\ report' = [report EXCEPT ![r].status = "skipped"] /\ Go(r, "close")
  /\ UNCHANGED <<lock, did, sum, stored, marker>> /\ Quiet
Start(r) ==
  /\ At(r, "market") /\ Go(r, "pass")
  /\ UNCHANGED <<lock, did, sum, report, stored, marker>> /\ Quiet

\* What an exception leaves: an error, a notice of the failure, a non-200.
Raise(r) ==
  /\ report' = [report EXCEPT ![r] = [NoReport EXCEPT !.status = "error"]] /\ Go(r, "close")
  /\ Tell(r)

----------------------------------------------------------------------------
(* The pass (run_strategy_core).                                           *)

Pass(r, deed, s, next) ==
  /\ did' = [did EXCEPT ![r] = deed] /\ sum' = [sum EXCEPT ![r] = s] /\ Go(r, next)
  /\ UNCHANGED <<lock, report, stored, marker>> /\ Quiet

\* There is no target: nothing is traded, unless the account's brake sends
\* one reduction.
Idle(r) ==
  /\ At(r, "pass")
  /\ \E brake \in BOOLEAN, status \in {"no_op", "guarded", "blocked"} :
       \E deed \in IF brake THEN Deeds ELSE {"none"} :
         Pass(r, deed, [NoSummary EXCEPT !.status = status, !.brake = brake], "record")
\* The day was recorded before.
Already(r) ==
  /\ At(r, "pass") /\ marker /\ Pass(r, "none", [NoSummary EXCEPT !.status = "no_op"], "record")
\* It trades, or not; the marker may be there and unreadable.
Execute(r) ==
  /\ At(r, "pass")
  /\ \/ \E status \in {"no_op", "guarded", "blocked"} :
          Pass(r, "none", [NoSummary EXCEPT !.status = status], "mark")
     \/ Pass(r, "sent", [NoSummary EXCEPT !.status = "executed", !.submitted = TRUE], "mark")
     \/ Pass(r, "filled", [NoSummary EXCEPT !.status = "executed", !.submitted = TRUE, !.filled = TRUE], "mark")
     \/ \E deed \in {"none", "sent"} :
          Pass(r, deed, [NoSummary EXCEPT !.status = "pending_reconciliation"], "mark")
\* It is broken off, before or after the broker has something.
BrokenOff(r) ==
  /\ At(r, "pass") /\ (\E deed \in Deeds : did' = [did EXCEPT ![r] = deed])
  /\ Raise(r) /\ UNCHANGED <<lock, sum, stored, marker>>

\* A pass that is not blocked and has accepted orders closes the day; that the
\* marker is not written is told.
Records(r) == sum[r].status # "blocked" /\ sum[r].status # "guarded" /\ (sum[r].status = "executed" \/ sum[r].submitted)
Mark(r) ==
  /\ At(r, "mark") /\ Go(r, "record")
  /\ IF Records(r) THEN (marker' = TRUE /\ Quiet) \/ (marker' \in {marker, TRUE} /\ Tell(r))
                   ELSE UNCHANGED marker /\ Quiet
  /\ UNCHANGED <<lock, did, sum, report, stored>>

\* The reconciliation record, which may not be writable.
Record(r) ==
  /\ At(r, "record")
  /\ \/ Go(r, "publish") /\ Quiet /\ UNCHANGED report
     \/ Raise(r)
  /\ UNCHANGED <<lock, did, sum, stored, marker>>

\* The notice of the cycle: to the digest, at once, or the run is marked.
Publish(r) ==
  /\ At(r, "publish") /\ Go(r, "report") /\ Tell(r)
  /\ UNCHANGED <<lock, did, sum, report, stored, marker>>

----------------------------------------------------------------------------
(* The report.                                                             *)

\* A guard that was expected to refuse is no failure.
Failed(s) == s.status = "blocked"
\* The strongest fact of the summary; the brake's reduction is none of it.
Fact(s) ==
  CASE Failed(s) -> "failed"
    [] s.status = "pending_reconciliation" -> "reconciliation_required"
    [] s.filled -> "filled"
    [] s.submitted -> "submitted"
    [] s.status = "guarded" -> "risk_blocked"
    [] OTHER -> "no_action"

\* The other orders of the day are settled and observed first, which may fail.
Finish(r) ==
  /\ At(r, "report")
  /\ \/ /\ \E outcome \in {Fact(sum[r])} \cup (IF Fact(sum[r]) = "no_action" THEN {"no_signal"} ELSE {}) :
             report' = [report EXCEPT ![r] = [status |-> IF Failed(sum[r]) THEN "error" ELSE "ok",
                                              outcome |-> outcome, sum |-> sum[r]]]
        /\ Go(r, "close") /\ Quiet
     \/ Raise(r)
  /\ UNCHANGED <<lock, did, sum, stored, marker>>

\* What an early end says: no action, even of a failure.
NoAction(s) == "no_action"
\* What a failed run did is not known.
Fallback(s) == IF s = "error" THEN "unknown" ELSE "no_action"
\* Every end passes here: the lock goes, the receipt is completed.
Complete(r) ==
  IF report[r].outcome = "" THEN [report[r] EXCEPT !.outcome = Fallback(report[r].status)] ELSE report[r]
\* Only a write that raises is unconfirmed.
OnlyRaised(kept) == kept = "lost"
\* The report must be in the cloud, a local path is no confirmation.
Unconfirmed(kept) == kept # "cloud"
Close(r) ==
  /\ At(r, "close") /\ Go(r, "over")
  /\ lock' = IF lock = r THEN 0 ELSE lock
  /\ report' = [report EXCEPT ![r] = Complete(r)]
  /\ \E kept \in {"cloud", "local", "lost"} :
       /\ \/ kept # "local" /\ stored' = [stored EXCEPT ![r] = Complete(r)]
          \/ kept # "cloud" /\ UNCHANGED stored
       /\ IF Unconfirmed(kept) /\ report[r].status # "error" THEN Tell(r) ELSE Quiet
  /\ UNCHANGED <<did, sum, marker>>

----------------------------------------------------------------------------
(* The digest (project_digest_candidates).                                 *)

Kept == {r \in R : stored[r] # NoReport}
\* The strategy's own orders.
StrategyOnly(p) == p.sum.status # "" /\ ~p.sum.submitted
\* The number of orders is unknown when the account's brake sent something.
SubmittedNone(p) == p.sum.status # "" /\ ~p.sum.submitted /\ ~p.sum.brake
\* No order and no fill, which a receipt of no action and a completed run prove.
ProvenZero(p) ==
  /\ SubmittedNone(p) /\ p.sum.status = "no_op" /\ p.status = "ok"
  /\ p.outcome \in {"no_action", "no_signal"}
Activity(p) ==
  IF p.outcome # "risk_blocked" THEN p.outcome ELSE IF p.status = "error" THEN "failed" ELSE "no_action"
Alerting(p) == Activity(p) \in {"failed", "unknown", "reconciliation_required"} \/ p.status = "error"
Newest(S) == CHOOSE r \in S : \A q \in S : q <= r
\* One of the runs proves it.
SomeZero(S) == \E r \in S : ProvenZero(stored[r])
\* All the runs are known.
AllZero(S) == \A r \in S : ProvenZero(stored[r])
\* The newest run says how the day was.
LastAlerts(S) == Alerting(stored[Newest(S)])
\* Any run that alerts makes the row alert.
AnyAlerts(S) == \E r \in S : Alerting(stored[r])
\* Any run was refused by a gate.
AnyRefused(S) == \E r \in S : stored[r].outcome = "risk_blocked"
\* The newest run was refused, and sent nothing.
NewestRefused(S) ==
  LET p == stored[Newest(S)] IN p.status = "ok" /\ p.outcome = "risk_blocked" /\ SubmittedNone(p)
\* The row of the reports it is given.
Row(S) == [alert |-> AnyAlerts(S), orders |-> IF AllZero(S) THEN "zero" ELSE "unknown", refused |-> NewestRefused(S)]
\* A day's reports, as far as they are there when the digest is made.
Days == (SUBSET Kept) \ {{}}

Next ==
  \E r \in R :
       \/ Begin(r) \/ Overlap(r) \/ TakeLock(r) \/ Skip(r) \/ Start(r)
       \/ Idle(r) \/ Already(r) \/ Execute(r) \/ BrokenOff(r) \/ Mark(r) \/ Record(r) \/ Publish(r)
       \/ Finish(r) \/ Close(r)

Spec == Init /\ [][Next]_vars

----------------------------------------------------------------------------
(* Properties.                                                             *)

\* A digest that counts no orders is right: in none of its runs has the broker
\* anything, the account's brake included.
ZeroIsZero == \A S \in Days : Row(S).orders = "zero" => \A r \in S : did[r] = "none"

\* A refusal is shown of a run that sent nothing, the newest.
RefusedIsTrue == \A S \in Days : Row(S).refused => did[Newest(S)] = "none"

\* A receipt that says no action is right but for the brake, one of a fill
\* also.
ReceiptTrue ==
  \A r \in R : At(r, "over") =>
    /\ (report[r].outcome \in {"no_action", "no_signal", "risk_blocked"} /\ ~report[r].sum.brake) => did[r] = "none"
    /\ report[r].outcome = "filled" => did[r] = "filled"

\* A run that is over and sent something, that failed, or whose report is not
\* there was told of, as far as messages get there.
RunTold ==
  \A r \in R : (At(r, "over") /\ (did[r] # "none" \/ report[r].status = "error" \/ stored[r] = NoReport)) =>
    told[r]

\* A failed run makes the digest of its day alert.
AlertShown == \A S \in Days : (\E r \in S : stored[r].status = "error") => Row(S).alert

(***************************************************************************)
(* The inductive invariant behind all of them.                             *)
(***************************************************************************)

\* What of TypeOK the rest of it needs.
Shaped ==
  /\ {DOMAIN pc, DOMAIN did, DOMAIN sum, DOMAIN report, DOMAIN stored, DOMAIN told} = {R}
  /\ \A r \in R : DOMAIN report[r] = DOMAIN NoReport /\ DOMAIN stored[r] = DOMAIN NoReport

\* A summary, and a receipt, that are right of what the broker did.
Fits(s, deed) ==
  /\ s.status \in Statuses /\ (s.status = "executed" => s.submitted)
  /\ s.status \in {"no_op", "guarded"} /\ ~s.brake => deed = "none"
  /\ s.filled => deed = "filled"
Sound(p, deed) ==
  /\ p.outcome \in {"no_action", "no_signal", "risk_blocked"} /\ ~p.sum.brake => deed = "none"
  /\ p.outcome = "filled" => deed = "filled"

\* What is known of a run where it is.
Along(r) ==
  /\ pc[r] \in {"idle", "plugins", "market", "pass"} => did[r] = "none" /\ report[r] = NoReport
  /\ pc[r] \in {"mark", "record", "publish", "report"} => Fits(sum[r], did[r])
  /\ pc[r] = "report" => told[r]
  /\ pc[r] = "close" =>
       /\ Sound(report[r], did[r])
       /\ report[r].outcome = "" => report[r].status = "error" \/ did[r] = "none"
       /\ did[r] # "none" \/ report[r].status = "error" => told[r]
  /\ pc[r] = "over" => Sound(report[r], did[r])
  /\ stored[r] # NoReport => pc[r] = "over" /\ Sound(stored[r], did[r])
IInv == Shaped /\ (\A r \in R : Along(r)) /\ RunTold
=============================================================================
