------------------------- MODULE StrategyEvaluation -------------------------
(***************************************************************************)
(* From the portfolio and the market to a decision that may be executed:   *)
(* strategy_runtime.py (evaluate and its evaluators, the capabilities),    *)
(* application/runtime_strategy_adapters.py (compute_signals) and          *)
(* decision_mapper.py (map_strategy_decision).  One process evaluates      *)
(* again and again while days pass and evidence is granted and revoked.    *)
(* What a strategy decides is its own; a gate stands behind it.            *)
(***************************************************************************)
EXTENDS Integers

CONSTANT
  Days,     \* bound: days
  Changes   \* bound: changes of the evidence

\* One per evaluator: soxl and tqqq target values, one from dated closes under
\* a policy of runtime limits and one from completed bars; russell reads a
\* snapshot under evidence of its regime; any other reads the market.
Profiles == {"soxl", "tqqq", "russell", "other"}
\* What a portfolio is: its net liquidation vouched for by the broker or not;
\* its equity positive, negative with something to sell, or nothing.
Portfolio == [nav : BOOLEAN, equity : {"positive", "deleverage", "nothing"}]
None == [nav |-> FALSE, equity |-> "unread"]
Limits == {"none", "invalid", "valid"}

VARIABLES
  profile,
  policy,     \* trusted_runtime_risk_policy: "fits", "differs", "none"
  today,
  changes,
  evidence,   \* the regime evidence beside the strategy's configuration
  startup,    \* the evidence that was loaded with the process
  pc,
  signal,     \* run_as_of
  portfolio,
  last,       \* the date of the last bar the signal is computed from
  limits,     \* the capability runtime_risk_limits
  status,     \* _last_capability_status: "unset", "verified", "unavailable"
  regime,     \* <<the evidence that was used, that was granted at some time since>>
  result

vars == <<profile, policy, today, changes, evidence, startup, pc, signal, portfolio, last,
          limits, status, regime, result>>
world == <<profile, policy, today, changes, evidence, startup>>
Gates == {"approve", "reject", "silent"}
NoResult == [gate |-> "silent", empty |-> TRUE, actionable |-> FALSE, said |-> "unset"]

TypeOK ==
  /\ profile \in Profiles /\ policy \in {"fits", "differs", "none"}
  /\ today \in 1..Days /\ changes \in 0..Changes
  /\ {evidence, startup} \subseteq {"granted", "revoked"}
  /\ pc \in {"idle", "fetch", "inputs", "context", "evaluate", "map", "done", "raised"}
  /\ signal \in 0..Days /\ last \in 0..Days
  /\ portfolio \in Portfolio \cup {None}
  /\ limits \in Limits /\ status \in {"unset", "verified", "unavailable"}
  /\ regime.used \in {"none", "granted", "revoked"} /\ regime.granted \in BOOLEAN
  /\ result.gate \in Gates /\ {result.empty, result.actionable} \subseteq BOOLEAN
  /\ result.said \in {"unset", "verified", "unavailable"}

Init ==
  /\ profile \in Profiles
  /\ policy \in IF profile = "soxl" THEN {"fits", "differs", "none"} ELSE {"none"}
  /\ evidence \in IF profile = "russell" THEN {"granted", "revoked"} ELSE {"revoked"}
  /\ startup = evidence /\ today = 1 /\ changes = 0
  /\ pc = "idle" /\ signal = 0 /\ last = 0 /\ portfolio = None
  /\ limits = "none" /\ status = "unset"
  /\ regime = [used |-> "none", granted |-> FALSE] /\ result = NoResult

----------------------------------------------------------------------------
evaluation == <<pc, signal, portfolio, last, limits, status, result>>

NextDay ==
  /\ today < Days /\ today' = today + 1
  /\ UNCHANGED <<profile, policy, changes, evidence, startup, regime, evaluation>>

Evidence(as) ==
  /\ profile = "russell" /\ changes < Changes /\ evidence # as
  /\ evidence' = as /\ changes' = changes + 1
  /\ regime' = [regime EXCEPT !.granted = @ \/ as = "granted"]
  /\ UNCHANGED <<profile, policy, today, startup, evaluation>>

----------------------------------------------------------------------------
(* One evaluation.                                                         *)

Raised == pc' = "raised"

\* The date of the signal: the last completed session for tqqq, the date of
\* the run for the others.
AsOf == IF profile = "tqqq" THEN today - 1 ELSE today
Begin ==
  /\ pc \in {"idle", "done", "raised"}
  /\ signal' = AsOf
  /\ pc' = IF AsOf = 0 THEN "raised" ELSE "fetch"
  /\ portfolio' = None /\ last' = 0 /\ limits' = "none" /\ result' = NoResult
  /\ regime' = [used |-> "none", granted |-> evidence = "granted"]
  /\ UNCHANGED <<world, status>>

\* Where a strategy cannot do without, a reading that fails ends the run.
Required == profile \in {"soxl", "tqqq"}
Fetch ==
  /\ pc = "fetch"
  /\ \/ pc' = "inputs" /\ portfolio' \in Portfolio
     \/ pc' = (IF Required THEN "raised" ELSE "inputs") /\ UNCHANGED portfolio
  /\ UNCHANGED <<world, signal, last, limits, status, regime, result>>

\* The sources have bars up to today or yesterday: of those that are dated
\* after the signal none may enter.
AllBars(upTo) == upTo
Within(upTo) == IF profile \in {"soxl", "tqqq"} /\ upTo > signal THEN signal ELSE upTo
\* The completed bar of the signal's day itself is needed.
Complete(upTo) == profile = "tqqq" => Within(upTo) = signal
Inputs ==
  /\ pc = "inputs"
  /\ \/ \E upTo \in {d \in {today - 1, today} : d > 0} :
          IF Complete(upTo)
            THEN last' = Within(upTo) /\ pc' = "context"
            ELSE Raised /\ UNCHANGED last
     \/ Raised /\ UNCHANGED last    \* no history
  /\ UNCHANGED <<world, signal, portfolio, limits, status, regime, result>>

\* The capital is verified by the broker's own valuation, the limits by a
\* policy that is bound to this account, release and configuration.
CapitalVerified == portfolio # None /\ portfolio.nav /\ portfolio.equity = "positive"
Bound == policy = "fits" /\ CapitalVerified
\* Limits that cannot be bound are left out.
IfBound == IF profile = "soxl" /\ Bound THEN "valid" ELSE "none"
BuiltLimits == IF profile # "soxl" THEN "none" ELSE IF Bound THEN "valid" ELSE "invalid"
Verified == IF BuiltLimits = "valid" /\ CapitalVerified THEN "verified" ELSE "unavailable"
\* The status of the first evaluation.
Kept == IF status = "unset" THEN Verified ELSE status
Status == Verified
\* The evidence of the start.
OfTheStart == startup
Reread == evidence
Context ==
  /\ pc = "context"
  /\ limits' = BuiltLimits /\ status' = Status
  /\ regime' = [regime EXCEPT !.used = IF profile = "russell" THEN Reread ELSE "none"]
  /\ pc' = "evaluate"
  /\ UNCHANGED <<world, signal, portfolio, last, result>>

\* The strategy with the gate behind it: it approves nothing without limits it
\* can read, nor without the evidence it needs.
MayApprove == limits # "invalid" /\ (profile = "russell" => regime.used = "granted")
Evaluate ==
  /\ pc = "evaluate"
  /\ \E gate \in IF MayApprove THEN Gates ELSE Gates \ {"approve"}, empty \in BOOLEAN :
       result' = [NoResult EXCEPT !.gate = gate, !.empty = empty, !.said = status]
  /\ pc' = "map"
  /\ UNCHANGED <<world, signal, portfolio, last, limits, status, regime>>

\* What is not rejected.
NotRejected == result.gate # "reject"
Approved == result.gate = "approve"
\* Nothing left, and nothing to sell.
Broke == portfolio # None /\ portfolio.equity = "nothing"
\* Targets are approved as values, which needs an equity.
Valued == portfolio # None
Map ==
  /\ pc = "map"
  /\ IF ~result.empty /\ Approved /\ ~Broke
       THEN IF Valued THEN result' = [result EXCEPT !.actionable = TRUE] /\ pc' = "done"
                      ELSE Raised /\ UNCHANGED result
       ELSE pc' = "done" /\ UNCHANGED result
  /\ UNCHANGED <<world, signal, portfolio, last, limits, status, regime>>

Next ==
  \/ NextDay \/ \E as \in {"granted", "revoked"} : Evidence(as)
  \/ Begin \/ Fetch \/ Inputs \/ Context \/ Evaluate \/ Map

Spec == Init /\ [][Next]_vars

----------------------------------------------------------------------------
(* Properties.                                                             *)

\* What may be executed was approved, targets something, and stands on an
\* equity that is known; under a policy of limits, on the broker's own
\* valuation and limits bound to this account (map_strategy_decision,
\* "missing_risk_approval"; _build_runtime_risk_capabilities).
ActionableIsProven ==
  result.actionable =>
    /\ result.gate = "approve" /\ ~result.empty
    /\ portfolio # None /\ portfolio.equity # "nothing"
    /\ profile = "soxl" => policy = "fits" /\ portfolio.nav /\ portfolio.equity = "positive"

\* A dated signal sees no bar after its date, though days pass between the
\* choice of the date and the reading, and a completed one ends on its date.
NoLookAhead ==
  pc \in {"evaluate", "map", "done"} =>
    /\ profile \in {"soxl", "tqqq"} => last <= signal
    /\ profile = "tqqq" => last = signal

\* Evidence that was revoked before the evaluation began supports nothing
\* ("revocation never reuses startup evidence").
UnderEvidence == result.actionable /\ profile = "russell" => regime.granted

\* The status that is reported is of this evaluation.
StatusIsTrue == pc \in {"map", "done"} /\ result.said = "verified" => limits = "valid" /\ CapitalVerified

(***************************************************************************)
(* The inductive invariant behind all of them.                             *)
(***************************************************************************)

\* The date and the capabilities an evaluation goes on with.
Dated ==
  /\ profile \in Profiles /\ today \in Int /\ signal \in Int
  /\ pc \in {"context", "evaluate", "map", "done"} =>
       /\ profile \in {"soxl", "tqqq"} => last <= signal
       /\ profile = "tqqq" => last = signal
Capable == pc \in {"evaluate", "map", "done"} => limits = BuiltLimits /\ status = Verified

\* Evidence that is granted now, or was used, was granted since the start.
Granted ==
  /\ DOMAIN regime = {"used", "granted"}
  /\ (pc # "idle" /\ evidence = "granted") \/ regime.used = "granted" => regime.granted

\* What a gate may have approved, and said.
Judged ==
  /\ DOMAIN result = DOMAIN NoResult
  /\ pc \notin {"map", "done", "raised"} => result = NoResult
  /\ result.gate = "approve" => MayApprove
  /\ pc = "map" => ~result.actionable /\ result.said = status
  /\ pc = "raised" => ~result.actionable
  /\ pc = "done" => result.said = status
IInv == Dated /\ Capable /\ Granted /\ Judged /\ ActionableIsProven
=============================================================================
