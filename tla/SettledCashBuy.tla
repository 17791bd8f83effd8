--------------------------- MODULE SettledCashBuy ---------------------------
(***************************************************************************)
(* The settled cash that the equity buys of one cash-only cycle share.     *)
(*                                                                         *)
(* execute_rebalance observes the account's SettledCash before the buys    *)
(* and again for every candidate, sizes the order against the least budget *)
(* seen and submits it through _SettledCashDeadlineIB, which goes on       *)
(* listening to account events while the order is prepared, reserved and   *)
(* placed.  Events arrive whenever the broker connection is pumped: the    *)
(* cash may fall, rise or become unreadable between any two steps.         *)
(*                                                                         *)
(* An amount is a number of units of cash, a quantity what it costs.       *)
(***************************************************************************)
EXTENDS Integers, FiniteSets

CONSTANTS
  Symbols,   \* the targets of the cycle
  Cash,      \* bound: settled cash is at most this many units
  Reserve,   \* reserved cash, never invested
  Minimum,   \* minimum_order_notional
  MaxRows,   \* bound: SettledCash rows received during one refresh
  None       \* no usable observation

ASSUME AmountsAssumption == /\ Cash \in Nat
                            /\ Reserve \in Nat
                            /\ Minimum \in Nat \ {0}
                            /\ None \notin Int

VARIABLES
  pc,          \* where the buy loop is
  todo,        \* symbols the loop has not reached
  investable,  \* investable_buying_power
  planned,     \* quantity of the intent
  remaining,   \* the proxy's remaining_buying_power
  invalid,     \* the proxy's _invalid
  prepared,    \* the proxy's prepared_quantity
  late,        \* more than 30 seconds since refresh_started
  (* History variables.                                                    *)
  headroom,    \* what the observations so far still allow to be spent
  since,       \* the least one of them since the current order was placed
  slipped,     \* executed part of the orders reported as cancelled
  unverified   \* some refresh of the cycle gave no usable observation

proxy  == <<remaining, invalid, prepared>>
ghosts == <<headroom, since, slipped, unverified>>
vars   == <<pc, todo, investable, planned, proxy, late, ghosts>>

Submitting == {"prepare", "reserve", "place", "report"}
Amounts    == 0..Cash

\* SettledCash rows of the account and the currency. An amount of zero stands
\* for every finite amount that is not positive.
Rows == [amount: Amounts, fresh: BOOLEAN]

Least(a, b) == IF a <= b THEN a ELSE b

Init ==
  /\ pc = "budget" /\ todo = Symbols
  /\ investable = 0 /\ planned = 0
  /\ remaining = 0 /\ invalid = FALSE /\ prepared = 0
  /\ late = FALSE
  /\ headroom = Cash /\ since = Cash /\ slipped = 0 /\ unverified = FALSE

-----------------------------------------------------------------------------
(***************************************************************************)
(* The budget.                                                             *)
(***************************************************************************)

\* Mutant: the budget is not cut off at zero.
Unbounded(v) == v - Reserve
\* What an observation leaves to invest.
Investable(v) == IF v > Reserve THEN v - Reserve ELSE 0

\* The refresh must complete, and the rows received must be fresh and agree.
SettledCash(rows, complete) ==
  IF complete /\ rows # {} /\ \A r, s \in rows : r.fresh /\ r.amount = s.amount
    THEN CHOOSE v \in Amounts : \E r \in rows : r.amount = v
    ELSE None

\* What a refresh may return.
Observations ==
  {SettledCash(rows, complete) :
     rows \in {R \in SUBSET Rows : Cardinality(R) <= MaxRows}, complete \in BOOLEAN}

\* Mutant: an unreadable refresh only skips its candidate.
WorthIfSeen(seen) == IF seen = None THEN Cash ELSE Investable(seen)
\* Nothing observed is worth nothing.
Worth(seen) == Investable(IF seen = None THEN 0 ELSE seen)

\* History: the observation bounds what may be spent from now on.
Note(seen) ==
  /\ headroom' = IF seen = None THEN headroom ELSE Least(headroom, Investable(seen))
  /\ unverified' = (unverified \/ seen = None)
  /\ UNCHANGED <<since, slipped>>

ObserveBudget ==
  /\ pc = "budget"
  /\ \E seen \in Observations : investable' = Worth(seen) /\ Note(seen)
  /\ pc' = "next"
  /\ UNCHANGED <<todo, planned, proxy, late>>

\* A small account, the new-risk gate, sales that wait for their release or
\* negative cash block every buy; otherwise the loop ends with its targets.
EndBuys ==
  /\ pc = "next"
  /\ pc' = "ended"
  /\ UNCHANGED <<todo, investable, planned, proxy, late, ghosts>>

\* The next symbol below its target: settled cash is observed again, and a
\* later observation only lowers the budget.
NextCandidate ==
  /\ pc = "next"
  /\ \E symbol \in todo, seen \in Observations :
       /\ todo' = todo \ {symbol}
       /\ investable' = Least(investable, Worth(seen))
       /\ pc' = IF seen = None \/ seen = 0 THEN "next" ELSE "size"
       /\ Note(seen)
  /\ late' = FALSE
  /\ UNCHANGED <<planned, proxy>>

\* The symbol is at its target, has no price, too small a value or quantity,
\* or the observation expired while it was sized.
SkipCandidate ==
  /\ pc = "size"
  /\ pc' = "next"
  /\ UNCHANGED <<todo, investable, planned, proxy, late, ghosts>>

\* The order is sized within the budget and the proxy starts listening.
Size ==
  /\ pc = "size" /\ ~late
  /\ \E q \in Minimum..investable : planned' = q
  /\ remaining' = investable /\ invalid' = FALSE /\ prepared' = 0
  /\ pc' = "prepare"
  /\ UNCHANGED <<todo, investable, late, ghosts>>

-----------------------------------------------------------------------------
(***************************************************************************)
(* The order.                                                              *)
(***************************************************************************)

\* What is left of the planned quantity after the buffer of five per cent.
Resized == Least(planned, (remaining * 95) \div 100)

\* The contract is qualified and the intent resized; an update that arrived
\* meanwhile, or too small an order, rejects it before anything is reserved.
Prepare ==
  /\ pc = "prepare"
  /\ IF invalid \/ Resized < Minimum
       THEN /\ pc' = "next"
            /\ invalid' = TRUE
            /\ investable' = Least(investable, remaining)
            /\ UNCHANGED prepared
       ELSE /\ pc' = "reserve"
            /\ prepared' = Resized
            /\ UNCHANGED <<invalid, investable>>
  /\ UNCHANGED <<todo, planned, remaining, late, ghosts>>

ReserveAttempt ==
  /\ pc = "reserve"
  /\ pc' = "place"
  /\ UNCHANGED <<todo, investable, planned, proxy, late, ghosts>>

\* Qualification, the journal or dispatch raises, or placeOrder refuses: the
\* exception, or the outcome unknown to the journal, ends the buys.
Raise ==
  /\ pc \in Submitting
  /\ pc' = "ended"
  /\ UNCHANGED <<todo, investable, planned, proxy, late, ghosts>>

\* Mutant: placeOrder trusts the quantity that was prepared.
PreparedCovers == ~invalid
\* What placeOrder checks of the cash.
Covered == ~invalid /\ prepared <= remaining

PlaceOrder ==
  /\ pc = "place" /\ Covered /\ ~late
  /\ pc' = "report"
  /\ since' = Cash
  /\ UNCHANGED <<todo, investable, planned, proxy, late, headroom, slipped, unverified>>

\* The gate in front of the venue answers "Rejected" and places no order.
RefuseOrder ==
  /\ pc = "place"
  /\ pc' = "next"
  /\ investable' = Least(investable, remaining)
  /\ UNCHANGED <<todo, planned, proxy, late, ghosts>>

\* The loop takes over what the proxy has left.
Budget == Least(investable, remaining)

\* Filled, partly filled or pending: its whole cost leaves the budget.
ReportAccepted ==
  /\ pc = "report"
  /\ pc' = "next"
  /\ investable' = Budget - prepared
  /\ headroom' = Least(headroom - prepared, since)
  /\ UNCHANGED <<todo, planned, proxy, late, since, slipped, unverified>>

\* Rejected or cancelled, after executed units were filled: the order counts
\* as failed and nothing leaves the budget.
ReportFailed ==
  /\ pc = "report"
  /\ pc' = "next"
  /\ investable' = Budget
  /\ \E executed \in 0..prepared :
       /\ headroom' = Least(headroom - executed, since)
       /\ slipped' = slipped + executed
  /\ UNCHANGED <<todo, planned, proxy, late, since, unverified>>

\* Any other status, or no broker order id: the outcome is unknown.
ReportUnknown ==
  /\ pc = "report"
  /\ pc' = "ended"
  /\ investable' = Budget
  /\ headroom' = Least(headroom - prepared, since)
  /\ UNCHANGED <<todo, planned, proxy, late, since, slipped, unverified>>

-----------------------------------------------------------------------------
(***************************************************************************)
(* The account, while the proxy listens.                                   *)
(***************************************************************************)

\* Mutant: the proxy remembers the last valid update, not the least.
LastUpdate(v) == Investable(v)
\* What a valid update leaves of the proxy's budget.
Lowered(v) == Least(remaining, Investable(v))

\* A fresh positive SettledCash row, before and after the order is placed.
CashUpdate ==
  /\ pc \in Submitting
  /\ \E v \in Amounts \ {0} :
       /\ remaining' = Lowered(v)
       /\ IF pc = "report"
            THEN since' = Least(since, Investable(v)) /\ UNCHANGED headroom
            ELSE headroom' = Least(headroom, Investable(v)) /\ UNCHANGED since
  /\ UNCHANGED <<pc, todo, investable, planned, invalid, prepared, late, slipped, unverified>>

\* A row that is stale, malformed or not positive: no later one repairs it.
BadUpdate ==
  /\ pc \in Submitting
  /\ invalid' = TRUE
  /\ UNCHANGED <<pc, todo, investable, planned, remaining, prepared, late, ghosts>>

\* Thirty seconds pass since the candidate's refresh.
Expire ==
  /\ pc \in {"size"} \cup Submitting
  /\ late' = TRUE
  /\ UNCHANGED <<pc, todo, investable, planned, proxy, ghosts>>

Next ==
  \/ ObserveBudget \/ EndBuys \/ NextCandidate \/ SkipCandidate \/ Size
  \/ Prepare \/ ReserveAttempt \/ Raise \/ PlaceOrder \/ RefuseOrder
  \/ ReportAccepted \/ ReportFailed \/ ReportUnknown
  \/ CashUpdate \/ BadUpdate \/ Expire

Spec == Init /\ [][Next]_vars

-----------------------------------------------------------------------------
(***************************************************************************)
(* Properties.                                                             *)
(***************************************************************************)

\* The switches of the proxy and of the history.
Switches == invalid \in BOOLEAN /\ late \in BOOLEAN /\ unverified \in BOOLEAN

\* The variables have their types (the buy loop of execute_rebalance and the
\* fields of _SettledCashDeadlineIB); the proxy's budget is never negative,
\* the loop's may be.
TypeOK ==
  /\ pc \in {"budget", "next", "size", "ended"} \cup Submitting
  /\ todo \subseteq Symbols
  /\ investable \in Int /\ investable <= Cash
  /\ planned \in Amounts /\ remaining \in Amounts /\ prepared \in Amounts
  /\ since \in Amounts /\ headroom \in Int /\ slipped \in Nat
  /\ Switches

\* The orders placed after any settled-cash observation of a cycle, those the
\* broker still works included, never cost more than it left to invest. This
\* is what "symbols share the remaining budget" says of the buy loop.
SharedBudget == headroom >= 0

\* As SharedBudget, up to the executed part of orders reported as cancelled,
\* which execute_rebalance does not deduct: no other path overspends.
SpentWithinBudget == headroom + slipped >= 0

\* Once a refresh of the cycle could not establish the settled cash, no later
\* candidate reaches submission, however much cash its own refresh shows
\* (the budget of execute_rebalance fell to zero and cannot recover).
UnverifiedStopsBuys == unverified => pc \notin Submitting

\* The inductive invariant: what the loop or the proxy believes is left never
\* exceeds what the observations allow, cancelled fills aside.
BelievedBudget ==
  LET allowed == headroom + slipped
  IN /\ pc = "budget" => Cash <= allowed /\ ~unverified
     /\ pc \in {"next", "size"} => investable <= allowed
     /\ pc \in Submitting => remaining <= allowed
     /\ pc = "report" => prepared <= allowed /\ remaining <= since
     /\ unverified => investable <= 0

IInv == TypeOK /\ SpentWithinBudget /\ BelievedBudget /\ UnverifiedStopsBuys
=============================================================================
