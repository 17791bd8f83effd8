--------------------------- MODULE RebalancePass ---------------------------
(***************************************************************************)
(* What one pass of application/execution_service.py, execute_rebalance,   *)
(* orders, and how much of it: the targets against the limits the risk     *)
(* engine approved, the plan that decides whether the day's lock is taken, *)
(* the sells, the cash that is there after them, the buys.  Money and      *)
(* prices are small integers and a share is the quantity step.  Claims,    *)
(* the journal and other instances are TradingCycle; the cash evidence of  *)
(* one buy is SettledCashBuy.                                              *)
(***************************************************************************)
EXTENDS Integers, FiniteSetsExt

CONSTANTS
  Symbols, Haven,   \* the instruments; the safe haven among them
  Inputs,           \* what a pass may be called with
  Cash,             \* the cash the broker may report
  Premium           \* limit price over the last price

Unknown == -1       \* no complete account update (_settled_cash_for_currency)

VARIABLES
  call,     \* how it is called: positions, prices, weights, equity, switches
  pc,
  target,   \* target_mv
  sweep,    \* cash_sweep_quantity
  blind,    \* cash or open orders unknown when the plan was made
  budget,   \* the buying power expected, then investable_buying_power
  funds,    \* history: what it was when the buys began
  left,     \* symbols the running loop has not come to
  stuck,    \* pending_sell_release_symbols
  sold, bought, spent,   \* orders sent and not refused, and their cost
  lock      \* the day's execution lock was taken

vars == <<call, pc, target, sweep, blind, budget, funds, left, stuck, sold, bought, spent, lock>>
plan == <<call, target, sweep, blind>>

Zero == [s \in Symbols |-> 0]
Larger(a, b) == IF a > b THEN a ELSE b
Smaller(a, b) == IF a < b THEN a ELSE b

TypeOK ==
  /\ call \in Inputs
  /\ pc \in {"value", "plan", "lock", "sell", "gate", "buy", "over", "refused"}
  /\ target \in [Symbols -> Int]
  /\ sweep \in Nat /\ blind \in BOOLEAN
  /\ budget \in Nat /\ funds \in Nat
  /\ left \subseteq Symbols /\ stuck \subseteq Symbols
  /\ sold \in [Symbols -> Nat] /\ bought \in [Symbols -> Nat]
  /\ spent \in Nat /\ lock \in BOOLEAN

Init ==
  /\ call \in Inputs
  /\ pc = "value"
  /\ target = Zero /\ sweep = 0 /\ blind = FALSE
  /\ budget = 0 /\ funds = 0
  /\ left = {} /\ stuck = {}
  /\ sold = Zero /\ bought = Zero /\ spent = 0 /\ lock = FALSE

----------------------------------------------------------------------------
(* Sizes.                                                                  *)

Managed == call.managed           \* strategy_symbols; only they are priced
Price(s) == IF s \in Managed THEN call.price[s] ELSE 0
Current(s) == call.held[s] * Price(s)
Reserved == call.reserve
Weighed(amount, w) == (amount * w) \div 100
Cap(s) == Weighed(call.approved, call.weight[s])
Limit(s) == Price(s) + Premium
Overweight(s) == Current(s) > target[s] + call.threshold
Underweight(s) == Current(s) < target[s] - call.threshold
Gap(s) == target[s] - Current(s)
Needed == {s \in Symbols : Underweight(s)}

\* Quantities are rounded up.
SellRoundedUp(s) ==
  IF target[s] <= 0 THEN call.held[s]
  ELSE IF Current(s) <= target[s] \/ Price(s) = 0 THEN 0
  ELSE Smaller((Current(s) - target[s] + Price(s) - 1) \div Price(s), call.held[s])
\* A target of nothing sells every share, any other what is too much.
SellQuantity(s) ==
  IF target[s] <= 0 THEN call.held[s]
  ELSE IF Current(s) <= target[s] \/ Price(s) = 0 THEN 0
  ELSE Smaller((Current(s) - target[s]) \div Price(s), call.held[s])

\* 95 % of the budget at most, in whole shares, worth the minimum order.
BuyHundredths(s, cash) == Smaller(100 * Gap(s), 95 * cash)
Worth(s, cash) == Price(s) > 0 /\ BuyHundredths(s, cash) >= 100 * call.minimum
BuyRoundedUp(s, cash) == (BuyHundredths(s, cash) + 100 * Limit(s) - 1) \div (100 * Limit(s))
BuyQuantity(s, cash) == BuyHundredths(s, cash) \div (100 * Limit(s))

\* The estimate of the rotation guard; it takes the whole budget per symbol.
EstimatedCost(cash) ==
  LET value(s) == Smaller(Gap(s), cash)
      asked == {s \in Symbols : Underweight(s) /\ Price(s) > 0 /\ value(s) >= call.minimum}
      cost[s \in asked] == Limit(s) * (value(s) \div Limit(s))
  IN  MapThenSumSet(LAMBDA s : cost[s], asked)

Investable(cash) == Larger(0, cash - Reserved)

----------------------------------------------------------------------------
(* Before the lock.                                                        *)

\* Targets are taken as approved.
Approved(t) == FALSE
Exceeds(t) == \E s \in Symbols : t[s] > Cap(s)

TooSmall(rough) == {s \in {Haven} : rough[s] > 0 /\ rough[s] < call.threshold}

\* A small haven target is cash; the platform kit may make others cash whose
\* target is less than a share.  What exceeds the approval is refused.
Value ==
  LET rough == [s \in Symbols |-> Weighed(call.equity - Reserved, call.weight[s])]
  IN  \E small \in SUBSET {s \in Symbols : rough[s] < Price(s)} :
        LET t == [s \in Symbols |-> IF s \in TooSmall(rough) \cup small THEN 0 ELSE rough[s]]
        IN  /\ pc = "value"
            /\ target' = t
            /\ pc' = IF Exceeds(t) THEN "refused" ELSE "plan"
            /\ UNCHANGED <<call, sweep, blind, budget, funds, left, stuck, sold, bought, spent, lock>>

\* One open order as the broker lists it, and what a list of them says.
Rows == [account: {"ours", "theirs", "none"}, of: {"managed", "stock", "other", "none"}]
Observed(rows) ==
  LET mine == {r \in rows : r.account # "theirs"}
  IN  IF \E r \in mine : r.of = "none" \/ (r.account = "none" /\ r.of # "stock") THEN "unavailable"
      ELSE IF \E r \in mine : r.of = "managed" THEN "pending"
      ELSE IF mine # {} THEN "elsewhere" ELSE "none"
Lists == {{}} \cup {{a, b} : a, b \in Rows}
Orders == {Observed(rows) : rows \in Lists}

\* Only the risk gate prohibits.
GateAlone == call.gate # "open"
Prohibited == call.gate # "open" \/ blind
SellPlanned == \E s \in Managed : Overweight(s) /\ Price(s) > 0 /\ SellQuantity(s) > 0
BuyPlanned(cash) ==
  \E s \in Symbols : Underweight(s) /\ Worth(s, cash) /\ BuyQuantity(s, cash) > 0

\* Buys that selling the haven may pay for; whether it is worth it, the
\* platform kit says (should_sell_cash_sweep_to_fund_whole_share_buy).
Funded(prohibited) ==
  {s \in Symbols \ {Haven} : /\ ~prohibited
                             /\ Gap(s) > call.threshold /\ Gap(s) > call.minimum
                             /\ Price(s) > 0}
MaySweep(prohibited) ==
  ~SellPlanned /\ Funded(prohibited) # {} /\ Price(Haven) > 0 /\ call.held[Haven] > 0

\* The end of the pass, or of what of it was planned.
Ends(how) == pc' = how /\ UNCHANGED <<call, target, sweep, budget, funds, left, stuck, sold, bought, spent, lock>>

Blocked ==
  /\ pc = "plan" /\ \E o \in Orders : o \in {"pending", "unavailable"}
  /\ Ends("over") /\ UNCHANGED blind

\* What is unseen is left to the sells.
Nothing(unseen, sells, buys) == ~sells /\ ~buys
\* There is nothing to do, or nothing that may be done unseen.
GivenUp(unseen, sells, buys) == ~sells /\ (~buys \/ (unseen /\ Needed # {}))

Plan ==
  /\ pc = "plan"
  /\ \E o \in Orders \ {"pending", "unavailable"}, cash \in Cash \cup {Unknown},
        swept \in {0, call.held[Haven]} :
       LET unseen == o = "elsewhere" \/ (call.cashOnly /\ cash = Unknown)
           prohibited == call.gate # "open" \/ unseen
           sells == SellPlanned \/ swept > 0
           buys == BuyPlanned(Investable(cash))
       IN  /\ cash = Unknown => call.cashOnly
           /\ swept > 0 => MaySweep(prohibited)
           /\ blind' = unseen
           /\ IF buys /\ ~call.dry /\ call.gate = "unavailable"
                THEN Ends("refused")
                ELSE IF GivenUp(unseen, sells, buys) THEN Ends("over")
                ELSE /\ pc' = "lock"
                     /\ sweep' = swept
                     /\ budget' = Larger(0, cash)
                     /\ UNCHANGED <<call, target, funds, left, stuck, sold, bought, spent, lock>>

\* Same-day fills or another's lock end the pass.
Lock(free) ==
  /\ pc = "lock"
  /\ pc' = IF free THEN "sell" ELSE "over"
  /\ lock' = free
  /\ left' = IF free THEN Managed ELSE {}
  /\ UNCHANGED <<plan, budget, funds, stuck, sold, bought, spent>>

----------------------------------------------------------------------------
(* The sells, in any order; then what there is to spend; then the buys.    *)

Wanted(s) ==
  IF s = Haven /\ sweep > 0 THEN Larger(sweep, SellQuantity(s))
  ELSE IF Overweight(s) THEN SellQuantity(s) ELSE 0
Visit(s) == s \in left /\ left' = left \ {s}
SellSkipped(s) ==
  /\ pc = "sell" /\ Visit(s)
  /\ Price(s) = 0 \/ Wanted(s) = 0
  /\ stuck' = IF Price(s) > 0 /\ Overweight(s) THEN stuck \cup {s} ELSE stuck
  /\ UNCHANGED <<plan, pc, budget, funds, sold, bought, spent, lock>>

\* An outcome nobody can name ends the pass; a dry run adds the proceeds up.
Sell(s) ==
  /\ pc = "sell" /\ Visit(s) /\ Price(s) > 0 /\ Wanted(s) > 0
  /\ IF Wanted(s) > call.held[s]
       THEN pc' = "refused" /\ UNCHANGED <<sold, budget>>
       ELSE \E outcome \in IF call.dry THEN {"taken"} ELSE {"taken", "failed", "unknown"} :
              /\ sold' = IF outcome = "failed" THEN sold ELSE [sold EXCEPT ![s] = Wanted(s)]
              /\ budget' = IF call.dry THEN budget + Wanted(s) * Price(s) ELSE budget
              /\ pc' = IF outcome = "unknown" THEN "over" ELSE "sell"
  /\ UNCHANGED <<plan, funds, stuck, bought, spent, lock>>

RotationBlocks(cash) == stuck # {} /\ EstimatedCost(cash) > cash
BuysBlocked(cash, negative) ==
  /\ Needed # {}
  /\ \/ call.warned \/ Prohibited
     \/ call.cashOnly /\ RotationBlocks(cash)
     \/ call.cashOnly /\ negative

\* A sale settles nothing today: only a fresh observation is spent, unless
\* the account may use its proceeds.
AfterSells(observed) ==
  IF call.cashOnly \/ (~call.dry /\ sold # Zero) THEN observed ELSE budget
Gate ==
  /\ pc = "sell" /\ left = {}
  /\ \E cash \in Cash \cup {Unknown}, negative \in BOOLEAN :
       LET now == Investable(AfterSells(cash))
       IN  /\ cash = Unknown => call.cashOnly
           /\ budget' = now /\ funds' = now
           /\ IF BuysBlocked(now, negative)
                THEN pc' = "over" /\ UNCHANGED left
                ELSE pc' = "buy" /\ left' = Symbols
  /\ UNCHANGED <<plan, stuck, sold, bought, spent, lock>>

\* Every refresh is a budget of its own.
Refreshed(cash) == IF call.cashOnly THEN Investable(cash) ELSE budget
Seen(cash) == IF call.cashOnly THEN Smaller(budget, Investable(cash)) ELSE budget

\* The cash is observed again for every buy; it only ever lowers the budget.
\* A buy may be cut to the cash of its own evidence (prepare_intent).
Buy(s) ==
  /\ pc = "buy" /\ Visit(s)
  /\ \E cash \in IF call.cashOnly /\ Underweight(s) THEN Cash \cup {Unknown} ELSE {Unknown},
        outcome \in IF call.dry THEN {"taken"} ELSE {"taken", "failed", "unknown"},
        stale, cut \in BOOLEAN :
       LET seen == Seen(cash)
           evidence == IF cut THEN seen \div 2 ELSE seen
           quantity == BuyQuantity(s, seen)
           sent == IF cut THEN Smaller(quantity, (95 * evidence) \div (100 * Limit(s))) ELSE quantity
           cost == sent * Limit(s)
           tried == /\ Underweight(s) /\ call.cashOnly => cash > 0
                    /\ Underweight(s) /\ Worth(s, seen) /\ quantity > 0
                    /\ call.cashOnly => ~stale
       IN  /\ (stale \/ cut) => call.cashOnly /\ Underweight(s)
           /\ cut => ~call.dry
           /\ cut /\ (sent = 0 \/ cost < call.minimum) => outcome = "failed"
           /\ IF ~tried
                THEN /\ budget' = IF Underweight(s) THEN seen ELSE budget
                     /\ UNCHANGED <<pc, bought, spent>>
                ELSE IF quantity * Limit(s) > Cap(s) - Current(s)
                THEN pc' = "refused" /\ UNCHANGED <<budget, bought, spent>>
                ELSE /\ budget' = IF outcome = "failed" THEN evidence ELSE evidence - cost
                     /\ bought' = IF outcome = "failed" THEN bought ELSE [bought EXCEPT ![s] = sent]
                     /\ spent' = IF outcome = "failed" THEN spent ELSE spent + cost
                     /\ pc' = IF outcome = "unknown" THEN "over" ELSE "buy"
  /\ UNCHANGED <<plan, funds, stuck, sold, lock>>

Finish ==
  /\ pc = "buy" /\ left = {}
  /\ pc' = "over"
  /\ UNCHANGED <<plan, budget, funds, left, stuck, sold, bought, spent, lock>>

Next ==
  \/ Value \/ Blocked \/ Plan \/ Gate \/ Finish
  \/ \E free \in BOOLEAN : Lock(free)
  \/ \E s \in Symbols : SellSkipped(s) \/ Sell(s) \/ Buy(s)

Spec == Init /\ [][Next]_vars

----------------------------------------------------------------------------
(* Properties.                                                             *)

\* However the cash changes between the orders, the buys of a pass together
\* cost no more than there was after its sells, the reserve left aside
\* ("Refresh each candidate without resetting the shared budget").
WithinBudget == spent <= funds

\* No order takes a position past its target, whichever way it started, nor a
\* buy past what the risk engine approved; only the sweep of the haven may
\* sell what its target asks for.
NoOvershoot == \A s \in Symbols :
  /\ bought[s] > 0 => Current(s) + bought[s] * Limit(s) <= Smaller(target[s], Cap(s))
  /\ sold[s] > 0 /\ ~(s = Haven /\ sweep > 0) =>
       (call.held[s] - sold[s]) * Price(s) >= target[s]
  /\ sold[s] <= call.held[s] /\ (sold[s] > 0 => s \in Managed)

\* Where cash or open orders were unknown before the sells, nothing is bought
\* after them either, whatever is seen then.
NoBlindBuy == blind \/ call.gate # "open" => bought = Zero

\* A pass that could not see its cash takes the day's lock only for a sale
\* ("so a later complete observation can be checked normally").
DayKeptOpen == lock /\ blind => SellPlanned

\* The last checks against the approval stop no pass that has begun: what
\* they refuse was refused before the lock.
NeverStoppedHalfway == pc = "refused" => ~lock

(***************************************************************************)
(* The inductive invariant behind them.                                    *)
(***************************************************************************)

\* What a pass may be called with, and what the broker may report.
Sensible(c) ==
  /\ c.managed \subseteq Symbols /\ {c.cashOnly, c.dry, c.warned} \subseteq BOOLEAN
  /\ {c.approved, c.equity, c.reserve, c.minimum} \subseteq Int /\ c.threshold \in Nat
  /\ \A s \in Symbols : c.held[s] \in Nat /\ c.price[s] \in Nat /\ c.weight[s] \in Int
Grounded ==
  /\ Haven \in Symbols /\ Premium \in Nat /\ Cash \subseteq Nat
  /\ \A c \in Inputs : Sensible(c)

Shaped ==
  /\ call \in Inputs /\ target \in [Symbols -> Int] /\ sweep \in Int /\ sweep <= call.held[Haven]
  /\ budget \in Nat /\ funds \in Int /\ spent \in Int /\ left \subseteq Symbols
  /\ sold \in [Symbols -> Int] /\ bought \in [Symbols -> Int]

\* What is not done before the lock, before the sells are over, or when a pass
\* is refused.
InOrder ==
  /\ pc \in {"value", "plan", "lock", "refused"} => ~lock
  /\ pc \in {"value", "plan", "lock"} => sold = Zero
  /\ pc \in {"value", "plan", "lock", "sell"} => bought = Zero /\ spent = 0 /\ funds = 0
  /\ pc \notin {"value", "refused"} => ~Exceeds(target)

\* A plan that was made unseen sells; what is prohibited is not needed.
Unseen ==
  /\ (pc = "lock" \/ lock) /\ blind => SellPlanned
  /\ pc = "buy" /\ Prohibited => Needed = {}

\* What may still be spent.
Remaining == pc = "buy" => spent + budget <= funds
IInv == Shaped /\ InOrder /\ Unseen /\ Remaining /\ WithinBudget /\ NoOvershoot /\ NoBlindBuy
============================================================================
