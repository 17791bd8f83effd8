--------------------------- MODULE PaperCommands ---------------------------
(***************************************************************************)
(* What a paper account lets happen: the consumer of delayed commands      *)
(* (paper_execution_command_consumer.py, POST /paper-command-consumer),    *)
(* the admission of an ordinary cycle (paper_execution_admission.py) and   *)
(* the liquidation (paper_liquidation_service.py).  Prices move, the       *)
(* broker marks its positions later, somebody else trades; any reading may *)
(* fail and the consumer may be killed.  Values are in units above the     *)
(* tolerance of the comparisons.                                           *)
(***************************************************************************)
EXTENDS Integers, Sequences, Functions

CONSTANT Changes     \* bound: moves of prices, marks and trades by others

Symbols == <<"a", "b">>    \* in the order of sorted()
Syms == {"a", "b"}
Foreign == "x"             \* a symbol the strategy does not manage
Dispositions == {"allow", "reduce", "halt"}

\* A command: bound to this platform, account and release or not, its receipt,
\* its targets.
Command == [bound: BOOLEAN, receipt: Dispositions, targets: [Syms -> {0, 2, 6}]]
Effects == {"increases", "reduces", "neutral"}

VARIABLES
  held,       \* the positions at the broker
  price,      \* the market
  mark,       \* the price the broker values its positions with
  changes,
  commands,   \* the store of commands, in the order they are due
  state,      \* create-only events of each: "pending", "claimed", or how it ended
  mode,       \* "consume", "cycle", "liquidate"
  pc,
  at,         \* the command, or the symbol, that is handled
  snap,       \* the portfolio that was read: quantities and market values
  quotes,     \* quote_cache: what was asked once in this request
  findings,
  proposals,  \* the last proposals, or those of the cycle
  orders      \* what went to the broker: symbol, side, quantity

vars == <<held, price, mark, changes, commands, state, mode, pc, at, snap, quotes, findings,
          proposals, orders>>
market == <<held, price, mark, changes>>
Held == DOMAIN held
NoQuotes == [s \in {} |-> 0]
NoSnap == [quantity |-> [s \in Held |-> 0], value |-> [s \in Held |-> 0]]

TypeOK ==
  /\ held \in [Syms \cup {Foreign} -> -1..2]
  /\ price \in [Held -> 2..3] /\ mark \in [Held -> 2..3] /\ changes \in 0..Changes
  /\ commands \in Seq(Command) /\ Len(commands) = 2
  /\ state \in Seq({"pending", "claimed", "filled", "rejected", "unreconciled"})
  /\ Len(state) = 2
  /\ mode \in {"none", "consume", "cycle", "liquidate"}
  /\ pc \in {"idle", "claim", "load", "value", "equity", "propose", "decide", "plan",
             "admit", "order", "over", "killed"}
  /\ at \in 0..3
  /\ snap.quantity \in [Held -> -1..2] /\ snap.value \in [Held -> -3..6]
  /\ DOMAIN quotes \subseteq Held /\ \A s \in DOMAIN quotes : quotes[s] \in 2..3
  /\ findings \in BOOLEAN
  /\ DOMAIN proposals \subseteq Syms /\ \A s \in DOMAIN proposals : proposals[s] \in Effects
  /\ orders \subseteq [symbol: Held, side: {"buy", "sell"}, quantity: 1..3]

Init ==
  /\ held \in {[a |-> 1, b |-> 0, x |-> 0], [a |-> 1, b |-> 1, x |-> 0], [a |-> -1, b |-> 1, x |-> 0],
               [a |-> 1, b |-> 0, x |-> 1], [a |-> 0, b |-> 0, x |-> 0]}
  /\ price = [s \in Held |-> 2] /\ changes = 0
  /\ mark \in {price, [price EXCEPT !.a = IF held.a = held.b THEN 3 ELSE 2]}
  /\ commands \in {<<c, d>> : c \in {[bound |-> TRUE, receipt |-> "allow", targets |-> [a |-> 2, b |-> 2]],
                                     [bound |-> FALSE, receipt |-> "allow", targets |-> [a |-> 2, b |-> 2]]},
                              d \in {[bound |-> TRUE, receipt |-> r, targets |-> [a |-> 2, b |-> t]] :
                                       r \in Dispositions, t \in {0, 6}}}
  /\ state = <<"pending", "pending">>
  /\ mode = "none" /\ pc = "idle" /\ at = 0
  /\ snap = NoSnap /\ quotes = NoQuotes /\ findings = FALSE /\ proposals = NoQuotes /\ orders = {}

----------------------------------------------------------------------------
(* The market, the broker's valuation and other traders.                   *)

request == <<commands, state, mode, pc, at, snap, quotes, findings, proposals, orders>>
Changed == pc \notin {"idle", "over", "killed"} /\ changes < Changes /\ changes' = changes + 1
Move(s) ==
  Changed /\ price' = [price EXCEPT ![s] = 5 - @] /\ UNCHANGED <<held, mark, request>>
Remark(s) ==
  /\ Changed /\ mark[s] # price[s] /\ mark' = [mark EXCEPT ![s] = price[s]]
  /\ UNCHANGED <<held, price, request>>
Trade(s) ==
  /\ Changed /\ held[s] < 2 /\ held' = [held EXCEPT ![s] = @ + 1]
  /\ UNCHANGED <<price, mark, request>>

----------------------------------------------------------------------------
(* The consumer.                                                           *)

\* Any number of requests, one after the other, each with a cache of its own.
Start ==
  /\ pc \in {"idle", "over", "killed"} /\ mode \in {"none", "consume"} /\ "pending" \in {state[1], state[2]}
  /\ mode' = "consume" /\ pc' = "claim" /\ at' = 1 /\ quotes' = NoQuotes
  /\ UNCHANGED <<market, commands, state, snap, findings, proposals, orders>>

\* The shared consumer: one claim per command, and what is not bound to this
\* account is rejected before the gateway is opened.
Claim ==
  /\ pc = "claim"
  /\ IF at > 2 THEN pc' = "over" /\ at' = 0 /\ UNCHANGED state
     ELSE IF state[at] # "pending" THEN at' = at + 1 /\ UNCHANGED <<state, pc>>
     ELSE IF ~commands[at].bound
       THEN state' = [state EXCEPT ![at] = "rejected"] /\ at' = at + 1 /\ UNCHANGED pc
     ELSE state' = [state EXCEPT ![at] = "claimed"] /\ pc' = "load" /\ UNCHANGED at
  /\ UNCHANGED <<market, commands, mode, snap, quotes, findings, proposals, orders>>

Load ==
  /\ pc = "load"
  /\ snap' = [quantity |-> held, value |-> [s \in Held |-> held[s] * mark[s]]]
  /\ findings' = (held[Foreign] # 0) /\ proposals' = NoQuotes /\ pc' = "value"
  /\ UNCHANGED <<market, commands, state, mode, at, quotes, orders>>

Forgotten == snap' = NoSnap /\ findings' = FALSE /\ proposals' = NoQuotes
Ended(as) ==
  /\ state' = [state EXCEPT ![at] = as]
  /\ at' = at + 1 /\ pc' = "claim" /\ Forgotten
\* A portfolio without market values or cash raises: no event but this one.
Unavailable ==
  /\ pc = "load" /\ Ended("unreconciled")
  /\ UNCHANGED <<market, commands, mode, quotes, orders>>

\* The quote of a symbol, asked once per request.
Quoted(s) == IF s \in DOMAIN quotes THEN quotes[s] ELSE price[s]
Cached(s) == [t \in DOMAIN quotes \cup {s} |-> Quoted(t)]

\* The quote and the broker's own value must say the same, and nothing may be
\* owed; a position without a quote is passed over, as a finding.
NotShort(s) == snap.quantity[s] >= 0
ValuesAgree(s) == snap.quantity[s] >= 0 /\ snap.value[s] = snap.quantity[s] * Quoted(s)
Open == {s \in Syms : snap.quantity[s] # 0}
\* What is counted and the cash make the equity, which is of all positions.
Balanced ==
  FoldFunctionOnSet(LAMBDA v, sum : v + sum, 0, [s \in Open |-> snap.quantity[s] * quotes[s]], Open)
    = FoldFunction(LAMBDA v, sum : v + sum, 0, snap.value)
Value ==
  /\ pc = "value"
  /\ IF Open \subseteq DOMAIN quotes
       THEN pc' = "propose" /\ findings' = (findings \/ ~Balanced \/ \E s \in Open : ~ValuesAgree(s)) /\ UNCHANGED <<quotes, snap>>
       ELSE \E s \in Open \ DOMAIN quotes :
              \/ quotes' = Cached(s) /\ UNCHANGED <<pc, findings, snap>>
              \/ snap' = [snap EXCEPT !.quantity[s] = 0] /\ findings' = TRUE /\ UNCHANGED <<pc, quotes>>
  /\ UNCHANGED <<market, commands, state, mode, at, proposals, orders>>

Current(s) == IF s \in Open THEN snap.quantity[s] * quotes[s] ELSE 0
Size(v) == IF v < 0 THEN -v ELSE v
Effect(before, after) ==
  IF Size(after) > Size(before) THEN "increases" ELSE IF Size(after) < Size(before) THEN "reduces" ELSE "neutral"
Proposed(s) == commands[at].targets[s] # Current(s)
\* A proposal for every symbol that is off its target, each with a quote.
Propose ==
  /\ pc = "propose"
  /\ LET off == {s \in Syms : Proposed(s)}
     IN  \E failed \in SUBSET (off \ DOMAIN quotes) :
           /\ quotes' = [t \in DOMAIN quotes \cup (off \ failed) |-> Quoted(t)]
           /\ findings' = (findings \/ failed # {})
           /\ proposals' = [s \in off \ failed |-> Effect(Current(s), commands[at].targets[s])]
  /\ pc' = "decide"
  /\ UNCHANGED <<market, commands, state, mode, at, snap, orders>>

\* The gate, for every effect: nothing while anything is found, only what
\* reduces under a reducing receipt.
Allows(receipt, effect) == receipt = "allow" \/ (receipt = "reduce" /\ effect # "increases")
Some(receipt, found) == ~found /\ \E s \in DOMAIN proposals : Allows(receipt, proposals[s])
All(receipt, found) ==
  ~found /\ receipt # "halt" /\ \A s \in DOMAIN proposals : Allows(receipt, proposals[s])
Decide ==
  /\ pc = "decide"
  /\ Ended(IF All(commands[at].receipt, findings) THEN "filled" ELSE "rejected")
  /\ UNCHANGED <<market, commands, mode, quotes, orders>>

Kill ==
  /\ mode = "consume" /\ pc \notin {"over", "killed"}
  /\ pc' = "killed" /\ at' = 0 /\ quotes' = NoQuotes /\ Forgotten
  /\ UNCHANGED <<market, commands, state, mode, orders>>

----------------------------------------------------------------------------
(* The cycle: what it plans is held against the command of its signal.     *)

\* commands[2] is the one of the signal; it may be missing, another account's
\* or another session's, or come with options.
Plan(sound) ==
  /\ pc = "idle"
  /\ mode' = "cycle" /\ pc' = "admit" /\ at' = 2
  /\ snap' = [quantity |-> held, value |-> [s \in Held |-> held[s] * price[s]]]
  /\ \E missing \in {{}, {"b"}} : quotes' = [s \in Syms \ missing |-> price[s]]
  /\ findings' = ~sound
  /\ UNCHANGED <<market, commands, state, proposals, orders>>

\* Every position and target is valued, or the cycle is closed.
Valued(s) == s \in DOMAIN quotes /\ snap.quantity[s] >= 0
Facts == {s \in Syms : Valued(s)}
Admit ==
  /\ pc = "admit"
  /\ findings' = (findings \/ Facts # Syms \/ snap.quantity[Foreign] # 0)
  /\ proposals' = [s \in Facts |-> Effect(snap.quantity[s] * quotes[s], commands[at].targets[s])]
  /\ pc' = "plan"
  /\ UNCHANGED <<market, commands, state, mode, at, snap, quotes, orders>>

Difference(s) == commands[at].targets[s] - snap.quantity[s] * quotes[s]
Rebalance ==
  /\ pc = "plan"
  /\ orders' = IF All(commands[at].receipt, findings)
                 THEN {[symbol |-> s, side |-> IF Difference(s) > 0 THEN "buy" ELSE "sell",
                        quantity |-> Size(Difference(s)) \div quotes[s]] :
                         s \in {t \in Facts : Size(Difference(t)) >= quotes[t]}}
                 ELSE {}
  /\ pc' = "over"
  /\ UNCHANGED <<market, commands, state, mode, at, snap, quotes, findings, proposals>>

----------------------------------------------------------------------------
(* The liquidation: one opposite order for every position, and each status *)
(* is judged by itself.                                                    *)

Liquidate ==
  /\ pc = "idle"
  /\ mode' = "liquidate" /\ pc' = "order"
  /\ snap' = [NoSnap EXCEPT !.quantity = held]
  /\ UNCHANGED <<market, commands, state, at, quotes, findings, proposals, orders>>

Selling(q) == "sell"
Opposite(q) == IF q > 0 THEN "sell" ELSE "buy"
Submit ==
  /\ pc = "order"
  /\ LET left == {s \in Held : snap.quantity[s] # 0 /\ \A o \in orders : o.symbol # s}
     IN  IF left = {} THEN pc' = "over" /\ UNCHANGED orders
         ELSE \E s \in left :
                /\ orders' = orders \cup {[symbol |-> s, side |-> Opposite(snap.quantity[s]),
                                           quantity |-> Size(snap.quantity[s])]}
                /\ pc' \in {"order", "over"}    \* the call raises after placing
  /\ UNCHANGED <<market, commands, state, mode, at, snap, quotes, findings, proposals>>

Next ==
  \/ \E s \in Held : Move(s) \/ Remark(s) \/ Trade(s)
  \/ Start \/ Claim \/ Load \/ Unavailable \/ Value \/ Propose \/ Decide \/ Kill
  \/ \E sound \in BOOLEAN : Plan(sound)
  \/ Admit \/ Rebalance
  \/ Liquidate \/ Submit

Spec == Init /\ [][Next]_vars

----------------------------------------------------------------------------
(* Properties.                                                             *)

\* What a command is filled with is reconciled: its proposals say what its
\* targets do to the values of the broker's own snapshot, although the quotes
\* may come from an earlier command of the request (_reconcile).
Settled == pc = "decide" /\ All(commands[at].receipt, findings)
FilledReconciled ==
  Settled =>
    /\ snap.quantity[Foreign] = 0
    /\ \A s \in Syms :
         LET target == commands[at].targets[s]
         IN  IF s \in DOMAIN proposals THEN proposals[s] = Effect(snap.value[s], target)
                                      ELSE target = snap.value[s]

\* Under a reducing receipt nothing grows, whatever else the cycle reduces
\* ("a buy/sell label is never treated as evidence").
After(o) == held[o.symbol] + (IF o.side = "buy" THEN o.quantity ELSE -o.quantity)
NothingGrows ==
  mode = "cycle" /\ commands[2].receipt # "allow" =>
    \A o \in orders : commands[2].receipt = "reduce" /\ o.side = "sell"

\* A liquidation closes what it read and never more, long or short.
LiquidatesToZero ==
  mode = "liquidate" =>
    \A o \in orders : snap.quantity[o.symbol] + (IF o.side = "buy" THEN o.quantity ELSE -o.quantity) = 0

(***************************************************************************)
(* The inductive invariant behind the last two.                            *)
(***************************************************************************)

\* The command of a signal, the market, and what is read of them.
Sound ==
  /\ DOMAIN held = Syms \cup {Foreign} /\ DOMAIN price = Held
  /\ \A s \in Held : held[s] \in Int /\ price[s] \in {2, 3}
  /\ commands[2].receipt \in Dispositions /\ \A s \in Syms : commands[2].targets[s] \in Nat
Read ==
  /\ DOMAIN snap = DOMAIN NoSnap /\ DOMAIN snap.quantity = Held
  /\ \A s \in Held : snap.quantity[s] \in Int
  /\ \A s \in DOMAIN quotes : quotes[s] \in {2, 3}

\* Where a cycle and a liquidation are, and what they have ordered.
Moded ==
  /\ mode \in {"none", "consume", "cycle", "liquidate"}
  /\ pc = "idle" => mode = "none"
  /\ mode = "none" => pc = "idle"
  /\ mode \in {"none", "consume"} => orders = {} /\ pc \notin {"admit", "plan", "order"}
  /\ mode = "cycle" => at = 2 /\ pc \in {"admit", "plan", "over"} /\ (pc # "over" => orders = {})
  /\ mode = "liquidate" => pc \in {"order", "over"}

\* What a cycle proposes is what it plans.
Weighed ==
  pc = "plan" =>
    proposals = [s \in Facts |-> Effect(snap.quantity[s] * quotes[s], commands[2].targets[s])]
IInv == Sound /\ Read /\ Moded /\ Weighed /\ NothingGrows /\ LiquidatesToZero

\* The one behind FilledReconciled: what of a command is reconciled so far.
Explained(s) ==
  IF s \in Open THEN s \in DOMAIN quotes /\ snap.value[s] = snap.quantity[s] * quotes[s] ELSE snap.value[s] = 0
Reconciled ==
  /\ \A s \in Held : mark[s] \in Int
  /\ DOMAIN mark = Held /\ DOMAIN snap.value = Held
  /\ (pc \in {"value", "propose", "decide"} /\ ~findings) =>
       /\ snap.quantity[Foreign] = 0 /\ \A s \in Syms \ Open : snap.value[s] = 0
       /\ pc # "value" => \A s \in Syms : Explained(s)
       /\ pc = "decide" =>
            proposals = [s \in {t \in Syms : Proposed(t)} |-> Effect(Current(s), commands[at].targets[s])]
=============================================================================
