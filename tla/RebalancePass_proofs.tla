------------------------- MODULE RebalancePass_proofs -------------------------
(***************************************************************************)
(* Proofs about RebalancePass, for any instruments, prices, weights and    *)
(* holdings a pass may be called with: the properties that MCPrograms      *)
(* checks of it.                                                           *)
(***************************************************************************)
EXTENDS RebalancePass, TLAPS

LEMMA DivBelow == ASSUME NEW a \in Int, NEW d \in Int, d > 0 PROVE (a \div d) \in Int /\ d * (a \div d) <= a
OBVIOUS

LEMMA TimesGrows == ASSUME NEW a \in Int, NEW b \in Int, NEW l \in Nat, a <= b PROVE a * l <= b * l
OBVIOUS

LEMMA DivNat == ASSUME NEW a \in Nat, NEW d \in Int, d > 0 PROVE (a \div d) \in Nat
OBVIOUS

\* The hundredths of an amount, in shares of a price, cost that amount at most.
LEMMA SharesCost ==
  ASSUME NEW h \in Int, NEW g \in Int, NEW l \in Int, l > 0, h <= 100 * g
  PROVE  (h \div (100 * l)) \in Int /\ (h \div (100 * l)) * l <= g
<1> DEFINE q == h \div (100 * l)
<1>1. 100 * l \in Int /\ 100 * l > 0
  OBVIOUS
<1>2. q \in Int /\ (100 * l) * q <= h
  BY <1>1, DivBelow
<1> HIDE DEF q
<1>3. (100 * l) * q = 100 * (q * l) /\ q * l \in Int
  BY <1>2
<1>4. q * l <= g
  BY <1>2, <1>3
<1> QED BY <1>2, <1>4 DEF q

----------------------------------------------------------------------------
(* Sizes.                                                                  *)

LEMMA Typed ==
  ASSUME Grounded, Shaped, NEW s \in Symbols
  PROVE  /\ call.held[s] \in Nat /\ Price(s) \in Nat /\ Current(s) \in Int /\ Cap(s) \in Int /\ target[s] \in Int
         /\ call.threshold \in Nat /\ call.minimum \in Int /\ call.reserve \in Int
         /\ Limit(s) \in Nat /\ (Price(s) > 0 => s \in Managed /\ Limit(s) > 0)
         /\ Gap(s) \in Int /\ Current(s) = call.held[s] * Price(s)
<1>1. Sensible(call) /\ Premium \in Nat /\ target[s] \in Int
  BY DEF Grounded, Shaped
<1>2. call.held[s] \in Nat /\ call.price[s] \in Nat /\ call.weight[s] \in Int /\ call.approved \in Int
  BY <1>1 DEF Sensible
<1>3. Price(s) \in Nat /\ (Price(s) > 0 => s \in Managed)
  BY <1>2 DEF Price
<1>4. Current(s) \in Int /\ Cap(s) \in Int
  BY <1>2, <1>3 DEF Current, Cap, Weighed
<1> QED BY <1>1, <1>2, <1>3, <1>4 DEF Limit, Gap, Current, Sensible

\* A sale sells what is held at most, and leaves the target.
LEMMA SaleLeavesTarget ==
  ASSUME Grounded, Shaped, NEW s \in Symbols, Price(s) > 0
  PROVE  /\ SellQuantity(s) \in Int /\ SellQuantity(s) <= call.held[s]
         /\ Overweight(s) => (call.held[s] - SellQuantity(s)) * Price(s) >= target[s]
<1> DEFINE h == call.held[s]
           p == Price(s)
           t == target[s]
           q == (Current(s) - t) \div p
<1>1. h \in Nat /\ p \in Nat /\ p > 0 /\ t \in Int /\ Current(s) = h * p /\ Current(s) \in Int /\ call.threshold \in Nat
  BY Typed
<1>2. q \in Int /\ p * q <= Current(s) - t
  BY <1>1, DivBelow
<1>3. CASE t <= 0
  <2>1. SellQuantity(s) = h
    BY <1>3 DEF SellQuantity
  <2> QED BY <1>1, <1>3, <2>1
<1>4. CASE t > 0 /\ Current(s) <= t
  <2>1. SellQuantity(s) = 0 /\ ~Overweight(s)
    BY <1>1, <1>4 DEF SellQuantity, Overweight
  <2> QED BY <1>1, <2>1
<1>5. CASE t > 0 /\ Current(s) > t
  <2>1. SellQuantity(s) = Smaller(q, h)
    BY <1>1, <1>5 DEF SellQuantity
  <2> DEFINE z == SellQuantity(s)
  <2>2. z \in Int /\ z <= h /\ z <= q
    BY <1>1, <1>2, <2>1 DEF Smaller
  <2> HIDE DEF q, z
  <2>3. z * p <= q * p
    BY <1>1, <1>2, <2>2, TimesGrows
  <2>4. q * p = p * q
    BY <1>1, <1>2
  <2>5. (h - z) * p = h * p - z * p
    BY <1>1, <2>2
  <2>6. (h - z) * p >= t
    BY <1>1, <1>2, <2>2, <2>3, <2>4, <2>5
  <2> QED BY <2>2, <2>6 DEF z
<1> QED BY <1>1, <1>3, <1>4, <1>5

\* What is wanted of a symbol is held.
LEMMA WantedIsHeld ==
  ASSUME Grounded, Shaped, NEW s \in Symbols, Price(s) > 0
  PROVE  Wanted(s) \in Int /\ Wanted(s) <= call.held[s]
<1>1. call.held[s] \in Nat /\ sweep \in Int /\ sweep <= call.held[Haven]
  BY Typed DEF Shaped
<1> QED BY <1>1, SaleLeavesTarget DEF Wanted, Larger

\* A buy costs what is missing at most, and what there is.
LEMMA BuyCosts ==
  ASSUME Grounded, Shaped, NEW s \in Symbols, Price(s) > 0, NEW cash \in Nat
  PROVE  /\ BuyQuantity(s, cash) \in Int
         /\ BuyQuantity(s, cash) * Limit(s) <= Gap(s)
         /\ BuyQuantity(s, cash) * Limit(s) <= cash
<1> DEFINE h == BuyHundredths(s, cash)
<1>1. Gap(s) \in Int /\ Limit(s) \in Int /\ Limit(s) > 0
  BY Typed
<1>2. h \in Int /\ h <= 100 * Gap(s) /\ h <= 100 * cash
  BY <1>1 DEF BuyHundredths, Smaller
<1> HIDE DEF h
<1>3. BuyQuantity(s, cash) = h \div (100 * Limit(s))
  BY DEF BuyQuantity, h
<1> DEFINE l == Limit(s)
           g == Gap(s)
           b == BuyQuantity(s, cash)
<1>4. l \in Int /\ l > 0 /\ g \in Int /\ h \in Int /\ h <= 100 * g /\ h <= 100 * cash /\ b = h \div (100 * l)
  BY <1>1, <1>2, <1>3
<1> HIDE DEF l, g, b
<1>5. b \in Int /\ b * l <= g
  BY <1>4, SharesCost
<1>6. b * l <= cash
  BY <1>4, SharesCost
<1> QED BY <1>5, <1>6 DEF l, g, b

----------------------------------------------------------------------------
(* The steps.                                                              *)

\* What a plan says while nobody changes it.
LEMMA SamePlan ==
  ASSUME UNCHANGED plan
  PROVE  /\ SellPlanned' = SellPlanned /\ Needed' = Needed /\ Prohibited' = Prohibited
         /\ Exceeds(target)' = Exceeds(target) /\ target' = target /\ call' = call /\ sweep' = sweep
         /\ \A s \in Symbols : /\ Current(s)' = Current(s) /\ Cap(s)' = Cap(s) /\ Price(s)' = Price(s)
                               /\ Limit(s)' = Limit(s)
         /\ blind' = blind /\ Managed' = Managed
<1>1. call' = call /\ target' = target /\ sweep' = sweep /\ blind' = blind
  BY DEF plan
<1>2. \A s \in Symbols : /\ Current(s)' = Current(s) /\ Cap(s)' = Cap(s) /\ Price(s)' = Price(s)
                         /\ Limit(s)' = Limit(s)
  BY <1>1 DEF Current, Cap, Price, Limit, Weighed, Managed
<1>3. Needed' = Needed
  BY <1>1 DEF Needed, Underweight, Current, Price, Managed
<1>4. SellPlanned' = SellPlanned
  BY <1>1 DEF SellPlanned, Overweight, SellQuantity, Current, Price, Managed
<1>5. Exceeds(target)' = Exceeds(target)
  BY <1>1 DEF Exceeds, Cap, Weighed
<1>6. Prohibited' = Prohibited /\ Managed' = Managed
  BY <1>1 DEF Prohibited, Managed
<1> QED BY <1>1, <1>2, <1>3, <1>4, <1>5, <1>6

\* What was bought and sold keeps its limits.
LEMMA SameOrders ==
  ASSUME UNCHANGED plan, UNCHANGED <<sold, bought>>, NoOvershoot, NoBlindBuy
  PROVE  NoOvershoot' /\ NoBlindBuy'
<1>1. sold' = sold /\ bought' = bought
  OBVIOUS
<1>2. NoOvershoot'
  BY <1>1, SamePlan DEF NoOvershoot
<1>3. NoBlindBuy'
  BY <1>1, SamePlan DEF NoBlindBuy, Zero
<1> QED BY <1>2, <1>3

\* A step that changes no more than where the pass is.
LEMMA PassMoves ==
  ASSUME Grounded, IInv, UNCHANGED <<plan, budget, funds, sold, bought, spent, lock>>, left' \subseteq Symbols,
         \/ pc' = pc
         \/ pc = "buy" /\ pc' = "over"
         \/ pc = "plan" /\ pc' \in {"over", "refused"}
  PROVE  IInv'
<1>1. UNCHANGED plan /\ UNCHANGED <<sold, bought>> /\ budget' = budget /\ funds' = funds /\ spent' = spent /\ lock' = lock
  OBVIOUS
<1>2. Shaped'
  BY <1>1, SamePlan DEF IInv, Shaped
<1>3. InOrder'
  BY <1>1, SamePlan DEF IInv, InOrder, Zero
<1>4. Unseen'
  BY <1>1, SamePlan DEF IInv, Unseen, InOrder
<1>5. Remaining' /\ WithinBudget'
  BY <1>1 DEF IInv, Remaining, WithinBudget
<1> QED BY <1>1, <1>2, <1>3, <1>4, <1>5, SameOrders DEF IInv

LEMMA PassInit == ASSUME Grounded, Init PROVE IInv
<1>1. \A s \in Symbols : sold[s] = 0 /\ bought[s] = 0 /\ target[s] = 0
  BY DEF Init, Zero
<1>2. call \in Inputs /\ Sensible(call) /\ Haven \in Symbols /\ call.held[Haven] \in Nat
  BY DEF Grounded, Init, Sensible
<1>3. Shaped
  BY <1>2 DEF Init, Shaped, Zero
<1>4. InOrder /\ Unseen /\ Remaining /\ WithinBudget
  BY DEF Init, InOrder, Unseen, Remaining, WithinBudget
<1>5. NoBlindBuy
  BY DEF Init, NoBlindBuy
<1>6. NoOvershoot
  <2>1. \A s \in Symbols : call.held[s] \in Nat
    BY <1>2 DEF Sensible
  <2> QED BY <1>1, <2>1 DEF NoOvershoot
<1> QED BY <1>3, <1>4, <1>5, <1>6 DEF IInv

LEMMA PassValue ==
  ASSUME Grounded, IInv, Value
  PROVE  IInv'
<1> DEFINE rough == [s \in Symbols |-> Weighed(call.equity - Reserved, call.weight[s])]
<1>1. PICK small \in SUBSET {s \in Symbols : rough[s] < Price(s)} :
        LET t == [s \in Symbols |-> IF s \in TooSmall(rough) \cup small THEN 0 ELSE rough[s]]
        IN  target' = t /\ pc' = IF Exceeds(t) THEN "refused" ELSE "plan"
  BY DEF Value
<1>2. pc = "value" /\ UNCHANGED <<call, sweep, blind, budget, funds, left, stuck, sold, bought, spent, lock>>
  BY DEF Value
<1> DEFINE t == [s \in Symbols |-> IF s \in TooSmall(rough) \cup small THEN 0 ELSE rough[s]]
<1>3. \A s \in Symbols : rough[s] \in Int
  BY DEF IInv, Shaped, Grounded, Sensible, Weighed, Reserved
<1>4. t \in [Symbols -> Int]
  BY <1>3
<1>5. target' = t /\ pc' = (IF Exceeds(t) THEN "refused" ELSE "plan")
  BY <1>1
<1> HIDE DEF t, rough
<1>6. ~lock /\ bought = Zero /\ spent = 0 /\ funds = 0 /\ sold = Zero
  BY <1>2 DEF IInv, InOrder
<1>7. Shaped'
  BY <1>2, <1>4, <1>5 DEF IInv, Shaped
<1>8. InOrder'
  <2>1. pc' # "refused" => ~Exceeds(target)'
    BY <1>2, <1>5 DEF Exceeds, Cap, Weighed
  <2> QED BY <1>2, <1>5, <1>6, <2>1 DEF InOrder, Zero
<1>9. Unseen' /\ Remaining' /\ WithinBudget'
  BY <1>2, <1>5, <1>6 DEF IInv, Unseen, Remaining, WithinBudget
<1>10. NoOvershoot'
  <2>1. \A s \in Symbols : sold'[s] = 0 /\ bought'[s] = 0 /\ call'.held[s] \in Nat
    BY <1>2, <1>6 DEF Zero, IInv, Shaped, Grounded, Sensible
  <2> QED BY <2>1 DEF NoOvershoot
<1>11. NoBlindBuy'
  BY <1>2, <1>6 DEF NoBlindBuy, Zero
<1> QED BY <1>7, <1>8, <1>9, <1>10, <1>11 DEF IInv

LEMMA PassBlocked == ASSUME Grounded, IInv, Blocked PROVE IInv'
BY PassMoves DEF Blocked, Ends, plan, IInv, Shaped

LEMMA PassPlan ==
  ASSUME Grounded, IInv, Plan
  PROVE  IInv'
<1>1. PICK o \in Orders \ {"pending", "unavailable"}, cash \in Cash \cup {Unknown}, swept \in {0, call.held[Haven]} :
        LET unseen == o = "elsewhere" \/ (call.cashOnly /\ cash = Unknown)
            prohibited == call.gate # "open" \/ unseen
            sells == SellPlanned \/ swept > 0
            buys == BuyPlanned(Investable(cash))
        IN  /\ swept > 0 => MaySweep(prohibited)
            /\ blind' = unseen
            /\ IF buys /\ ~call.dry /\ call.gate = "unavailable"
                 THEN Ends("refused")
                 ELSE IF GivenUp(unseen, sells, buys) THEN Ends("over")
                 ELSE /\ pc' = "lock"
                      /\ sweep' = swept
                      /\ budget' = Larger(0, cash)
                      /\ UNCHANGED <<call, target, funds, left, stuck, sold, bought, spent, lock>>
  BY DEF Plan
<1> DEFINE unseen == o = "elsewhere" \/ (call.cashOnly /\ cash = Unknown)
           sells == SellPlanned \/ swept > 0
           buys == BuyPlanned(Investable(cash))
<1>2. pc = "plan" /\ blind' = unseen /\ (swept > 0 => MaySweep(call.gate # "open" \/ unseen))
  BY <1>1 DEF Plan
<1>3. /\ UNCHANGED <<call, target, funds, left, stuck, sold, bought, spent, lock>>
      /\ \/ pc' \in {"refused", "over"} /\ UNCHANGED <<sweep, budget>>
         \/ /\ ~GivenUp(unseen, sells, buys) /\ pc' = "lock"
            /\ sweep' = swept /\ budget' = Larger(0, cash)
  BY <1>1 DEF Ends
<1>4. ~lock /\ bought = Zero /\ sold = Zero /\ spent = 0 /\ funds = 0 /\ ~Exceeds(target)
  BY <1>2 DEF IInv, InOrder
<1>5. buys => Needed # {}
  BY DEF BuyPlanned, Needed
<1> HIDE DEF buys
<1>6. swept > 0 => ~unseen
  BY <1>2 DEF MaySweep, Funded
<1>7. ~GivenUp(unseen, sells, buys) /\ unseen => SellPlanned
  BY <1>5, <1>6 DEF GivenUp
<1>8. SellPlanned' = SellPlanned
  BY <1>3 DEF SellPlanned, Overweight, SellQuantity, Current, Price, Managed
<1>9. Shaped'
  <2>1. call.held[Haven] \in Nat
    BY DEF IInv, Shaped, Grounded, Sensible
  <2>2. Larger(0, cash) \in Nat
    BY DEF Larger, Grounded, Unknown
  <2> QED BY <1>3, <2>1, <2>2 DEF IInv, Shaped
<1>10. InOrder'
  BY <1>3, <1>4 DEF InOrder, Zero, Exceeds, Cap, Weighed
<1>11. Unseen'
  BY <1>2, <1>3, <1>4, <1>7, <1>8 DEF Unseen
<1>12. Remaining' /\ WithinBudget'
  BY <1>3, <1>4 DEF Remaining, WithinBudget
<1>13. NoOvershoot'
  <2>1. \A s \in Symbols : sold'[s] = 0 /\ bought'[s] = 0 /\ call'.held[s] \in Nat
    BY <1>3, <1>4 DEF Zero, IInv, Shaped, Grounded, Sensible
  <2> QED BY <2>1 DEF NoOvershoot
<1>14. NoBlindBuy'
  BY <1>3, <1>4 DEF NoBlindBuy, Zero
<1> QED BY <1>9, <1>10, <1>11, <1>12, <1>13, <1>14 DEF IInv

LEMMA PassLock ==
  ASSUME Grounded, IInv, NEW free \in BOOLEAN, Lock(free)
  PROVE  IInv'
<1>1. /\ pc = "lock" /\ pc' = (IF free THEN "sell" ELSE "over") /\ lock' = free
      /\ left' = (IF free THEN Managed ELSE {})
      /\ UNCHANGED plan /\ UNCHANGED <<budget, funds, stuck, sold, bought, spent>>
  BY DEF Lock
<1>2. Managed \subseteq Symbols
  BY DEF IInv, Shaped, Grounded, Sensible, Managed
<1>3. Shaped'
  BY <1>1, <1>2, SamePlan DEF IInv, Shaped
<1>4. InOrder'
  BY <1>1, SamePlan DEF IInv, InOrder, Zero
<1>5. Unseen'
  BY <1>1, SamePlan DEF IInv, Unseen
<1>6. Remaining' /\ WithinBudget'
  BY <1>1 DEF IInv, Remaining, WithinBudget
<1> QED BY <1>1, <1>3, <1>4, <1>5, <1>6, SameOrders DEF IInv

LEMMA PassSellSkipped ==
  ASSUME Grounded, IInv, NEW s \in Symbols, SellSkipped(s)
  PROVE  IInv'
BY PassMoves DEF SellSkipped, Visit, IInv, Shaped

LEMMA PassSell ==
  ASSUME Grounded, IInv, NEW s \in Symbols, Sell(s)
  PROVE  IInv'
<1> DEFINE w == Wanted(s)
           p == Price(s)
<1>1. /\ pc = "sell" /\ p > 0 /\ w > 0 /\ left' = left \ {s}
      /\ UNCHANGED plan /\ UNCHANGED <<funds, stuck, bought, spent, lock>>
  BY DEF Sell, Visit
<1>2. w \in Int /\ w <= call.held[s] /\ call.held[s] \in Nat /\ p \in Nat /\ s \in Managed
  BY <1>1, WantedIsHeld, Typed DEF IInv
<1>3. PICK outcome \in {"taken", "failed", "unknown"} :
        /\ sold' = (IF outcome = "failed" THEN sold ELSE [sold EXCEPT ![s] = w])
        /\ budget' = (IF call.dry THEN budget + w * p ELSE budget)
        /\ pc' = (IF outcome = "unknown" THEN "over" ELSE "sell")
  BY <1>1, <1>2 DEF Sell
<1>4. bought = Zero /\ spent = 0 /\ funds = 0
  BY <1>1 DEF IInv, InOrder
<1>5. w * p \in Nat
  BY <1>1, <1>2
<1>6. ~(s = Haven /\ sweep > 0) => (call.held[s] - w) * p >= target[s]
  BY <1>1, <1>2, SaleLeavesTarget DEF IInv, Wanted
<1> HIDE DEF w, p
<1>7. Shaped'
  BY <1>1, <1>2, <1>3, <1>5, SamePlan DEF IInv, Shaped
<1>8. InOrder'
  BY <1>1, <1>3, <1>4, SamePlan DEF IInv, InOrder, Zero
<1>9. Unseen'
  BY <1>1, <1>3, SamePlan DEF IInv, Unseen
<1>10. Remaining' /\ WithinBudget'
  BY <1>1, <1>3, <1>4 DEF IInv, Remaining, WithinBudget
<1>11. NoBlindBuy'
  BY <1>1, <1>4, SamePlan DEF IInv, NoBlindBuy, Zero
<1>12. NoOvershoot'
  <2>1. \A q \in Symbols : (q = s /\ sold'[q] = w) \/ sold'[q] = sold[q]
    BY <1>3 DEF IInv, Shaped
  <2>2. \A q \in Symbols : /\ Price(q)' = Price(q) /\ Current(q)' = Current(q) /\ Cap(q)' = Cap(q)
                           /\ Limit(q)' = Limit(q)
    BY <1>1, SamePlan
  <2>3. call' = call /\ target' = target /\ sweep' = sweep /\ Managed' = Managed /\ bought' = bought
    BY <1>1, SamePlan
  <2> SUFFICES ASSUME NEW q \in Symbols
               PROVE  /\ bought'[q] > 0 => Current(q)' + bought'[q] * Limit(q)' <= Smaller(target[q], Cap(q)')
                      /\ sold'[q] > 0 /\ ~(q = Haven /\ sweep > 0) =>
                           (call.held[q] - sold'[q]) * Price(q)' >= target[q]
                      /\ sold'[q] <= call.held[q] /\ (sold'[q] > 0 => q \in Managed)
    BY <2>3 DEF NoOvershoot
  <2>4. CASE sold'[q] = sold[q]
    BY <2>2, <2>3, <2>4 DEF IInv, NoOvershoot
  <2>5. CASE q = s /\ sold'[q] = w
    <3>1. bought'[q] = 0
      BY <1>4, <2>3 DEF Zero
    <3> QED BY <1>2, <1>6, <2>2, <2>5, <3>1 DEF p
  <2> QED BY <2>1, <2>4, <2>5
<1> QED BY <1>7, <1>8, <1>9, <1>10, <1>11, <1>12 DEF IInv

LEMMA PassGate ==
  ASSUME Grounded, IInv, Gate
  PROVE  IInv'
<1>1. PICK cash \in Cash \cup {Unknown}, negative \in BOOLEAN :
        LET now == Investable(AfterSells(cash))
        IN  /\ budget' = now /\ funds' = now
            /\ IF BuysBlocked(now, negative)
                 THEN pc' = "over" /\ UNCHANGED left
                 ELSE pc' = "buy" /\ left' = Symbols
  BY DEF Gate
<1> DEFINE now == Investable(AfterSells(cash))
<1>2. pc = "sell" /\ UNCHANGED plan /\ UNCHANGED <<stuck, sold, bought, spent, lock>>
  BY DEF Gate
<1>3. /\ budget' = now /\ funds' = now
      /\ \/ pc' = "over" /\ left' = left
         \/ pc' = "buy" /\ left' = Symbols /\ (Prohibited => Needed = {})
  BY <1>1 DEF BuysBlocked
<1>4. now \in Nat
  <2>1. cash \in Int /\ budget \in Int /\ call.reserve \in Int
    BY DEF IInv, Shaped, Grounded, Sensible, Unknown
  <2>2. AfterSells(cash) \in Int
    BY <2>1 DEF AfterSells
  <2> QED BY <2>1, <2>2 DEF Investable, Larger, Reserved
<1> HIDE DEF now
<1>5. bought = Zero /\ spent = 0
  BY <1>2 DEF IInv, InOrder
<1>6. Shaped'
  BY <1>2, <1>3, <1>4, SamePlan DEF IInv, Shaped
<1>7. InOrder'
  BY <1>2, <1>3, SamePlan DEF IInv, InOrder
<1>8. Unseen'
  BY <1>2, <1>3, SamePlan DEF IInv, Unseen
<1>9. Remaining' /\ WithinBudget'
  BY <1>2, <1>3, <1>4, <1>5 DEF Remaining, WithinBudget
<1> QED BY <1>2, <1>6, <1>7, <1>8, <1>9, SameOrders DEF IInv

LEMMA PassFinish == ASSUME Grounded, IInv, Finish PROVE IInv'
BY PassMoves DEF Finish, plan, IInv, Shaped

\* A buy that is looked at lowers the budget, and costs what it takes of it.
LEMMA PassBuy ==
  ASSUME Grounded, IInv, NEW s \in Symbols, Buy(s)
  PROVE  IInv'
<1>1. /\ pc = "buy" /\ left' = left \ {s}
      /\ UNCHANGED plan /\ UNCHANGED <<funds, stuck, sold, lock>>
  BY DEF Buy, Visit
<1>2. PICK cash \in Cash \cup {Unknown}, outcome \in {"taken", "failed", "unknown"}, stale \in BOOLEAN, cut \in BOOLEAN :
        LET seen == Seen(cash)
            evidence == IF cut THEN seen \div 2 ELSE seen
            quantity == BuyQuantity(s, seen)
            sent == IF cut THEN Smaller(quantity, (95 * evidence) \div (100 * Limit(s))) ELSE quantity
            cost == sent * Limit(s)
            tried == /\ Underweight(s) /\ call.cashOnly => cash > 0
                     /\ Underweight(s) /\ Worth(s, seen) /\ quantity > 0
                     /\ call.cashOnly => ~stale
        IN  IF ~tried
              THEN /\ budget' = IF Underweight(s) THEN seen ELSE budget
                   /\ UNCHANGED <<pc, bought, spent>>
              ELSE IF quantity * Limit(s) > Cap(s) - Current(s)
              THEN pc' = "refused" /\ UNCHANGED <<budget, bought, spent>>
              ELSE /\ budget' = IF outcome = "failed" THEN evidence ELSE evidence - cost
                   /\ bought' = IF outcome = "failed" THEN bought ELSE [bought EXCEPT ![s] = sent]
                   /\ spent' = IF outcome = "failed" THEN spent ELSE spent + cost
                   /\ pc' = IF outcome = "unknown" THEN "over" ELSE "buy"
  BY DEF Buy
<1> DEFINE seen == Seen(cash)
           evidence == IF cut THEN seen \div 2 ELSE seen
           quantity == BuyQuantity(s, seen)
           l == Limit(s)
           sent == IF cut THEN Smaller(quantity, (95 * evidence) \div (100 * l)) ELSE quantity
           cost == sent * l
           g == Gap(s)
<1>3. seen \in Nat /\ seen <= budget /\ evidence \in Nat /\ evidence <= seen
  <2>1. cash \in Int /\ budget \in Nat /\ call.reserve \in Int
    BY DEF IInv, Shaped, Grounded, Sensible, Unknown
  <2>2. seen \in Nat /\ seen <= budget
    BY <2>1 DEF Seen, Investable, Larger, Smaller, Reserved
  <2> HIDE DEF seen
  <2> QED BY <2>2
<1>4. l \in Nat /\ g \in Int /\ Cap(s) \in Int /\ Current(s) \in Int /\ target[s] \in Int
      /\ g = target[s] - Current(s) /\ target[s] <= Cap(s)
  BY <1>1, Typed DEF IInv, InOrder, Exceeds, Gap
<1>5. ASSUME Price(s) > 0, quantity > 0
      PROVE  /\ quantity * l <= g /\ sent \in Int /\ l > 0
             /\ cost \in Nat /\ cost <= g /\ cost <= evidence
  <2>1. l > 0 /\ quantity \in Int /\ quantity * l <= g /\ quantity * l <= seen
    BY <1>3, <1>5, BuyCosts, Typed DEF IInv
  <2> DEFINE part == (95 * evidence) \div (100 * l)
  <2>2. part \in Nat /\ part * l <= evidence
    <3> DEFINE e == evidence
    <3>1. 95 * e \in Nat /\ 95 * e <= 100 * e /\ e \in Int /\ 100 * l \in Int /\ 100 * l > 0
      BY <1>3, <1>4, <2>1
    <3> HIDE DEF e
    <3>2. ((95 * e) \div (100 * l)) \in Nat
      BY <3>1, DivNat
    <3>3. ((95 * e) \div (100 * l)) * l <= e
      BY <1>4, <2>1, <3>1, SharesCost
    <3> QED BY <3>2, <3>3 DEF e
  <2>3. CASE ~cut
    <3>1. sent = quantity /\ evidence = seen
      BY <2>3
    <3> HIDE DEF sent, evidence, quantity, seen
    <3>2. cost = quantity * l /\ cost \in Nat
      BY <1>4, <1>5, <2>1, <3>1
    <3> QED BY <2>1, <3>1, <3>2
  <2>4. CASE cut
    <3>1. sent = Smaller(quantity, part)
      BY <2>4
    <3> HIDE DEF sent, part, evidence, quantity
    <3>2. sent \in Nat /\ sent <= quantity /\ sent <= part
      BY <1>5, <2>1, <2>2, <3>1 DEF Smaller
    <3>3. sent * l <= quantity * l /\ sent * l <= part * l /\ sent * l \in Nat
      BY <1>4, <2>1, <2>2, <3>2, TimesGrows
    <3>4. quantity * l \in Int /\ part * l \in Int
      BY <1>4, <2>1, <2>2
    <3> QED BY <1>3, <1>4, <2>1, <2>2, <3>2, <3>3, <3>4
  <2> QED BY <2>3, <2>4
<1>6. \/ budget' \in {budget, seen} /\ UNCHANGED <<pc, bought, spent>>
      \/ /\ Underweight(s) /\ Price(s) > 0 /\ quantity > 0
         /\ \/ quantity * l > Cap(s) - Current(s)
            \/ budget' = evidence /\ UNCHANGED <<bought, spent>> /\ pc' \in {"buy", "over"}
            \/ /\ budget' = evidence - cost /\ bought' = [bought EXCEPT ![s] = sent] /\ spent' = spent + cost
               /\ pc' \in {"buy", "over"}
  BY <1>1, <1>2 DEF Worth
<1> HIDE DEF seen, evidence, quantity, l, sent, cost, g
<1>7. /\ budget \in Nat /\ funds \in Int /\ spent \in Int /\ spent + budget <= funds /\ spent <= funds
      /\ bought \in [Symbols -> Int] /\ left \subseteq Symbols
  BY <1>1 DEF IInv, Shaped, Remaining, WithinBudget
<1>8. CASE budget' \in Nat /\ budget' <= budget /\ UNCHANGED <<bought, spent>> /\ pc' \in {"buy", "over"}
  <2>1. Shaped'
    BY <1>1, <1>7, <1>8, SamePlan DEF IInv, Shaped
  <2>2. InOrder'
    BY <1>1, <1>8, SamePlan DEF IInv, InOrder
  <2>3. Unseen'
    BY <1>1, <1>8, SamePlan DEF IInv, Unseen
  <2>4. Remaining' /\ WithinBudget'
    <3>1. funds' = funds /\ spent' = spent
      BY <1>1, <1>8
    <3>2. budget' \in Nat /\ budget' <= budget
      BY <1>8
    <3>4. budget \in Int /\ funds \in Int /\ spent \in Int /\ spent + budget <= funds
      BY <1>7
    <3> DEFINE b == budget'
    <3>5. b \in Int /\ b <= budget
      BY <3>2
    <3> HIDE DEF b
    <3>6. spent + b <= funds
      BY <3>4, <3>5
    <3>3. spent + budget' <= funds
      BY <3>6 DEF b
    <3> QED BY <1>7, <3>1, <3>3 DEF Remaining, WithinBudget
  <2> QED BY <1>1, <1>8, <2>1, <2>2, <2>3, <2>4, SameOrders DEF IInv
<1>9. CASE /\ Underweight(s) /\ Price(s) > 0 /\ quantity > 0
           /\ budget' = evidence - cost /\ bought' = [bought EXCEPT ![s] = sent] /\ spent' = spent + cost
           /\ pc' \in {"buy", "over"}
  <2>1. /\ sent \in Int /\ cost \in Nat /\ cost <= g /\ cost <= evidence
    BY <1>5, <1>9
  <2>2. Shaped'
    BY <1>1, <1>3, <1>7, <1>9, <2>1, SamePlan DEF IInv, Shaped
  <2>3. InOrder'
    BY <1>1, <1>9, SamePlan DEF IInv, InOrder
  <2>4. Unseen'
    BY <1>1, <1>9, SamePlan DEF IInv, Unseen
  <2>5. Remaining' /\ WithinBudget'
    BY <1>1, <1>3, <1>7, <1>9, <2>1 DEF Remaining, WithinBudget
  <2>6. ~Prohibited
    BY <1>1, <1>9 DEF IInv, Unseen, Needed
  <2>7. NoBlindBuy'
    BY <2>6, <1>1, SamePlan DEF NoBlindBuy, Prohibited
  <2>8. NoOvershoot'
    <3>1. \A q \in Symbols : (q = s /\ bought'[q] = sent) \/ bought'[q] = bought[q]
      BY <1>7, <1>9
    <3>2. \A q \in Symbols : /\ Price(q)' = Price(q) /\ Current(q)' = Current(q) /\ Cap(q)' = Cap(q)
                             /\ Limit(q)' = Limit(q)
      BY <1>1, SamePlan
    <3>3. call' = call /\ target' = target /\ sweep' = sweep /\ Managed' = Managed /\ sold' = sold
      BY <1>1, SamePlan
    <3> SUFFICES ASSUME NEW q \in Symbols
                 PROVE  bought'[q] > 0 => Current(q)' + bought'[q] * Limit(q)' <= Smaller(target[q], Cap(q)')
      BY <3>2, <3>3 DEF NoOvershoot, IInv
    <3>4. CASE bought'[q] = bought[q]
      BY <3>2, <3>3, <3>4 DEF IInv, NoOvershoot
    <3>5. CASE q = s /\ bought'[q] = sent
      <4>1. cost = sent * Limit(s)
        BY DEF cost, l
      <4> QED BY <1>4, <2>1, <3>2, <3>5, <4>1 DEF Smaller
    <3> QED BY <3>1, <3>4, <3>5
  <2> QED BY <2>2, <2>3, <2>4, <2>5, <2>7, <2>8 DEF IInv
<1>10. ~(/\ Underweight(s) /\ Price(s) > 0 /\ quantity > 0
         /\ quantity * l > Cap(s) - Current(s))
  <2>1. ASSUME Price(s) > 0, quantity > 0
        PROVE  quantity * l <= g
    BY <1>5, <2>1
  <2>2. ASSUME NEW x, x <= g, x > Cap(s) - Current(s), x \in Int
        PROVE  FALSE
    BY <1>4, <2>2
  <2>3. Price(s) > 0 /\ quantity > 0 => quantity * l \in Int
    BY <1>4, <1>3, BuyCosts DEF IInv, quantity
  <2> QED BY <2>1, <2>2, <2>3
<1> QED BY <1>1, <1>3, <1>6, <1>7, <1>8, <1>9, <1>10

LEMMA PassStep == ASSUME Grounded, IInv, [Next]_vars PROVE IInv'
<1>1. CASE Next
  BY <1>1, PassValue, PassBlocked, PassPlan, PassGate, PassFinish, PassLock, PassSellSkipped, PassSell, PassBuy
     DEF Next
<1>2. CASE UNCHANGED vars
  BY <1>2, PassMoves DEF vars, plan, IInv, Shaped
<1> QED BY <1>1, <1>2

LEMMA PassHolds ==
  ASSUME IInv
  PROVE  WithinBudget /\ NoOvershoot /\ NoBlindBuy /\ DayKeptOpen /\ NeverStoppedHalfway
BY DEF IInv, Unseen, InOrder, DayKeptOpen, NeverStoppedHalfway

----------------------------------------------------------------------------
(* The theorems.                                                           *)

LEMMA PassInvariant == ASSUME Grounded PROVE Spec => []IInv
<1>1. Init => IInv
  BY PassInit
<1>2. IInv /\ [Next]_vars => IInv'
  BY PassStep
<1> QED BY <1>1, <1>2, PTL DEF Spec

\* However the cash changes between the orders of a pass (it is refreshed before
\* every candidate of execute_rebalance), its buys together cost no more than
\* there was after its sells, the reserve left aside.
THEOREM PassWithinBudget == ASSUME Grounded PROVE Spec => []WithinBudget
<1>1. IInv => WithinBudget
  BY PassHolds
<1> QED BY <1>1, PassInvariant, PTL

\* No order takes a position past its target, whatever the prices, nor a buy past
\* what the risk engine approved (_sell_order_quantity, the buys of
\* execute_rebalance).
THEOREM PassNeverOvershoots == ASSUME Grounded PROVE Spec => []NoOvershoot
<1>1. IInv => NoOvershoot
  BY PassHolds
<1> QED BY <1>1, PassInvariant, PTL

\* Whoever could not see the cash or the open orders before the sells, or was not
\* admitted by the risk gate, buys nothing after them (account_new_risk_gate).
THEOREM PassNeverBuysBlind == ASSUME Grounded PROVE Spec => []NoBlindBuy
<1>1. IInv => NoBlindBuy
  BY PassHolds
<1> QED BY <1>1, PassInvariant, PTL

\* The day's lock of a pass that could not see its cash is one for a sale
\* (the plan before the lock of execute_rebalance).
THEOREM PassKeepsTheDayOpen == ASSUME Grounded PROVE Spec => []DayKeptOpen
<1>1. IInv => DayKeptOpen
  BY PassHolds
<1> QED BY <1>1, PassInvariant, PTL

\* What the last checks against the approval refuse was refused before the lock
\* was taken, and before the first order (execute_rebalance).
THEOREM PassNeverStoppedHalfway == ASSUME Grounded PROVE Spec => []NeverStoppedHalfway
<1>1. IInv => NeverStoppedHalfway
  BY PassHolds
<1> QED BY <1>1, PassInvariant, PTL

=============================================================================
