------------------------------ MODULE Cycles_proofs --------------------------
(***************************************************************************)
(* Proofs about cycles beyond those of TradingCycle_proofs: about the two  *)
(* instances of MCCycleVariants, of which its theorems hold, and about the *)
(* cash that the buys of one cycle share, SettledCashBuy, for every value  *)
(* of its constants.                                                       *)
(***************************************************************************)
EXTENDS MCCycleVariants, SettledCashBuy, TLAPS

(***************************************************************************)
(* Lemmas about amounts.                                                   *)
(***************************************************************************)

\* A refresh yields an amount or no observation.
LEMMA ObservationType == Observations \subseteq Amounts \cup {None}
<1>1. ASSUME NEW rows \in SUBSET Rows, NEW complete \in BOOLEAN
      PROVE  SettledCash(rows, complete) \in Amounts \cup {None}
  <2>1. CASE rows # {}
    <3>1. \E v \in Amounts : \E r \in rows : r.amount = v
      BY <2>1 DEF Rows
    <3> QED BY <3>1 DEF SettledCash
  <2> QED BY <2>1 DEF SettledCash
<1> QED BY <1>1 DEF Observations

\* What may be invested is an amount, and nothing observed is worth nothing.
LEMMA WorthType ==
  /\ \A v \in Amounts : Investable(v) \in Amounts
  /\ \A seen \in Amounts \cup {None} : Worth(seen) \in Amounts
  /\ Worth(None) = 0
  /\ \A v \in Amounts : Worth(v) = Investable(v)
BY AmountsAssumption DEF Investable, Worth, Amounts

\* The lesser of two integers is one of them and exceeds neither.
LEMMA LeastBound ==
  ASSUME NEW m \in Int, NEW n \in Int
  PROVE  Least(m, n) \in {m, n} /\ Least(m, n) <= m /\ Least(m, n) <= n
BY DEF Least

\* A resized order never exceeds the planned one.
LEMMA ResizedBound ==
  ASSUME planned \in Int, remaining \in Int
  PROVE  Resized \in Int /\ Resized <= planned
<1>1. (remaining * 95) \div 100 \in Int
  OBVIOUS
<1> QED BY <1>1, LeastBound DEF Resized

(***************************************************************************)
(* The budget that is believed to be left is there.                        *)
(***************************************************************************)

\* Everything the loop and the proxy know is consistent at the start.
LEMMA InitInv == Init => IInv
<1>1. Init => Switches
  BY DEF Init, Switches
<1> QED
  BY <1>1, AmountsAssumption
     DEF Init, IInv, TypeOK, SpentWithinBudget, BelievedBudget, UnverifiedStopsBuys,
         Submitting, Amounts

\* The switches stay switches.
LEMMA SwitchesStep == Switches /\ [Next]_vars => Switches'
<1> SUFFICES ASSUME Switches, [Next]_vars PROVE Switches'
  OBVIOUS
<1> USE DEF Switches, vars, proxy, ghosts
<1>1. CASE UNCHANGED vars
  BY <1>1
<1>2. CASE ObserveBudget \/ NextCandidate
  BY <1>2 DEF ObserveBudget, NextCandidate, Note
<1>3. CASE EndBuys \/ SkipCandidate \/ Size
  BY <1>3 DEF EndBuys, SkipCandidate, Size
<1>4. CASE Prepare \/ ReserveAttempt \/ Raise \/ PlaceOrder \/ RefuseOrder
  BY <1>4 DEF Prepare, ReserveAttempt, Raise, PlaceOrder, RefuseOrder
<1>5. CASE ReportAccepted \/ ReportFailed \/ ReportUnknown
  BY <1>5 DEF ReportAccepted, ReportFailed, ReportUnknown
<1>6. CASE CashUpdate \/ BadUpdate \/ Expire
  BY <1>6 DEF CashUpdate, BadUpdate, Expire
<1> QED BY <1>1, <1>2, <1>3, <1>4, <1>5, <1>6 DEF Next

\* Every step of the loop, and every event of the account, keeps it so.
LEMMA StepInv == IInv /\ [Next]_vars => IInv'
<1> SUFFICES ASSUME IInv, [Next]_vars PROVE IInv'
  OBVIOUS
<1> USE AmountsAssumption
    DEF IInv, TypeOK, SpentWithinBudget, BelievedBudget, UnverifiedStopsBuys,
        Submitting, Amounts, proxy, ghosts
<1>0. Switches'
  BY SwitchesStep
<1>1. CASE UNCHANGED vars
  BY <1>0, <1>1 DEF vars
<1>2. CASE ObserveBudget
  <2>1. PICK seen \in Observations : investable' = Worth(seen) /\ Note(seen)
    BY <1>2 DEF ObserveBudget
  <2>2. seen \in Amounts \cup {None} /\ Worth(seen) \in Amounts
    BY ObservationType, WorthType
  <2>3. /\ headroom' = IF seen = None THEN headroom ELSE Least(headroom, Investable(seen))
        /\ slipped' = slipped /\ since' = since
    BY <2>1 DEF Note
  <2>4. unverified' => unverified \/ seen = None
    BY <2>1 DEF Note
  <2>5. headroom' + slipped' >= 0 /\ headroom' \in Int
    BY <2>2, <2>3, WorthType DEF Least
  <2>6. investable' <= headroom' + slipped'
    <3>1. Cash <= headroom + slipped
      BY <1>2 DEF ObserveBudget
    <3>2. CASE seen = None
      BY <2>1, <2>3, <3>1, <3>2, WorthType
    <3>3. CASE seen # None
      BY <2>1, <2>2, <2>3, <3>1, <3>3, WorthType DEF Least
    <3> QED BY <3>2, <3>3
  <2>7. unverified' => investable' <= 0
    BY <1>2, <2>1, <2>2, <2>4, WorthType DEF ObserveBudget
  <2> QED BY <1>0, <1>2, <2>1, <2>2, <2>3, <2>5, <2>6, <2>7 DEF ObserveBudget
<1>3. CASE NextCandidate
  <2>1. PICK symbol \in todo, seen \in Observations :
          /\ todo' = todo \ {symbol}
          /\ investable' = Least(investable, Worth(seen))
          /\ pc' = IF seen = None \/ seen = 0 THEN "next" ELSE "size"
          /\ Note(seen)
    BY <1>3 DEF NextCandidate
  <2>2. seen \in Amounts \cup {None} /\ Worth(seen) \in Amounts
    BY ObservationType, WorthType
  <2>3. CASE seen = None
    BY <1>0, <1>3, <2>1, <2>2, <2>3, WorthType DEF NextCandidate, Note, Least
  <2>4. CASE seen # None
    <3>1. /\ headroom' = Least(headroom, Investable(seen))
          /\ slipped' = slipped /\ since' = since
      BY <2>1, <2>4 DEF Note
    <3>2. unverified' => unverified
      BY <2>1, <2>4 DEF Note
    <3>3. investable' = Least(investable, Investable(seen)) /\ Investable(seen) \in Amounts
      BY <2>1, <2>2, <2>4, WorthType
    <3>4. unverified' => investable' <= 0
      BY <3>2, <3>3 DEF Least
    <3> QED BY <1>0, <1>3, <2>1, <2>2, <3>1, <3>3, <3>4 DEF NextCandidate, Least
  <2> QED BY <2>3, <2>4
<1>4. CASE EndBuys \/ SkipCandidate
  BY <1>0, <1>4 DEF EndBuys, SkipCandidate
<1>5. CASE Size
  BY <1>0, <1>5 DEF Size
<1>6. CASE Prepare
  <2>1. Resized \in Int /\ Resized <= planned
    BY ResizedBound
  <2>2. CASE invalid \/ Resized < Minimum
    BY <1>0, <1>6, <2>2 DEF Prepare, Least
  <2>3. CASE ~(invalid \/ Resized < Minimum)
    BY <1>0, <1>6, <2>1, <2>3 DEF Prepare
  <2> QED BY <2>2, <2>3
<1>7. CASE ReserveAttempt \/ Raise
  BY <1>0, <1>7 DEF ReserveAttempt, Raise
<1>8. CASE PlaceOrder
  BY <1>0, <1>8 DEF PlaceOrder, Covered
<1>9. CASE RefuseOrder
  BY <1>0, <1>9 DEF RefuseOrder, Least
<1>10. CASE ReportAccepted
  BY <1>0, <1>10 DEF ReportAccepted, Budget, Least
<1>11. CASE ReportFailed
  <2>1. PICK executed \in 0..prepared :
          /\ headroom' = Least(headroom - executed, since)
          /\ slipped' = slipped + executed
    BY <1>11 DEF ReportFailed
  <2> QED BY <1>0, <1>11, <2>1 DEF ReportFailed, Budget, Least
<1>12. CASE ReportUnknown
  BY <1>0, <1>12 DEF ReportUnknown, Budget, Least
<1>13. CASE CashUpdate
  <2>1. PICK v \in Amounts \ {0} :
          /\ remaining' = Lowered(v)
          /\ IF pc = "report"
               THEN since' = Least(since, Investable(v)) /\ UNCHANGED headroom
               ELSE headroom' = Least(headroom, Investable(v)) /\ UNCHANGED since
    BY <1>13 DEF CashUpdate
  <2> QED BY <1>0, <1>13, <2>1, WorthType DEF CashUpdate, Lowered, Least
<1>14. CASE BadUpdate \/ Expire
  BY <1>0, <1>14 DEF BadUpdate, Expire
<1> QED BY <1>1, <1>2, <1>3, <1>4, <1>5, <1>6, <1>7, <1>8, <1>9, <1>10, <1>11,
           <1>12, <1>13, <1>14 DEF Next

\* The inductive invariant over the loop's and the proxy's budgets.
THEOREM Invariance == Spec => []IInv
BY InitInv, StepInv, PTL DEF Spec

(***************************************************************************)
(* The properties.                                                         *)
(***************************************************************************)

\* The variables of the buy loop have their types.
THEOREM TypeCorrectness == Spec => []TypeOK
<1>1. IInv => TypeOK
  BY DEF IInv
<1> QED BY <1>1, Invariance, PTL

\* The orders of a cycle stay within every observation that preceded them,
\* up to what was executed of orders reported as cancelled.
THEOREM WithinBudget == Spec => []SpentWithinBudget
<1>1. IInv => SpentWithinBudget
  BY DEF IInv
<1> QED BY <1>1, Invariance, PTL

\* After an unreadable refresh nothing is submitted any more.
THEOREM UnverifiedIsFinal == Spec => []UnverifiedStopsBuys
<1>1. IInv => UnverifiedStopsBuys
  BY DEF IInv
<1> QED BY <1>1, Invariance, PTL

\* Without partial fills of cancelled orders the budget is truly shared: if
\* nothing slipped so far, no observation is overspent (SharedBudget).
THEOREM SharedWithoutCancels == Spec => [](slipped = 0 => SharedBudget)
<1>1. IInv => (slipped = 0 => SharedBudget)
  BY DEF IInv, TypeOK, SpentWithinBudget, SharedBudget
<1> QED BY <1>1, Invariance, PTL

----------------------------------------------------------------------------
(* The instances of TradingCycle.                                          *)

\* What is proved of every trading cycle, at the constants of the two.
Pair == INSTANCE TradingCycle_proofs WITH
  None <- Nobody, Requests <- TwoRequests, Instances <- {i1, i2}, Host <- OneEach, Profiles <- {p1, p2},
  ProfileOf <- TwoProfiles, Symbols <- {s1, s2}, Universe <- Disjoint, LastDay <- 1,
  MaxCrashes <- 1, CashOnly <- TRUE, GateEnabled <- TRUE, pc <- a_pc,
  runLock <- a_runLock, lockFiles <- a_lockFiles, dayOf <- a_dayOf,
  session <- a_session, brake <- a_brake, plan <- a_plan,
  current <- a_current, claimHeld <- a_claimHeld, owner <- a_owner,
  marker <- a_marker, certainty <- a_certainty, breaker <- a_breaker,
  order <- a_order, day <- a_day, crashes <- a_crashes

Single == INSTANCE TradingCycle_proofs WITH
  None <- Nobody, Requests <- TwoRequests, Instances <- {i1}, Host <- OneHost, Profiles <- {p1},
  ProfileOf <- OneProfile, Symbols <- {s1}, Universe <- ManageOne, LastDay <- 1,
  MaxCrashes <- 1, CashOnly <- FALSE, GateEnabled <- FALSE, pc <- b_pc,
  runLock <- b_runLock, lockFiles <- b_lockFiles, dayOf <- b_dayOf,
  session <- b_session, brake <- b_brake, plan <- b_plan,
  current <- b_current, claimHeld <- b_claimHeld, owner <- b_owner,
  marker <- b_marker, certainty <- b_certainty, breaker <- b_breaker,
  order <- b_order, day <- b_day, crashes <- b_crashes

----------------------------------------------------------------------------
(* The constants of the instances are what a trading cycle assumes.        *)

LEMMA PairRequests == Pair!RequestsAssumption
BY NobodyAssumption DEF Pair!RequestsAssumption, Pair!Attempts, Pair!Sides, TwoRequests

LEMMA PairProfiles == Pair!ProfilesAssumption
BY NobodyAssumption DEF Pair!ProfilesAssumption

LEMMA PairTopology == Pair!TopologyAssumption
<1>1. OneEach \in [TwoRequests -> {i1, i2}]
  BY DEF OneEach, TwoRequests
<1>2. TwoProfiles \in [{i1, i2} -> {p1, p2}]
  BY DEF TwoProfiles
<1>3. Disjoint \in [{p1, p2} -> SUBSET {s1, s2}]
  BY DEF Disjoint
<1>4. QED
  BY <1>1, <1>2, <1>3 DEF Pair!TopologyAssumption

LEMMA PairBounds == Pair!BoundsAssumption
BY DEF Pair!BoundsAssumption

LEMMA PairSwitches == Pair!SwitchAssumption
BY DEF Pair!SwitchAssumption

LEMMA SingleRequests == Single!RequestsAssumption
BY NobodyAssumption DEF Single!RequestsAssumption, Single!Attempts, Single!Sides, TwoRequests

LEMMA SingleProfiles == Single!ProfilesAssumption
BY NobodyAssumption DEF Single!ProfilesAssumption

LEMMA SingleTopology == Single!TopologyAssumption
<1>1. OneHost \in [TwoRequests -> {i1}]
  BY DEF OneHost, TwoRequests
<1>2. OneProfile \in [{i1} -> {p1}]
  BY DEF OneProfile
<1>3. ManageOne \in [{p1} -> SUBSET {s1}]
  BY DEF ManageOne
<1>4. QED
  BY <1>1, <1>2, <1>3 DEF Single!TopologyAssumption

LEMMA SingleBounds == Single!BoundsAssumption
BY DEF Single!BoundsAssumption

LEMMA SingleSwitches == Single!SwitchAssumption
BY DEF Single!SwitchAssumption

----------------------------------------------------------------------------
(* A step of the one leaves the other as it is, so each behaves as its     *)
(* specification says.                                                     *)

LEMMA PairInit == VariantsInit => Pair!Init
BY DEF VariantsInit, Rivals!Init, Rivals!Days, Rivals!Sides, Rivals!Keys, Rivals!Attempts,
         Pair!Init, Pair!Days, Pair!Sides, Pair!Keys, Pair!Attempts

LEMMA PairSame == Rivals!Next <=> Pair!Next
BY DEF Rivals!process, Rivals!local, Rivals!store, Rivals!env, Rivals!Days,
       Rivals!Sides, Rivals!Keys, Rivals!Attempts, Rivals!ProfileFor,
       Rivals!KeyOf, Rivals!LockFile, Rivals!Managed, Rivals!Submitting,
       Rivals!Running, Rivals!At, Rivals!Goto, Rivals!Step, Rivals!Skip,
       Rivals!RunLockFree, Rivals!Begin, Rivals!Released, Rivals!Forget,
       Rivals!Finish, Rivals!ObserveFails, Rivals!Observe, Rivals!Recorded,
       Rivals!Dedup, Rivals!AdmitFails, Rivals!Live, Rivals!Buys,
       Rivals!GateCloses, Rivals!Admit, Rivals!TakeLock, Rivals!NextIntents,
       Rivals!SkipIntent, Rivals!TradeFails, Rivals!Submit, Rivals!EndTrade,
       Rivals!OwnerAllows, Rivals!MarkerFree, Rivals!ClaimAgain,
       Rivals!ClaimOwner, Rivals!ClaimMarker, Rivals!NewRisk, Rivals!Fenced,
       Rivals!FencedByOrders, Rivals!BreakerStops, Rivals!Reserve,
       Rivals!DispatchTrusts, Rivals!DispatchRefuses, Rivals!Dispatch,
       Rivals!Place, Rivals!Report, Rivals!Submitted, Rivals!Record,
       Rivals!Crash, Rivals!BrokerDone, Rivals!DayTick, Rivals!Work,
       Rivals!Next, Pair!process, Pair!local, Pair!store, Pair!env, Pair!Days,
       Pair!Sides, Pair!Keys, Pair!Attempts, Pair!ProfileFor, Pair!KeyOf,
       Pair!LockFile, Pair!Managed, Pair!Submitting, Pair!Running, Pair!At,
       Pair!Goto, Pair!Step, Pair!Skip, Pair!RunLockFree, Pair!Begin,
       Pair!Released, Pair!Forget, Pair!Finish, Pair!ObserveFails,
       Pair!Observe, Pair!Recorded, Pair!Dedup, Pair!AdmitFails, Pair!Live,
       Pair!Buys, Pair!GateCloses, Pair!Admit, Pair!TakeLock,
       Pair!NextIntents, Pair!SkipIntent, Pair!TradeFails, Pair!Submit,
       Pair!EndTrade, Pair!OwnerAllows, Pair!MarkerFree, Pair!ClaimAgain,
       Pair!ClaimOwner, Pair!ClaimMarker, Pair!NewRisk, Pair!Fenced,
       Pair!FencedByOrders, Pair!BreakerStops, Pair!Reserve,
       Pair!DispatchTrusts, Pair!DispatchRefuses, Pair!Dispatch, Pair!Place,
       Pair!Report, Pair!Submitted, Pair!Record, Pair!Crash, Pair!BrokerDone,
       Pair!DayTick, Pair!Work, Pair!Next

LEMMA PairStep == [VariantsNext]_variants => [Pair!Next]_(Pair!vars)
<1>1. UNCHANGED a_vars => UNCHANGED Pair!vars
  BY DEF a_vars, Pair!vars, Pair!process, Pair!local, Pair!store, Pair!env
<1>2. [VariantsNext]_variants => Rivals!Next \/ UNCHANGED a_vars
  BY DEF VariantsNext, Only, variants
<1>3. QED
  BY <1>1, <1>2, PairSame

LEMMA SingleInit == VariantsInit => Single!Init
BY DEF VariantsInit, Restart!Init, Restart!Days, Restart!Sides, Restart!Keys, Restart!Attempts,
         Single!Init, Single!Days, Single!Sides, Single!Keys, Single!Attempts

LEMMA SingleSame == Restart!Next <=> Single!Next
BY DEF Restart!process, Restart!local, Restart!store, Restart!env, Restart!Days,
       Restart!Sides, Restart!Keys, Restart!Attempts, Restart!ProfileFor,
       Restart!KeyOf, Restart!LockFile, Restart!Managed, Restart!Submitting,
       Restart!Running, Restart!At, Restart!Goto, Restart!Step, Restart!Skip,
       Restart!RunLockFree, Restart!Begin, Restart!Released, Restart!Forget,
       Restart!Finish, Restart!ObserveFails, Restart!Observe,
       Restart!Recorded, Restart!Dedup, Restart!AdmitFails, Restart!Live,
       Restart!Buys, Restart!GateCloses, Restart!Admit, Restart!TakeLock,
       Restart!NextIntents, Restart!SkipIntent, Restart!TradeFails,
       Restart!Submit, Restart!EndTrade, Restart!OwnerAllows,
       Restart!MarkerFree, Restart!ClaimAgain, Restart!ClaimOwner,
       Restart!ClaimMarker, Restart!NewRisk, Restart!Fenced,
       Restart!FencedByOrders, Restart!BreakerStops, Restart!Reserve,
       Restart!DispatchTrusts, Restart!DispatchRefuses, Restart!Dispatch,
       Restart!Place, Restart!Report, Restart!Submitted, Restart!Record,
       Restart!Crash, Restart!BrokerDone, Restart!DayTick, Restart!Work,
       Restart!Next, Single!process, Single!local, Single!store, Single!env,
       Single!Days, Single!Sides, Single!Keys, Single!Attempts,
       Single!ProfileFor, Single!KeyOf, Single!LockFile, Single!Managed,
       Single!Submitting, Single!Running, Single!At, Single!Goto, Single!Step,
       Single!Skip, Single!RunLockFree, Single!Begin, Single!Released,
       Single!Forget, Single!Finish, Single!ObserveFails, Single!Observe,
       Single!Recorded, Single!Dedup, Single!AdmitFails, Single!Live,
       Single!Buys, Single!GateCloses, Single!Admit, Single!TakeLock,
       Single!NextIntents, Single!SkipIntent, Single!TradeFails,
       Single!Submit, Single!EndTrade, Single!OwnerAllows, Single!MarkerFree,
       Single!ClaimAgain, Single!ClaimOwner, Single!ClaimMarker,
       Single!NewRisk, Single!Fenced, Single!FencedByOrders,
       Single!BreakerStops, Single!Reserve, Single!DispatchTrusts,
       Single!DispatchRefuses, Single!Dispatch, Single!Place, Single!Report,
       Single!Submitted, Single!Record, Single!Crash, Single!BrokerDone,
       Single!DayTick, Single!Work, Single!Next

LEMMA SingleStep == [VariantsNext]_variants => [Single!Next]_(Single!vars)
<1>1. UNCHANGED b_vars => UNCHANGED Single!vars
  BY DEF b_vars, Single!vars, Single!process, Single!local, Single!store, Single!env
<1>2. [VariantsNext]_variants => Restart!Next \/ UNCHANGED b_vars
  BY DEF VariantsNext, Only, variants
<1>3. QED
  BY <1>1, <1>2, SingleSame

----------------------------------------------------------------------------
(* The theorems.                                                           *)

\* In every behaviour of the two services of different strategies, a broker
\* order has the owner of the account, the marker of its day and its journal
\* attempt behind it, whoever lost the race for the account and whenever a
\* worker died (acquire_execution_claim, reserve).
THEOREM RivalsAreTraced == VariantsSpec => []RivalsTraced
<1>1. Pair!RequestsAssumption
  BY PairRequests
<1>2. Pair!ProfilesAssumption
  BY PairProfiles
<1>3. Pair!TopologyAssumption
  BY PairTopology
<1>4. Pair!BoundsAssumption
  BY PairBounds
<1>5. Pair!SwitchAssumption
  BY PairSwitches
<1>6. Pair!Spec => []Pair!OrdersAreTraced
  BY Pair!Traced, <1>1, <1>2, <1>3, <1>4, <1>5
<1>7. Pair!OrdersAreTraced => RivalsTraced
  BY DEF RivalsTraced, Pair!OrdersAreTraced, Pair!Placed, Pair!ProfileFor, Pair!KeyOf, Pair!Days,
       Pair!Sides, Pair!Keys, Pair!Attempts, Rivals!OrdersAreTraced,
       Rivals!Placed, Rivals!ProfileFor, Rivals!KeyOf, Rivals!Days,
       Rivals!Sides, Rivals!Keys, Rivals!Attempts
<1>8. QED
  BY <1>6, <1>7, PairInit, PairStep, PTL DEF VariantsSpec, Pair!Spec

\* Two strategies on one account together do what the submission authority
\* allows: the account is held once and for all by one profile, and attempts
\* are opened one at a time for granted requests (execution_claims.py,
\* account_new_risk_state.py).
THEOREM RivalsImplement == VariantsSpec => RivalsAuthority
<1>1. Pair!RequestsAssumption
  BY PairRequests
<1>2. Pair!ProfilesAssumption
  BY PairProfiles
<1>3. Pair!TopologyAssumption
  BY PairTopology
<1>4. Pair!BoundsAssumption
  BY PairBounds
<1>5. Pair!SwitchAssumption
  BY PairSwitches
<1>6. Pair!Spec => Pair!AuthoritySpec
  BY Pair!Refinement, <1>1, <1>2, <1>3, <1>4, <1>5
<1>7. Pair!Authority!Init => Rivals!Authority!Init
  BY DEF Pair!Authority!Init, Pair!AttemptsThat, Pair!PlacedAttempts, Pair!Placed,
       Pair!Days, Pair!Sides, Pair!Keys, Pair!Attempts, Rivals!Authority!Init,
       Rivals!AttemptsThat, Rivals!PlacedAttempts, Rivals!Placed, Rivals!Days,
       Rivals!Sides, Rivals!Keys, Rivals!Attempts
<1>8. [Pair!Authority!Next]_(Pair!Authority!vars) => [Rivals!Authority!Next]_(Rivals!Authority!vars)
  BY DEF Pair!Authority!Next, Pair!Authority!vars, Pair!Authority!Hold,
       Pair!Authority!Grant, Pair!Authority!Granted, Pair!Authority!Open,
       Pair!Authority!Order, Pair!Authority!Settle, Pair!Authority!HolderOf,
       Pair!Authority!RequestOf, Pair!AttemptsThat, Pair!PlacedAttempts,
       Pair!Placed, Pair!Days, Pair!Sides, Pair!Keys, Pair!Attempts,
       Rivals!Authority!Next, Rivals!Authority!vars, Rivals!Authority!Hold,
       Rivals!Authority!Grant, Rivals!Authority!Granted,
       Rivals!Authority!Open, Rivals!Authority!Order, Rivals!Authority!Settle,
       Rivals!Authority!HolderOf, Rivals!Authority!RequestOf,
       Rivals!AttemptsThat, Rivals!PlacedAttempts, Rivals!Placed, Rivals!Days,
       Rivals!Sides, Rivals!Keys, Rivals!Attempts
<1>9. QED
  BY <1>6, <1>7, <1>8, PairInit, PairStep, PTL
  DEF VariantsSpec, RivalsAuthority, Pair!Spec, Pair!AuthoritySpec, Pair!Authority!Spec, Rivals!AuthoritySpec, Rivals!Authority!Spec

\* A process runs one cycle, and one that replaces a killed process too, in a
\* margin account without the gate as well (STRATEGY_RUN_LOCK).
THEOREM OneCycleAfterAKill == VariantsSpec => []OneCyclePerInstance
<1>1. Single!RequestsAssumption
  BY SingleRequests
<1>2. Single!ProfilesAssumption
  BY SingleProfiles
<1>3. Single!TopologyAssumption
  BY SingleTopology
<1>4. Single!BoundsAssumption
  BY SingleBounds
<1>5. Single!SwitchAssumption
  BY SingleSwitches
<1>6. Single!Spec => []Single!OneCyclePerInstance
  BY Single!OneCycle, <1>1, <1>2, <1>3, <1>4, <1>5
<1>7. Single!OneCyclePerInstance => OneCyclePerInstance
  BY DEF OneCyclePerInstance, Single!OneCyclePerInstance, Single!Running, Single!Submitting,
       Restart!OneCyclePerInstance, Restart!Running, Restart!Submitting
<1>8. QED
  BY <1>6, <1>7, SingleInit, SingleStep, PTL DEF VariantsSpec, Single!Spec
==============================================================================
