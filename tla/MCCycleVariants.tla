------------------------------ MODULE MCCycleVariants -----------------------
(***************************************************************************)
(* Further instances of TradingCycle, one at a time: two strategies on one *)
(* account, and two requests to one process of a margin account without    *)
(* the gate.                                                               *)
(***************************************************************************)
EXTENDS Naturals

CONSTANTS Nobody, r1, r2, i1, i2, p1, p2, s1, s2

\* Nobody is no request, no profile and no attempt.
ASSUME NobodyAssumption ==
  Nobody \notin {r1, r2, p1, p2} \cup ({r1, r2} \X {"sell", "buy"} \X {s1, s2})

TwoRequests == {r1, r2}
OneEach     == [r \in TwoRequests |-> IF r = r1 THEN i1 ELSE i2]
OneHost     == [r \in TwoRequests |-> i1]
TwoProfiles == [i \in {i1, i2} |-> IF i = i1 THEN p1 ELSE p2]
OneProfile  == [i \in {i1} |-> p1]
Disjoint    == [p \in {p1, p2} |-> IF p = p1 THEN {s1} ELSE {s2}]
ManageOne   == [p \in {p1} |-> {s1}]

VARIABLES
  part,   \* the instance that runs; chosen initially, never changed
  a_pc, a_runLock, a_lockFiles, a_dayOf, a_session, a_brake, a_plan, a_current,
  a_claimHeld, a_owner, a_marker, a_certainty, a_breaker, a_order, a_day, a_crashes,
  b_pc, b_runLock, b_lockFiles, b_dayOf, b_session, b_brake, b_plan, b_current,
  b_claimHeld, b_owner, b_marker, b_certainty, b_breaker, b_order, b_day, b_crashes

a_vars == <<a_pc, a_runLock, a_lockFiles, a_dayOf, a_session, a_brake, a_plan,
            a_current, a_claimHeld, a_owner, a_marker, a_certainty, a_breaker, a_order,
            a_day, a_crashes>>
b_vars == <<b_pc, b_runLock, b_lockFiles, b_dayOf, b_session, b_brake, b_plan,
            b_current, b_claimHeld, b_owner, b_marker, b_certainty, b_breaker, b_order,
            b_day, b_crashes>>

Rivals == INSTANCE TradingCycle WITH
  None <- Nobody, Requests <- TwoRequests, Instances <- {i1, i2}, Host <- OneEach, Profiles <- {p1, p2},
  ProfileOf <- TwoProfiles, Symbols <- {s1, s2}, Universe <- Disjoint, LastDay <- 1,
  MaxCrashes <- 1, CashOnly <- TRUE, GateEnabled <- TRUE, pc <- a_pc,
  runLock <- a_runLock, lockFiles <- a_lockFiles, dayOf <- a_dayOf,
  session <- a_session, brake <- a_brake, plan <- a_plan, current <- a_current,
  claimHeld <- a_claimHeld, owner <- a_owner, marker <- a_marker,
  certainty <- a_certainty, breaker <- a_breaker, order <- a_order, day <- a_day,
  crashes <- a_crashes

Restart == INSTANCE TradingCycle WITH
  None <- Nobody, Requests <- TwoRequests, Instances <- {i1}, Host <- OneHost, Profiles <- {p1},
  ProfileOf <- OneProfile, Symbols <- {s1}, Universe <- ManageOne, LastDay <- 1,
  MaxCrashes <- 1, CashOnly <- FALSE, GateEnabled <- FALSE, pc <- b_pc,
  runLock <- b_runLock, lockFiles <- b_lockFiles, dayOf <- b_dayOf,
  session <- b_session, brake <- b_brake, plan <- b_plan, current <- b_current,
  claimHeld <- b_claimHeld, owner <- b_owner, marker <- b_marker,
  certainty <- b_certainty, breaker <- b_breaker, order <- b_order, day <- b_day,
  crashes <- b_crashes

Parts == {"rivals", "restart"}

\* One of them runs.
VariantsInit ==
  /\ part \in Parts
  /\ Rivals!Init
  /\ Restart!Init

\* The others stand still.
Only(p) ==
  /\ part = p /\ UNCHANGED part
  /\ IF p = "rivals" THEN TRUE ELSE UNCHANGED a_vars
  /\ IF p = "restart" THEN TRUE ELSE UNCHANGED b_vars

VariantsNext ==
  \/ Only("rivals") /\ Rivals!Next
  \/ Only("restart") /\ Restart!Next

variants == <<part, a_vars, b_vars>>

\* Each with its own fairness.
VariantsSpec ==
  /\ VariantsInit /\ [][VariantsNext]_variants
  /\ \A r \in TwoRequests : WF_variants(Only("restart") /\ Restart!Work(r))

(***************************************************************************)
(* Properties: those of the two instances.                                 *)
(***************************************************************************)

\* An order of two services of different strategies on one account has its
\* owner, marker and journal attempt (acquire_execution_claim).
RivalsTraced == Rivals!OrdersAreTraced

\* The cycles of the two services implement the submission authority.
RivalsAuthority == Rivals!AuthoritySpec

\* One cycle per process, also after a kill (STRATEGY_RUN_LOCK).
OneCyclePerInstance == Restart!OneCyclePerInstance

\* STRATEGY_RUN_LOCK is always given back (_handle_request).
RunLockReturns == Restart!RunLockReturns
=============================================================================
