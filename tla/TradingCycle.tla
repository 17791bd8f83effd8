---------------------------- MODULE TradingCycle ----------------------------
(***************************************************************************)
(* One physical broker account, traded by strategy cycles that run in      *)
(* several Cloud Run instances.                                            *)
(*                                                                         *)
(* A cycle is a POST request: main._handle_request takes the process-local *)
(* STRATEGY_RUN_LOCK, rebalance_service.run_strategy_core connects, reads  *)
(* the portfolio, computes targets and checks the durable execution        *)
(* marker, execution_service.execute_rebalance checks the open orders,     *)
(* creates the day's lock file and submits its sells, then its buys.  The  *)
(* first submission claims the account owner and the execution marker;     *)
(* every submission reserves an attempt in the account journal, dispatches *)
(* it and places one broker order.                                         *)
(*                                                                         *)
(* Every store call, broker call and local file is a step of its own, so   *)
(* requests of several instances interleave between any two of them, and   *)
(* a worker may be killed (gunicorn --timeout) or an instance replaced     *)
(* between any two of them.                                                *)
(***************************************************************************)
EXTENDS Naturals

CONSTANTS
  Requests,     \* execution requests, each served at most once
  Instances,    \* Cloud Run instances, one worker process each
  Host,         \* Host[r]: the instance that request r reaches
  Profiles,     \* strategy profiles
  ProfileOf,    \* ProfileOf[i]: the profile deployed on instance i
  Symbols,      \* traded symbols
  Universe,     \* Universe[p]: the symbols that profile p manages
  LastDay,      \* bound: signal dates are 1..LastDay
  MaxCrashes,   \* bound: number of kills
  CashOnly,     \* config.cash_only_execution
  GateEnabled,  \* is_account_new_risk_gate_enabled()
  None          \* no request, profile, key or attempt

Days     == 1..LastDay
Sides    == {"sell", "buy"}
Keys     == Profiles \X Days
Attempts == Requests \X Sides \X Symbols

ASSUME RequestsAssumption == None \notin Requests /\ None \notin Attempts
ASSUME ProfilesAssumption == None \notin Profiles
ASSUME TopologyAssumption == /\ Host \in [Requests -> Instances]
                             /\ ProfileOf \in [Instances -> Profiles]
                             /\ Universe \in [Profiles -> SUBSET Symbols]
ASSUME BoundsAssumption == LastDay \in Nat \ {0} /\ MaxCrashes \in Nat
ASSUME SwitchAssumption == CashOnly \in BOOLEAN /\ GateEnabled \in BOOLEAN

VARIABLES
  (* The processes and their disks.                                        *)
  pc,           \* pc[r]: where request r is
  runLock,      \* runLock[i]: holder of STRATEGY_RUN_LOCK, or None
  lockFiles,    \* <<instance, profile, day>> of the execution lock files
  (* The cycle's local variables.                                          *)
  dayOf,        \* dayOf[r]: the signal date the cycle computed
  session,      \* session[r]: an AccountSubmissionSession was built
  brake,        \* brake[r]: the portfolio it read triggers the hard brake
  plan,         \* plan[r]: the <<side, symbol>> intents still to be handled
  current,      \* the attempt being submitted, or None
  claimHeld,    \* execution_claim_acquired
  (* The durable stores.                                                   *)
  owner,        \* account owner marker: a profile, or None
  marker,       \* marker[k]: the request that created marker k, or None
  certainty,    \* account journal: certainty of each attempt
  breaker,      \* account journal: circuit breaker OPEN
  (* The environment.                                                      *)
  order,        \* order[a]: the broker order of attempt a
  day,          \* today's signal date
  crashes       \* number of kills so far

process == <<pc, runLock, lockFiles>>
local   == <<dayOf, session, brake, plan, current, claimHeld>>
store   == <<owner, marker, certainty, breaker>>
env     == <<order, day, crashes>>
vars    == <<process, local, store, env>>

ProfileFor(r) == ProfileOf[Host[r]]
KeyOf(r)      == <<ProfileFor(r), dayOf[r]>>
\* Mutant: the scope of the lock file names its parts in another order.
ShuffledLockFile(r) == <<ProfileFor(r), Host[r], dayOf[r]>>
LockFile(r)   == <<Host[r], ProfileFor(r), dayOf[r]>>
Managed(r)    == Universe[ProfileFor(r)]

Submitting == {"dispatch", "place", "report"}
Running    == {"connect", "dedup", "admit", "lock", "trade", "claim",
               "claim_marker", "reserve", "record", "finish", "fail"} \cup Submitting
Locations  == {"idle", "done", "killed"} \cup Running

TypeOK ==
  /\ pc \in [Requests -> Locations]
  /\ runLock \in [Instances -> Requests \cup {None}]
  /\ lockFiles \in SUBSET (Instances \X Profiles \X Days)
  /\ dayOf \in [Requests -> Days]
  /\ session \in [Requests -> BOOLEAN]
  /\ brake \in [Requests -> BOOLEAN]
  /\ plan \in [Requests -> SUBSET (Sides \X Symbols)]
  /\ current \in [Requests -> Attempts \cup {None}]
  /\ claimHeld \in [Requests -> BOOLEAN]
  /\ owner \in Profiles \cup {None}
  /\ marker \in [Keys -> Requests \cup {None}]
  /\ certainty \in [Attempts -> {"none", "unknown", "known_pending", "terminal"}]
  /\ breaker \in BOOLEAN
  /\ order \in [Attempts -> {"none", "live", "done"}]
  /\ day \in Days
  /\ crashes \in 0..MaxCrashes

Init ==
  /\ pc = [r \in Requests |-> "idle"]
  /\ runLock = [i \in Instances |-> None]
  /\ lockFiles = {}
  /\ dayOf = [r \in Requests |-> 1]
  /\ session = [r \in Requests |-> FALSE]
  /\ brake = [r \in Requests |-> FALSE]
  /\ plan = [r \in Requests |-> {}]
  /\ current = [r \in Requests |-> None]
  /\ claimHeld = [r \in Requests |-> FALSE]
  /\ owner = None
  /\ marker = [k \in Keys |-> None]
  /\ certainty = [a \in Attempts |-> "none"]
  /\ breaker = FALSE
  /\ order = [a \in Attempts |-> "none"]
  /\ day = 1
  /\ crashes = 0

At(r, here)          == pc[r] = here
Goto(r, there)       == pc' = [pc EXCEPT ![r] = there]
Step(r, here, there) == At(r, here) /\ Goto(r, there)

(***************************************************************************)
(* main._handle_request.                                                   *)
(***************************************************************************)

\* GET, disabled target, another cycle running, market closed, unsupported.
Skip(r) ==
  /\ Step(r, "idle", "done")
  /\ UNCHANGED <<runLock, lockFiles, local, store, env>>

\* Mutant: a cycle starts without the lock.
IgnoredRunLock(i) == TRUE

\* STRATEGY_RUN_LOCK.acquire(blocking=False).
RunLockFree(i) == runLock[i] = None

Begin(r) ==
  /\ RunLockFree(Host[r])
  /\ Step(r, "idle", "connect")
  /\ runLock' = [runLock EXCEPT ![Host[r]] = r]
  /\ UNCHANGED <<lockFiles, local, store, env>>

\* Mutant: the finally block does not release the lock.
KeptRunLock(r) == runLock

\* What STRATEGY_RUN_LOCK is once the finally block of request r has run.
Released(r) == [runLock EXCEPT ![Host[r]] = None]

\* The local variables of the requests in gone are no more; dayOf stays as the
\* history variable that names the key of a past request.
Forget(gone) ==
  /\ session' = [r \in Requests |-> session[r] /\ r \notin gone]
  /\ brake' = [r \in Requests |-> brake[r] /\ r \notin gone]
  /\ claimHeld' = [r \in Requests |-> claimHeld[r] /\ r \notin gone]
  /\ plan' = [r \in Requests |-> IF r \in gone THEN {} ELSE plan[r]]
  /\ current' = [r \in Requests |-> IF r \in gone THEN None ELSE current[r]]
  /\ UNCHANGED dayOf

\* Reporting, settlement notices and the finally block, after a result or an
\* exception: none of their errors outlives the request.
Finish(r) ==
  /\ pc[r] \in {"finish", "fail"}
  /\ Goto(r, "done")
  /\ runLock' = Released(r)
  /\ Forget({r})
  /\ UNCHANGED <<lockFiles, store, env>>

(***************************************************************************)
(* rebalance_service.run_strategy_core, up to execute_rebalance.           *)
(***************************************************************************)

\* connect_ib, get_portfolio_snapshot or compute_signals raises.
ObserveFails(r) ==
  /\ Step(r, "connect", "fail")
  /\ UNCHANGED <<runLock, lockFiles, local, store, env>>

\* The account observation, the signal of the day, the session and the first
\* evaluation of the persistent breaker: a hard brake is recorded through the
\* session, if there is one and if the write succeeds.
Observe(r) ==
  /\ \/ Step(r, "connect", "dedup")
     \/ Step(r, "connect", "finish")           \* no target: heartbeat only
  /\ dayOf' = [dayOf EXCEPT ![r] = day]
  /\ \E built, braked \in BOOLEAN :
       /\ session' = [session EXCEPT ![r] = built]
       /\ brake' = [brake EXCEPT ![r] = braked]
       /\ \/ breaker' = breaker
          \/ breaker' = TRUE /\ built /\ braked
  /\ UNCHANGED <<runLock, lockFiles, plan, current, claimHeld,
                 owner, marker, certainty, env>>

\* has_marker and has_prior_execution_report. A read error is swallowed and
\* counts as "not recorded".
Recorded(r) == marker[KeyOf(r)] # None

Dedup(r) ==
  /\ \/ Recorded(r) /\ Step(r, "dedup", "finish")
     \/ Step(r, "dedup", "admit")
  /\ UNCHANGED <<runLock, lockFiles, local, store, env>>

(***************************************************************************)
(* execution_service.execute_rebalance, before its first submission.       *)
(***************************************************************************)

\* The statements that raise before a plan exists.
AdmitFails(r) ==
  /\ Step(r, "admit", "fail")
  /\ UNCHANGED <<runLock, lockFiles, local, store, env>>

Live(symbols) == \E a \in Attempts : order[a] = "live" /\ a[3] \in symbols

Buys(intents) == {x \in intents : x[1] = "buy"}

\* What the account new-risk gate sees of request r: its own hard brake or the
\* journal's breaker; without a session the breaker cannot be read.
GateCloses(r) == GateEnabled /\ (brake[r] \/ breaker \/ ~session[r])

\* blocked, no_op, or an intent plan: open orders on managed symbols block,
\* an open order elsewhere, an unknown cash ledger or the gate drop the buys.
Admit(r) ==
  /\ \/ /\ Step(r, "admit", "finish")
        /\ UNCHANGED plan
     \/ /\ Step(r, "admit", "lock")
        /\ ~Live(Managed(r))
        /\ \E intents \in SUBSET (Sides \X Managed(r)) :
             /\ GateCloses(r) \/ Live(Symbols) => Buys(intents) = {}
             /\ plan' = [plan EXCEPT ![r] = intents]
  /\ \/ breaker' = breaker
     \/ breaker' = TRUE /\ GateEnabled /\ session[r] /\ brake[r]
  /\ UNCHANGED <<runLock, lockFiles, dayOf, session, brake, current, claimHeld,
                 owner, marker, certainty, env>>

\* Same-day fills, then the exclusive creation of the day's lock file.
TakeLock(r) ==
  /\ \/ /\ Step(r, "lock", "finish")           \* same-day fills, or locked
        /\ UNCHANGED lockFiles
     \/ /\ LockFile(r) \notin lockFiles
        /\ Step(r, "lock", "trade")
        /\ lockFiles' = lockFiles \cup {LockFile(r)}
  /\ UNCHANGED <<runLock, local, store, env>>

(***************************************************************************)
(* The sell loop, then the buy loop.                                       *)
(***************************************************************************)

\* The intents the loops may handle next: every sell comes before every buy.
NextIntents(r) ==
  IF plan[r] = Buys(plan[r]) THEN plan[r] ELSE plan[r] \ Buys(plan[r])

\* missing price, quantity, cash, notional, block reason: the loop continues.
SkipIntent(r) ==
  /\ At(r, "trade")
  /\ \E x \in NextIntents(r) : plan' = [plan EXCEPT ![r] = @ \ {x}]
  /\ UNCHANGED <<process, dayOf, session, brake, current, claimHeld, store, env>>

\* An order limit is exceeded or a refresh raises.
TradeFails(r) ==
  /\ Step(r, "trade", "fail")
  /\ UNCHANGED <<runLock, lockFiles, local, store, env>>

\* submit_claimed_order: the session checks.
Submit(r) ==
  /\ At(r, "trade")
  /\ \E x \in NextIntents(r) :
       /\ plan' = [plan EXCEPT ![r] = @ \ {x}]
       /\ current' = [current EXCEPT ![r] = <<r, x[1], x[2]>>]
       /\ IF session[r] THEN Goto(r, "claim") ELSE Goto(r, "fail")
  /\ UNCHANGED <<runLock, lockFiles, dayOf, session, brake, claimHeld, store, env>>

\* Both loops are over.
EndTrade(r) ==
  /\ plan[r] = {}
  /\ Step(r, "trade", "record")
  /\ UNCHANGED <<runLock, lockFiles, local, store, env>>

(***************************************************************************)
(* acquire_execution_claim: the owner fence, then the execution marker.    *)
(***************************************************************************)

\* Mutants: the owner and the marker are written over, not created.
AnyOwner(p)  == TRUE
AnyMarker(k) == TRUE

OwnerAllows(p) == owner \in {None, p}
MarkerFree(k)  == marker[k] = None

\* A later intent of the cycle finds the claim already acquired.
ClaimAgain(r) ==
  /\ claimHeld[r]
  /\ Step(r, "claim", "reserve")
  /\ UNCHANGED <<runLock, lockFiles, local, store, env>>

\* claim_account_owner: create-only, allowed for the owner. The store may fail
\* before or after its write took effect; both refuse the submission.
ClaimOwner(r) ==
  /\ ~claimHeld[r]
  /\ \/ /\ OwnerAllows(ProfileFor(r))
        /\ owner' = ProfileFor(r)
        /\ Step(r, "claim", "claim_marker") \/ Step(r, "claim", "fail")
     \/ /\ Step(r, "claim", "fail")            \* contested or unavailable
        /\ UNCHANGED owner
  /\ UNCHANGED <<runLock, lockFiles, local, marker, certainty, breaker, env>>

\* execution_state_store.claim_marker: create-only, with the same failures.
ClaimMarker(r) ==
  /\ \/ /\ MarkerFree(KeyOf(r))
        /\ marker' = [marker EXCEPT ![KeyOf(r)] = r]
        /\ \/ /\ Step(r, "claim_marker", "reserve")
              /\ claimHeld' = [claimHeld EXCEPT ![r] = TRUE]
           \/ /\ Step(r, "claim_marker", "fail")
              /\ UNCHANGED claimHeld
     \/ /\ Step(r, "claim_marker", "fail")     \* exists or unavailable
        /\ UNCHANGED <<marker, claimHeld>>
  /\ UNCHANGED <<runLock, lockFiles, dayOf, session, brake, plan, current,
                 owner, certainty, breaker, env>>

(***************************************************************************)
(* The account journal: reserve, dispatch, one broker order, its report.   *)
(***************************************************************************)

\* new_risk: with the gate every buy, and every buy of a cash-only account.
NewRisk(a) == a[2] = "buy" /\ (GateEnabled \/ CashOnly)

\* Mutants: an attempt bars the next ones only with a broker order, or never.
FencedByOrders == \E a \in Attempts : certainty[a] = "unknown" /\ order[a] # "none"
NeverFenced    == FALSE

\* reserve refuses every intent while one attempt is unresolved.
Fenced == \E a \in Attempts : certainty[a] = "unknown"

\* reserve and dispatch refuse new risk once the breaker is OPEN.
BreakerStops(a) == NewRisk(a) /\ breaker

\* The gate is evaluated again, the settlement budget prepared, the attempt
\* reserved. A failing write may have taken effect.
Reserve(r) ==
  /\ At(r, "reserve")
  /\ \/ /\ Goto(r, "fail")
        /\ UNCHANGED <<current, certainty>>
     \/ /\ CashOnly /\ current[r][2] = "buy"   \* rejected before reservation
        /\ Goto(r, "trade")
        /\ current' = [current EXCEPT ![r] = None]
        /\ UNCHANGED certainty
     \/ /\ ~Fenced
        /\ ~BreakerStops(current[r])
        /\ Goto(r, "dispatch") \/ Goto(r, "fail")
        /\ certainty' = [certainty EXCEPT ![current[r]] = "unknown"]
        /\ UNCHANGED current
  /\ UNCHANGED <<runLock, lockFiles, dayOf, session, brake, plan, claimHeld,
                 owner, marker, breaker, env>>

\* Mutant: dispatch trusts the check of the reservation.
DispatchTrusts(a) == FALSE

\* What dispatch checks again before it calls the venue.
DispatchRefuses(a) == BreakerStops(a)

Dispatch(r) ==
  /\ At(r, "dispatch")
  /\ \/ Goto(r, "fail")
     \/ ~DispatchRefuses(current[r]) /\ Goto(r, "place")
  /\ UNCHANGED <<runLock, lockFiles, local, store, env>>

\* The venue callback: it raises without an order (settled cash changed or
\* stale), rejects locally, or places the order - and may still raise after.
Place(r) ==
  /\ At(r, "place")
  /\ \/ Goto(r, "fail") /\ UNCHANGED order
     \/ GateEnabled /\ Goto(r, "report") /\ UNCHANGED order
     \/ /\ Goto(r, "report") \/ Goto(r, "fail")
        /\ order' = [order EXCEPT ![current[r]] = "live"]
  /\ UNCHANGED <<runLock, lockFiles, local, store, day, crashes>>

\* The journal settles the attempt by the report's facts, and the loop goes on;
\* facts that leave the outcome open keep it unknown and end the cycle.
Report(r) ==
  /\ At(r, "report")
  /\ \/ /\ order[current[r]] # "none"
        /\ Goto(r, "trade")
        /\ certainty' = [certainty EXCEPT ![current[r]] = "known_pending"]
        /\ current' = [current EXCEPT ![r] = None]
     \/ /\ order[current[r]] # "live"
        /\ Goto(r, "trade")
        /\ certainty' = [certainty EXCEPT ![current[r]] = "terminal"]
        /\ current' = [current EXCEPT ![r] = None]
     \/ /\ Goto(r, "record") \/ Goto(r, "fail")
        /\ UNCHANGED <<certainty, current>>
  /\ UNCHANGED <<runLock, lockFiles, dayOf, session, brake, plan, claimHeld,
                 owner, marker, breaker, env>>

\* Mutant: a cycle without a submission records the marker too.
EveryCycle(r) == TRUE

\* A cycle that submitted something records the execution marker, over its own
\* claim; a failing write is only reported.
Submitted(r) == \E a \in Attempts : a[1] = r /\ certainty[a] # "none"

Record(r) ==
  /\ Step(r, "record", "finish")
  /\ \/ UNCHANGED marker
     \/ Submitted(r) /\ marker' = [marker EXCEPT ![KeyOf(r)] = r]
  /\ UNCHANGED <<runLock, lockFiles, local, owner, certainty, breaker, env>>

(***************************************************************************)
(* The environment.                                                        *)
(***************************************************************************)

\* The worker is killed, or the whole instance and its disk are replaced.
Crash(i) ==
  /\ crashes < MaxCrashes
  /\ crashes' = crashes + 1
  /\ LET dead == {r \in Requests : Host[r] = i /\ pc[r] \in Running}
     IN  /\ pc' = [r \in Requests |-> IF r \in dead THEN "killed" ELSE pc[r]]
         /\ Forget(dead)
  /\ runLock' = [runLock EXCEPT ![i] = None]
  /\ \/ lockFiles' = lockFiles
     \/ lockFiles' = {f \in lockFiles : f[1] # i}
  /\ UNCHANGED <<store, order, day>>

\* The broker fills, cancels or rejects an order.
BrokerDone(a) ==
  /\ order[a] = "live"
  /\ order' = [order EXCEPT ![a] = "done"]
  /\ UNCHANGED <<process, local, store, day, crashes>>

DayTick ==
  /\ day < LastDay
  /\ day' = day + 1
  /\ UNCHANGED <<process, local, store, order, crashes>>

Work(r) ==
  \/ ObserveFails(r) \/ Observe(r) \/ Dedup(r) \/ AdmitFails(r) \/ Admit(r)
  \/ TakeLock(r) \/ SkipIntent(r) \/ TradeFails(r) \/ Submit(r) \/ EndTrade(r)
  \/ ClaimAgain(r) \/ ClaimOwner(r) \/ ClaimMarker(r)
  \/ Reserve(r) \/ Dispatch(r) \/ Place(r) \/ Report(r)
  \/ Record(r) \/ Finish(r)

Next ==
  \/ \E r \in Requests : Skip(r) \/ Begin(r) \/ Work(r)
  \/ \E i \in Instances : Crash(i)
  \/ \E a \in Attempts : BrokerDone(a)
  \/ DayTick

\* A running request takes its next step: every call of it returns or raises,
\* and gunicorn kills the worker that outlives --timeout.
Fairness == \A r \in Requests : WF_vars(Work(r))

Spec     == Init /\ [][Next]_vars
FairSpec == Spec /\ Fairness

(***************************************************************************)
(* Properties.                                                             *)
(***************************************************************************)

Placed(a) == order[a] # "none"

\* All the broker orders of one strategy profile and signal date come from one
\* request, whatever instances raced, reads failed, or processes died: the
\* promise of the execution marker (acquire_execution_claim).
OneSubmitterPerDay ==
  \A a, b \in Attempts :
    Placed(a) /\ Placed(b) /\ KeyOf(a[1]) = KeyOf(b[1]) => a[1] = b[1]

\* The moment an order may exist at the broker, the stores already hold what a
\* restarted process needs to know: the owner of the account, the marker that
\* closes the day, and the reserved attempt.
OrdersAreTraced ==
  \A a \in Attempts : Placed(a) =>
    /\ owner = ProfileFor(a[1])
    /\ marker[KeyOf(a[1])] = a[1]
    /\ certainty[a] # "none"

\* At most one request of the whole account is between its reservation and its
\* report: the journal serialises what the process-local lock cannot.
OneSubmission ==
  \A q, r \in Requests :
    pc[q] \in Submitting /\ pc[r] \in Submitting => q = r

\* No order is placed while the outcome of another attempt is unknown, even by
\* a later request of another day, instance or profile.
UnknownFence ==
  [][\A a \in Attempts : order[a] = "none" /\ order'[a] # "none" =>
       \A b \in Attempts : certainty[b] = "unknown" => b = a]_vars

\* A buy that adds risk and is past the last check of dispatch.
RiskInFlight == \E r \in Requests : pc[r] = "place" /\ NewRisk(current[r])

\* Once the breaker is OPEN no further buy gets past dispatch: only the one
\* already in the venue callback may still be placed.
BreakerWindow == [][breaker => (RiskInFlight' => RiskInFlight)]_vars

\* One process runs one cycle: STRATEGY_RUN_LOCK, held from Begin to the finally
\* block and gone with a killed worker, admits no second one.
OneCyclePerInstance ==
  \A q, r \in Requests :
    pc[q] \in Running /\ pc[r] \in Running /\ Host[q] = Host[r] => q = r

\* STRATEGY_RUN_LOCK is always given back: no path of a request keeps it.
RunLockReturns == \A r \in Requests : (\E i \in Instances : runLock[i] = r) ~>
                                      (\A i \in Instances : runLock[i] # r)

(***************************************************************************)
(* The inductive invariant behind the safety properties.                   *)
(***************************************************************************)

Claimed(r) == marker[KeyOf(r)] = r

\* A running request holds the lock of its process.
LockInv == \A r \in Requests : pc[r] \in Running => runLock[Host[r]] = r

\* A marker names its own key, and only the owner's keys are marked.
KeyInv ==
  \A k \in Keys : marker[k] # None => /\ k = KeyOf(marker[k])
                                      /\ owner = k[1]

\* A request holds its marker from the claim on, and not before.
ClaimInv ==
  \A r \in Requests :
    /\ pc[r] \in {"idle", "connect", "dedup", "admit", "lock"} => ~Claimed(r)
    /\ pc[r] = "claim_marker" => owner = ProfileFor(r)
    /\ claimHeld[r] => Claimed(r)
    /\ pc[r] \in {"reserve"} \cup Submitting => Claimed(r)

\* Intents to come have no attempt yet; the current one has none before its
\* reservation, and an unresolved one without an order before its placement.
IntentOf(a) == <<a[2], a[3]>>

Handling == {"claim", "claim_marker", "reserve"}

CurrentInv ==
  \A r \in Requests : pc[r] \in Handling \cup Submitting =>
    /\ current[r] \in Attempts
    /\ current[r][1] = r
    /\ IntentOf(current[r]) \notin plan[r]
    /\ pc[r] \in Handling => certainty[current[r]] = "none"
    /\ pc[r] \in Submitting => certainty[current[r]] = "unknown"
    /\ pc[r] \in {"dispatch", "place"} => order[current[r]] = "none"

PlanInv ==
  \A a \in Attempts : IntentOf(a) \in plan[a[1]] => certainty[a] = "none"

\* Orders have attempts, attempts have markers, one attempt at most is open.
JournalInv ==
  /\ \A a \in Attempts : order[a] # "none" => certainty[a] # "none"
  /\ \A a \in Attempts : certainty[a] # "none" => Claimed(a[1])
  /\ \A a, b \in Attempts :
       certainty[a] = "unknown" /\ certainty[b] = "unknown" => a = b

IInv == LockInv /\ KeyInv /\ ClaimInv /\ CurrentInv /\ PlanInv /\ JournalInv

\* The stores seen through a refinement mapping: open attempts are the unknown
\* ones, settled ones those with a known outcome, placed ones those with an
\* order, live or done.
AttemptsThat(are) == {a \in Attempts : certainty[a] \in are}
PlacedAttempts    == {a \in Attempts : Placed(a)}

Authority == INSTANCE SubmissionAuthority WITH
  holder  <- owner,
  grantee <- marker,
  open    <- AttemptsThat({"unknown"}),
  settled <- AttemptsThat({"known_pending", "terminal"}),
  placed  <- PlacedAttempts

\* Every behaviour of the cycles, with their races, failed calls and kills, is
\* one of the submission authority.
AuthoritySpec == Authority!Spec
=============================================================================
