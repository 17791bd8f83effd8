------------------------------ MODULE MCPrograms ----------------------------
(***************************************************************************)
(* The programs around the trading cycle, one at a time, for TLC.  The     *)
(* state of the one that runs is v1, v2, ..., in the order in which its    *)
(* module declares its variables; what is left of them is None.            *)
(***************************************************************************)
EXTENDS ScheduledPrograms

\* The calls of a pass: two stocks and the haven h, under- or overweight.
Stocks == {"a", "b"}
Calls ==
  {i \in [held: {[a |-> 0, b |-> 2, h |-> 2], [a |-> 2, b |-> 0, h |-> 0], [a |-> 0, b |-> 1, h |-> 0]},
          price: {[a |-> 2, b |-> 3, h |-> 2], [a |-> 2, b |-> 0, h |-> 3]},
          weight: {[a |-> 50, b |-> 30, h |-> 20], [a |-> 0, b |-> 90, h |-> 10]},
          managed: {Stocks \cup {"h"}, {"a", "h"}},
          equity: {16}, approved: {12, 16}, reserve: {2, 20}, threshold: {1}, minimum: {2},
          cashOnly: BOOLEAN, dry: BOOLEAN, warned: BOOLEAN, gate: {"open", "closed", "unavailable"}] :
     /\ (i.warned \/ i.approved = 12 \/ i.reserve = 20 \/ i.dry) => i.gate = "open"
     /\ (i.gate # "open" \/ i.reserve = 20 \/ "b" \notin i.managed) => i.cashOnly
     /\ i.approved = 12 => i.reserve = 2
     /\ i.dry => ~i.warned /\ "b" \in i.managed}

\* What a report may say of an account, and the configurations.
Line(id, cur, amt, code) == [id |-> id, cur |-> cur, amt |-> amt, code |-> code]
Trade(id, qty, corrects) == [id |-> id, qty |-> qty, level |-> "EXECUTION", corrects |-> corrects]
Plain ==
  [plain |-> TRUE, stray |-> FALSE, period |-> "asked", base |-> "USD",
   nav |-> [rows |-> 1, twr |-> TRUE, fits |-> TRUE],
   hasFunds |-> TRUE, funds |-> <<Line("x", "USD", 5, "DEP"), Line("x", "USD", 5, "DEP")>>,
   hasTrades |-> TRUE, trades |-> <<Trade("e", 1, FALSE), Trade("e", 1, FALSE)>>]
Said ==
  {Plain, [Plain EXCEPT !.stray = TRUE], [Plain EXCEPT !.nav.fits = FALSE, !.trades = <<>>]} \cup
  {[s EXCEPT !.plain = FALSE] : s \in
     {[Plain EXCEPT !.period = "other", !.funds = <<Line("x", "USD", 5, "DEP"), Line("y", "EUR", 5, "DEP")>>],
      [Plain EXCEPT !.period = "bad"], [Plain EXCEPT !.nav.rows = 2, !.hasTrades = FALSE],
      [Plain EXCEPT !.trades = <<Trade("e", 1, FALSE), Trade("f", 1, TRUE)>>, !.funds = <<Line("x", "USD", 5, "DEP"), Line("x", "USD", 4, "DEP")>>],
      [Plain EXCEPT !.trades = <<Trade("e", 1, FALSE), Trade("e", 2, FALSE)>>, !.funds = <<Line("x", "USD", 5, "DEP"), Line("x", "USD", 5, "dep")>>],
      [Plain EXCEPT !.base = "", !.funds = <<>>],
      [Plain EXCEPT !.hasFunds = FALSE, !.funds = <<>>],
      [Plain EXCEPT !.funds = <<Line("x", "USD", 5, "DEP"), Line("y", "USD", -2, "WITH"), Line("x", "USD", 5, "DEP")>>]}}
Keys == [a |-> "k1", b |-> "k2", c |-> "k3"]
Setups ==
  {[slots |-> slots, keys |-> Keys, shape |-> TRUE] : slots \in {<<>>, <<"b", "c">>, <<"c">>}} \cup
  {[slots |-> <<"b", "c">>, keys |-> [Keys EXCEPT !.b = "k1"], shape |-> TRUE],
   [slots |-> <<>>, keys |-> Keys, shape |-> FALSE]}

\* What an account read and a strategy may say together, and the runtimes.
Silent ==
  [eq |-> -9, peak |-> -9, dd |-> -9, at |-> -9, pend |-> -9, brk |-> -9, obs |-> -9, drift |-> -9,
   vol |-> -9, loss |-> -9, max |-> -9]
Read(eq, peak) == [Silent EXCEPT !.eq = eq, !.peak = peak]
Told(nat, meta, proj) == [nat |-> nat, meta |-> meta, proj |-> proj]
Old(dd, age) == [Silent EXCEPT !.dd = dd, !.at = age]
Situations ==
  {Told(Read(3, 3), Silent, Silent), Told(Read(1, 3), Old(0, 0), Read(3, 3)), Told(Read(2, 3), Silent, Silent),
   Told(Read(3, -9), Silent, Old(0, 1)), Told(Read(3, -9), Old(0, 2), Silent), Told(Read(3, -9), Old(0, -1), Silent),
   Told([Read(3, -9) EXCEPT !.dd = 0], Old(2, 0), Silent), Told([Read(3, -9) EXCEPT !.dd = -8], Silent, Old(0, 0)),
   Told([Read(3, 3) EXCEPT !.pend = 1], [Silent EXCEPT !.pend = 0], [Silent EXCEPT !.pend = 0]),
   Told(Read(3, 3), [Silent EXCEPT !.pend = 0], [Silent EXCEPT !.pend = 1]),
   Told([Read(3, 3) EXCEPT !.loss = 1], Silent, [Silent EXCEPT !.max = 2]),
   Told(Read(3, 3), Silent, [Silent EXCEPT !.max = -8]), Told(Read(-8, 3), Silent, Read(3, 3)),
   Told([Read(2, 3) EXCEPT !.vol = 1], Silent, Silent), Told(Read(3, -8), Silent, Silent),
   Told(Read(3, -9), Read(-9, 3), Silent), Told([Read(3, 3) EXCEPT !.loss = 0], Silent, Silent)}
Runtimes ==
  {[stop |-> FALSE, session |-> TRUE, max |-> -9], [stop |-> TRUE, session |-> TRUE, max |-> 1],
   [stop |-> FALSE, session |-> FALSE, max |-> -9]}

\* What a configuration may say of the account group, and the deployments.
Group ==
  [group |-> TRUE, backend |-> "none", project |-> FALSE, zone |-> TRUE, mode |-> "live", port |-> "none",
   client |-> 1, ids |-> {"a"}]
Groups ==
  {Group, [Group EXCEPT !.group = FALSE], [Group EXCEPT !.project = TRUE], [Group EXCEPT !.ids = {}, !.client = 0],
   [Group EXCEPT !.mode = "paper", !.ids = {}], [Group EXCEPT !.mode = "paper", !.port = "live", !.zone = FALSE],
   [Group EXCEPT !.backend = "quantconnect", !.client = -1], [Group EXCEPT !.mode = "none"],
   [Group EXCEPT !.project = TRUE, !.zone = FALSE, !.ids = {"a", "b"}]}
Revised(named, dry) ==
  [named |-> named, raw |-> Group, backend |-> "none", port |-> "none", zone |-> FALSE, dry |-> dry]
Deployments ==
  {Revised(TRUE, FALSE), Revised(TRUE, TRUE), Revised(FALSE, FALSE),
   [Revised(TRUE, FALSE) EXCEPT !.backend = "quantconnect", !.port = "paper", !.zone = TRUE]}

W == INSTANCE WarmRecovery WITH
  svc <- v1, health <- v2, foreign <- v3, flight <- v4, pc <- v5, op <- v6,
  status <- v7, expected <- v8, current <- v9, pending <- v10, activated <- v11,
  count <- v12, expired <- v13, sent <- v14
C == INSTANCE CandidateRelease WITH
  svc <- v1, up <- v2, pc <- v3, expected <- v4, tagged <- v5, serving <- v6,
  removed <- v7, count <- v8, status <- v9, issued <- v10, seen <- v11
J == INSTANCE PilotJob WITH
  Dispatches <- Times, jobs <- v1, run <- v2, doomed <- v3, production <- v4, n <- v5,
  pc <- v6, phase <- v7, before <- v8, out <- v9
S == INSTANCE RebalancePass WITH
  Symbols <- Stocks \cup {"h"}, Haven <- "h", Inputs <- Calls, Cash <- {3, 9},
  Premium <- 1, call <- v1, pc <- v2, target <- v3, sweep <- v4, blind <- v5,
  budget <- v6, funds <- v7, left <- v8, stuck <- v9, sold <- v10, bought <- v11,
  spent <- v12, lock <- v13
A == INSTANCE PaperCommands WITH
  Changes <- 1, held <- v1, price <- v2, mark <- v3, changes <- v4, commands <- v5,
  state <- v6, mode <- v7, pc <- v8, at <- v9, snap <- v10, quotes <- v11,
  findings <- v12, proposals <- v13, orders <- v14
E == INSTANCE StrategyEvaluation WITH
  Days <- Times + 1, Changes <- Times, profile <- v1, policy <- v2, today <- v3,
  changes <- v4, evidence <- v5, startup <- v6, pc <- v7, signal <- v8, portfolio <- v9,
  last <- v10, limits <- v11, status <- v12, regime <- v13, result <- v14
U == INSTANCE FlexPublish WITH
  Settings <- Setups, Statements <- Said, pc <- v1, mode <- v2, dated <- v3, conf <- v4,
  rep <- v5, asked <- v6, reads <- v7, slot <- v8, posts <- v9, again <- v10,
  told <- v11, holds <- v12, exit <- v13
V == INSTANCE NewRiskGate WITH
  Facts <- Situations, Settings <- Runtimes, MaxAge <- 1, Clock <- Times + 2, pc <- v1,
  now <- v2, nat <- v3, sig <- v4, conf <- v5, want <- v6, open <- v7, blocked <- v8,
  snap <- v9, target <- v10, held <- v11, evid <- v12, sent <- v13, paged <- v14
X == INSTANCE GatewaySession WITH
  Files <- Groups, Deployed <- Deployments, Attempts <- Times, Changes <- Times,
  env <- v1, secret <- v2, net <- v3, was <- v4, conf <- v5, host <- v6, pc <- v7,
  req <- v8, sess <- v9, changes <- v10

None == "none"

\* The variables after the first so many are not used.
Free13 == v14 = None
Free11 == v12 = None /\ v13 = None /\ Free13
Free10 == v11 = None /\ Free11
Free9 == v10 = None /\ Free10
Free8 == v9 = None /\ Free9
Free7 == v8 = None /\ Free8
Free6 == v7 = None /\ Free7
Free5 == v6 = None /\ Free6

Init ==
  \/ part = "warm" /\ W!Init
  \/ part = "candidate" /\ C!Init /\ Free11
  \/ part = "route" /\ T!Init /\ Free11
  \/ part = "job" /\ J!Init /\ Free9
  \/ part = "revision" /\ R!Init /\ Free7
  \/ part = "pinned" /\ P!Init /\ Free8
  \/ part = "digest" /\ D!Init /\ Free5
  \/ part = "incident" /\ I!Init /\ Free10
  \/ part = "worker" /\ Q!Init /\ Free7
  \/ part = "pass" /\ S!Init /\ Free13
  \/ part = "heartbeat" /\ H!Init /\ Free7
  \/ part = "guard" /\ G!Init /\ Free6
  \/ part = "facts" /\ F!Init /\ Free13
  \/ part = "paper" /\ A!Init
  \/ part = "strategy" /\ E!Init
  \/ part = "cash" /\ B!Init /\ Free13
  \/ part = "probe" /\ L!Init
  \/ part = "baseline" /\ K!Init /\ Free10
  \/ part = "report" /\ Y!Init /\ Free8
  \/ part = "switch" /\ O!Init
  \/ part = "flex" /\ U!Init /\ Free13
  \/ part = "risk" /\ V!Init
  \/ part = "gateway" /\ X!Init /\ Free10

Keep14 == UNCHANGED part
Keep13 == UNCHANGED <<v14>> /\ Keep14
Keep11 == UNCHANGED <<v12, v13>> /\ Keep13
Keep10 == UNCHANGED <<v11>> /\ Keep11
Keep9 == UNCHANGED <<v10>> /\ Keep10
Keep8 == UNCHANGED <<v9>> /\ Keep9
Keep7 == UNCHANGED <<v8>> /\ Keep8
Keep6 == UNCHANGED <<v7>> /\ Keep7
Keep5 == UNCHANGED <<v6>> /\ Keep6

Next ==
  \/ part = "warm" /\ W!Next /\ Keep14
  \/ part = "candidate" /\ C!Next /\ Keep11
  \/ part = "route" /\ T!Next /\ Keep11
  \/ part = "job" /\ J!Next /\ Keep9
  \/ part = "revision" /\ R!Next /\ Keep7
  \/ part = "pinned" /\ P!Next /\ Keep8
  \/ part = "digest" /\ D!Next /\ Keep5
  \/ part = "incident" /\ I!Next /\ Keep10
  \/ part = "worker" /\ Q!Next /\ Keep7
  \/ part = "pass" /\ S!Next /\ Keep13
  \/ part = "heartbeat" /\ H!Next /\ Keep7
  \/ part = "guard" /\ G!Next /\ Keep6
  \/ part = "facts" /\ F!Next /\ Keep13
  \/ part = "paper" /\ A!Next /\ Keep14
  \/ part = "strategy" /\ E!Next /\ Keep14
  \/ part = "cash" /\ B!Next /\ Keep13
  \/ part = "probe" /\ L!Next /\ Keep14
  \/ part = "baseline" /\ K!Next /\ Keep10
  \/ part = "report" /\ Y!Next /\ Keep8
  \/ part = "switch" /\ O!Next /\ Keep14
  \/ part = "flex" /\ U!Next /\ Keep13
  \/ part = "risk" /\ V!Next /\ Keep14
  \/ part = "gateway" /\ X!Next /\ Keep10

\* What the program does next by itself.
Going ==
  \/ part = "warm" /\ W!Going /\ Keep14
  \/ part = "candidate" /\ C!Going /\ Keep11
  \/ part = "job" /\ J!Going /\ Keep9
  \/ part = "revision" /\ R!Going /\ Keep7
  \/ part = "pinned" /\ P!Going /\ Keep8
  \/ part = "worker" /\ Q!Going /\ Keep7

\* What ends its waits.
GiveUp ==
  \/ part = "warm" /\ W!GiveUp /\ Keep14
  \/ part = "candidate" /\ C!GiveUp /\ Keep11
  \/ part = "worker" /\ Q!Terminate /\ Keep7

Spec == Init /\ [][Next]_vars /\ WF_vars(Going) /\ WF_vars(GiveUp)

(***************************************************************************)
(* Properties: those of the programs, whichever runs.                      *)
(***************************************************************************)

\* Types of every program's state.
TypeOK ==
  /\ part = "warm" => W!TypeOK
  /\ part = "candidate" => C!TypeOK
  /\ part = "route" => T!TypeOK
  /\ part = "job" => J!TypeOK
  /\ part = "revision" => R!TypeOK
  /\ part = "pinned" => P!TypeOK
  /\ part = "digest" => D!TypeOK
  /\ part = "incident" => I!TypeOK
  /\ part = "worker" => Q!TypeOK
  /\ part = "pass" => S!TypeOK
  /\ part = "heartbeat" => H!TypeOK
  /\ part = "guard" => G!TypeOK
  /\ part = "facts" => F!TypeOK
  /\ part = "paper" => A!TypeOK
  /\ part = "strategy" => E!TypeOK
  /\ part = "cash" => B!TypeOK
  /\ part = "probe" => L!TypeOK
  /\ part = "baseline" => K!TypeOK
  /\ part = "report" => Y!TypeOK
  /\ part = "switch" => O!TypeOK
  /\ part = "flex" => U!TypeOK
  /\ part = "risk" => V!TypeOK
  /\ part = "gateway" => X!TypeOK

\* What a program's receipt or attempt file says is so: of the traffic
\* (cloud_run_warm_recovery.py, record), of what is left and costs
\* (cloud_run_candidate_warmup.py, restore), of a task that succeeded and of
\* jobs and revisions that are gone (run_pilot_job_tcp.py,
\* run_pilot_cloud_tcp.py, their finally clauses), of the configuration
\* approved and of every write (deploy_*.py, release), the green job of what
\* the newest reports are (execution_report_heartbeat.py, main), the published
\* observation of what the receiver holds (publish_account_facts_*.py), the
\* status of a capability (_last_capability_status) a command that is filled
\* (_reconcile), a cash reading of now (observe_maintenance_cash_job.py) a
\* success of the job that was run (terminal_readback), a runtime switch or
\* drift of the service (env_sync_drift_check.py), an execution receipt and a
\* digest row of what the broker has (attach_cycle_execution_receipt,
\* project_digest_candidates), a net flow of every transaction once
\* (diagnose_flex_ledger_source).
ReceiptsTrue ==
  /\ part = "switch" => O!ResultTrue
  /\ part = "flex" => U!SuccessIsHeld
  /\ part = "flex" => U!ReadingIsAsked
  /\ part = "flex" => U!CountedOnce
  /\ part = "switch" => O!NoDriftIsTrue
  /\ part = "report" => Y!ZeroIsZero
  /\ part = "report" => Y!RefusedIsTrue
  /\ part = "report" => Y!ReceiptTrue
  /\ part = "paper" => A!FilledReconciled
  /\ part = "cash" => B!CleanIsGone
  /\ part = "cash" => B!ObservedNow
  /\ part = "cash" => B!SuccessLeavesNothing
  /\ part = "probe" => L!SuccessIsOurs
  /\ part = "strategy" => E!StatusIsTrue
  /\ part = "warm" => W!OutcomeIsTrue
  /\ part = "candidate" => C!NothingLeftUntold
  /\ part = "job" => J!SuccessRan
  /\ part = "job" => J!DeletedIsGone
  /\ part = "job" => J!NothingHidden
  /\ part = "revision" => R!NothingHidden
  /\ part = "pinned" => P!PassIsBaseline
  /\ part = "pinned" => P!ReceiptTells
  /\ part = "heartbeat" => H!GreenIsHealthy
  /\ part = "facts" => F!PublishedIsStored

\* Nothing is done twice, after a kill neither: a write ("never replay", the
\* state files, the list of jobs), an urgent message (immediate_incident), an
\* order-capable session (_claim_permission_probe), a job run by hand, nor
\* beside another (invoke_once).
NothingReplayed ==
  /\ part = "flex" => U!OneReport
  /\ part = "probe" => L!RunOnce
  /\ part = "probe" => L!NeverBeside
  /\ part = "warm" => W!WriteOnce
  /\ part = "candidate" => C!NothingReplayed
  /\ part = "job" => J!OneProbe
  /\ part = "incident" => I!SentOnce
  /\ part = "worker" => Q!ProbedOnce

\* Only what was proven gets traffic: seen up twice in a row (candidate),
\* verified for its mode and in the order of the plan
\* (reconcile_cloud_runtime.py, ensure_latest_traffic), never a pinned
\* release; only what was reviewed is archived, and what serves is published
\* (publish_account_facts_*.py), only what was reviewed is run (preflight); a
\* baseline is made active again when what was confirmed is the state of the
\* account (verify_reconciliation_recovery, validate_initial_state_baseline);
\* an allocation is executed when approved under limits and evidence that hold
\* (map_strategy_decision), a buy is looked at while its measurement is fresh
\* and never after a breach (evaluate_persistent_account_new_risk_admission),
\* and a live session is one of the configured accounts
\* (validate_configured_accounts).
RoutedAsProven ==
  /\ part = "gateway" => X!LiveIsOurs
  /\ part = "gateway" => X!PaperIsPaper
  /\ part = "gateway" => X!FoundInProject
  /\ part = "risk" => V!BuyIsMeasured
  /\ part = "risk" => V!NeverAfterBreach
  /\ part = "flex" => U!PostedIsVerified
  /\ part = "flex" => U!StopsWhenShared
  /\ part = "baseline" => K!ActiveWasHeld
  /\ part = "baseline" => K!VerifiedWasHeld
  /\ part = "probe" => L!AsReviewed
  /\ part = "strategy" => E!ActionableIsProven
  /\ part = "strategy" => E!UnderEvidence
  /\ part = "candidate" => C!ServesWhenProven
  /\ part = "route" => T!RoutedAsVerified
  /\ part = "route" => T!InPlanOrder
  /\ part = "pinned" => P!NeverServes
  /\ part = "facts" => F!OnlyReviewed
  /\ part = "facts" => F!OfTheServing

\* No program undoes what somebody else changed meanwhile, nor deletes what is
\* in use (put, _adopt_initial_candidate, archive_recovery_state_ledger, the
\* rollbacks), nor what was seen later (publish, OrderedMarkerStore), nor
\* forgets what was told and is still in the window
\* (runtime_guard_alert_dedupe.py); a switch touches the switch only, and
\* stops, resumes and forces nothing that was not checked
\* (ensure_latest_traffic, build_sync_plan); an address that was found is kept
\* (refresh_ib_host).
OthersStand ==
  [][/\ part = "gateway" => X!AddressKept
     /\ part = "switch" => O!SwitchedAlone
     /\ part = "switch" => O!ResumedWhenServing
     /\ part = "switch" => O!NeverForcedLive
     /\ part = "baseline" => K!LedgerStands
     /\ part = "baseline" => K!NothingUndone
     /\ part = "warm" => W!ForeignStands
     /\ part = "route" => T!AdoptionYields
     /\ part = "revision" => R!TheirsStands
     /\ part = "revision" => R!InUseStands
     /\ part = "pinned" => P!OthersStand
     /\ part = "digest" => D!NeverBack
     /\ part = "incident" => I!LateClosesNothing
     /\ part = "guard" => G!ToldAgainWhenDue]_vars

\* Nobody fails in silence: what is urgent is sent, marked or a duplicate of
\* what stands (publish_cycle), the digest shows what it was given
\* (persist_candidate), a request tries to keep its report, and tells what is
\* not kept (_handle_request), a failed run makes its row alert
\* (project_digest_candidates), a service that is due is checked
\* (execution_report_heartbeat.py), a repetition was told
\* (runtime_guard_alert_dedupe.py), no report is overshadowed by an older one
\* (publish_account_facts_from_report.py), a blocked buy is told
\* (maybe_publish_attention_for_admission).
NothingSilent ==
  /\ part = "risk" => V!BlockedIsTold
  /\ part = "report" => Y!RunTold
  /\ part = "report" => Y!AlertShown
  /\ part = "digest" => D!StoredIsShown
  /\ part = "incident" => I!NoSilence
  /\ part = "worker" => Q!AllReported
  /\ part = "heartbeat" => H!DueIsChecked
  /\ part = "guard" => G!QuietWasTold
  /\ part = "facts" => F!NothingOvershadowed

\* What an interrupted request leaves is replaced with its worker, and its
\* alarm interrupts nothing else (enforce_runtime_deadline); a pass that may
\* not trade leaves the day open, one that trades is not stopped by its own
\* approval (execute_rebalance); a refused session is closed (connect_ib).
NothingLeftOver ==
  /\ part = "gateway" => X!RefusedIsClosed
  /\ part = "worker" => Q!AlarmIsItsOwn
  /\ part = "worker" => Q!LeftIsReplaced
  /\ part = "pass" => S!DayKeptOpen
  /\ part = "pass" => S!NeverStoppedHalfway

\* What a pass orders stays within its budget, its targets and what was
\* approved, and is not bought blindly (execute_rebalance); a paper command
\* only reduces when it has to (evaluate_ibkr_paper_execution_admission), a
\* liquidation ends at zero (build_liquidation_intents), and a signal sees no
\* later bar (_build_value_target_market_inputs); the loss limit is the
\* smaller one and no position is sold to hold it
\* (evaluate_cycle_new_risk_admission, scale_targets_for_admission); a reading
\* has no session that takes orders (connect_ib).
LimitsHold ==
  /\ part = "gateway" => X!ReadingOnly
  /\ part = "risk" => V!LossWithinLimit
  /\ part = "risk" => V!NoForcedExit
  /\ part = "paper" => A!NothingGrows
  /\ part = "paper" => A!LiquidatesToZero
  /\ part = "strategy" => E!NoLookAhead
  /\ part = "pass" => S!WithinBudget
  /\ part = "pass" => S!NoOvershoot
  /\ part = "pass" => S!NoBlindBuy

\* What is under way, and how it ends.
Underway ==
  \/ part = "warm" /\ v5 = "check"
  \/ part = "candidate" /\ v3 = "begin"
  \/ part = "job" /\ v6 = "prepare"
  \/ part = "revision" /\ v4 = "prepare"
  \/ part = "pinned" /\ v5 = "read"
  \/ part = "worker" /\ v2.lock /\ v2.recycle # "no"

Ended ==
  \/ part = "warm" /\ v5 \in {"idle", "over"}
  \/ part = "candidate" /\ v3 \in {"idle", "over"}
  \/ part = "job" /\ v6 \in {"idle", "over"}
  \/ part = "revision" /\ v4 \in {"killed", "over"}
  \/ part = "pinned" /\ v5 = "over"
  \/ part = "worker" /\ ~v2.lock

\* An attempt of a program ends, with its cleanup; a lock left behind ends
\* with its worker.
ProgramsEnd == Underway ~> Ended
=============================================================================
