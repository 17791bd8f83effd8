# Verification of the InteractiveBrokersPlatform trading runtime

TLA+ models of the repository: the cycle that turns a scheduled request into
broker orders, the durable stores that keep several processes from trading one
account twice, the settlement observations that follow the orders, and the
programs around them that deploy, watch, report, publish and recover. TLC checks the models on small instances,
TLAPS proves the main results for every value of the constants. Paths below are
relative to the repository.

## 1. Inventory

The service is a Flask application (`main.py`) on Cloud Run, deployed with
`max-instances=1`, `concurrency=1` and one gunicorn worker with one thread
(`Dockerfile`, `.github/workflows/sync-cloud-run-env-protected.yml:956-957`).
Concurrency comes from outside that picture: the old and the new revision while
one replaces the other, several services (strategies) on one physical account,
retries of the scheduler, and the settlement route. `quant_platform_kit` (QPK)
is a pinned dependency outside the repository; its stores and its account
session are modelled from the calls and the tests in this repository.

| Component | State it keeps | Operations | What makes it hard | What makes it correct |
| --- | --- | --- | --- | --- |
| Request handler, `main.py:1608` | `STRATEGY_RUN_LOCK`, the report | take the lock, run the cycle, publish, release | killed by `gunicorn --timeout`; the lock is local to a process | one cycle per process; the lock always comes back |
| Cycle, `application/rebalance_service.py` | signal date, session, claim flag | connect, observe, deduplicate, claim owner and marker, record | reads that fail silently; check long before use | one submitter per profile and signal date |
| Execution, `application/execution_service.py` | intents, lock file, execution summary | pending-order check, lock file, sells then buys, submit | orders and risk change under it; ambiguous outcomes | no order beside an unknown one |
| Account session and journal (QPK) | owner, markers, attempts, breaker | claim, reserve, dispatch | writes that fail after they took effect | orders are always traced by the stores |
| Order settlement, `application/order_settlement.py`, `settlement_reporting.py`, `settlement_route.py` | create-only records, numbered observations, notice markers | track, settle, publish | two observers, lost answers, crash after send | a ledger that only gets better; told once, and the truth |
| Settled-cash buys, `execution_service.py:255` | remaining budget of the cycle | prepare, place, account events | callbacks between preparation and placement | budget never exceeded and shared |
| Candidates, `notifications/unified_adapter.py` | events and revision per day | merge, compare-and-set, publish | lost updates, two-step publication | a newer revision is never overwritten |
| Flex collector and watch, `application/flex_daily/` | lease, coverage, reminder claim | collect windows, retry, remind | lease expiry, partial runs, reports that are revised | one writer; no gap reported as complete; intervals that join |
| One worker, `main.py`, `http_routes.py`, `runtime_deadline.py`, `monitor_dispatcher.py` | run lock, alarm, session, probe claim, replacement | run, dry run, probe, reconcile, permission, dispatch of due monitors | a signal at any instruction; a service that calls itself; repeated requests | what an interrupted request leaves goes with its worker; one order-capable probe per job; every request reports |
| Gateway session, `runtime_config_support.py`, `main.py:175`, `runtime_broker_adapters.py` | settings of the instance, cached address | load, resolve, refresh, connect, validate | addresses, logins and configurations that change under an instance | a live session is one of the configured accounts; a reading takes no orders |
| One pass, `execution_service.py` | targets, budget, day's lock | sell, refresh, sweep, buy | readings that differ between plan and order | budget, targets and approved limits hold |
| New-risk gate, `account_new_risk_gate_support.py` | breaker, snapshot of the cycle | measure, restore, record, cut, look again | old facts, strategies with better news, a journal that fails | no buy without a fresh measurement or after a breach; no forced exit |
| Strategy, `strategy_runtime.py`, `decision_mapper.py` | evidence, limits, capability status of the process | evaluate, map | evidence that is revoked, a partial bar | executed only when approved; no look-ahead |
| Paper commands, `paper_execution_*.py`, `paper_liquidation_service.py` | command store (QPK) | claim, reconcile, admit, liquidate | prices that move between two readings | nothing grows that must shrink; filled means reconciled |
| Notices and digest, `notifications/unified_adapter.py`, `project_digest_candidates.py` | document and object per day, incidents, markers | merge, publish, reserve, send, recover | late observers, two-step writes | nothing urgent is lost or told twice; a digest shows what it has |
| Cycle reports, `execution_receipt_adapter.py`, `reconciliation_service.py` | report, receipt, record | build, attach, store, tell | failures after the broker has something | "nothing" is only said when it is so |
| Reconciliation, `broker_reconciliation*.py`, `scripts/*reconciliation*` | baseline, ledger, deployment | read, publish, confirm, verify, archive, sync, adopt | the account trades meanwhile | an active baseline is the account's |
| Account facts, `publish_account_facts_*.py` | reports of the bucket, receiver | select, confirm, publish, review, append | newer reports, takeovers, lost answers | what serves and what was reviewed is published |
| Flex publication, `publish_ibkr_flex_period_return.py`, `ibkr_flex_*.py` | report, receiver | generate, read, project, post | a report not ready, lost or foreign answers | nothing posted twice or unverified; what is told as held is held |
| Deployment, `reconcile_cloud_runtime.py`, `cloud_run_*.py`, `deploy_*.py`, `run_pilot_*.py` | service template, traffic, tags, jobs | stage, verify, shift, roll back, delete | lost answers, kills, other writers | only what was proven gets traffic; nothing of others is undone |
| Runtime switch, `build_cloud_run_env_sync_plan.py`, `env_sync_drift_check.py` | template, target, schedulers | sync, switch, resume, drift | templates staged and routed by different runs | live targets are never forced; jobs resume when their target serves |
| Readings in the cloud, `observe_maintenance_cash*.py`, `invoke_additional1_*.py` | temporary jobs, attempts of a schedule | create, run, collect, delete | kills, late logs, a schedule beside | what is reported is of now; run once, never beside another |
| Monitoring, `execution_report_heartbeat.py`, `cloud_run_runtime_guard.py` | what was told, in a cache | list, judge, alert, remember | reports and logs that arrive late or not | green means healthy; quiet means told |

Research previews, rendering and the arithmetic of the strategies are sequential
data processing: no component of the model, see `PROJECT.json`.

How they interact: a request takes the run lock and calls the cycle; the cycle
reads the account, asks the store for the day's marker, and calls the
execution, which calls back into the cycle (`acquire_execution_claim`) before its
first order and into `main.submit_market_order_intent` for every order. That one
hands the journal a callback; settlement wraps the callback. The end of a cycle
and `POST /settle` publish what settlement observed.

## 2. Modules

| Module | Role |
| --- | --- |
| `TradingCycle` | requests of several processes from `_handle_request` to the execution marker, with stores, broker and kills |
| `SubmissionAuthority` | what the stores of one account promise, without processes; implemented by `TradingCycle` |
| `TradingCycle_proofs` | the TLAPS proofs about `TradingCycle` |
| `MCTradingCycle` | its instances for TLC |
| `OrderSettlement` | workers that track, settle and publish orders |
| `SettlementLedger` | knowledge that only gets better; implemented by `OrderSettlement` |
| `OrderSettlement_proofs` | the TLAPS proofs about `OrderSettlement` |
| `MCOrderSettlement` | its instances for TLC |
| `SettledCashBuy` | the budget that the buys of one cash-only cycle share while the account changes |
| `MCSettledCashBuy` | its instances for TLC |
| `FlexForward` | the coverage of the daily Flex collector in forward mode |
| `MCFlexForward` | its instances for TLC |
| `FlexWatch` | executions of the Flex watchdog, with the lease it shares with the collector |
| `MCFlexWatch` | its instances for TLC |
| `Flex_proofs` | the TLAPS proofs about `FlexForward` and about `FlexWatch`, one after the other |
| `MCCycleVariants` | two further instances of `TradingCycle`, one at a time |
| `Cycles_proofs` | the theorems of `TradingCycle` carried over to these instances, and the TLAPS proofs about `SettledCashBuy` |
| `NewRiskGate` | when a cycle may take new risk, from the account's read to the order |
| `RebalancePass` | what one pass orders, and how much of it |
| `RebalancePass_proofs` | the TLAPS proofs about `RebalancePass` |
| `StrategyEvaluation` | from portfolio and market to a decision that may be executed |
| `PaperCommands` | delayed commands, admission and liquidation of a paper account |
| `RequestWorker` | the one worker of a service and its requests |
| `GatewaySession` | which gateway a request trades at, and as whom |
| `CycleReport` | what a live request tells of itself, and the digest row of its day |
| `DigestCandidates` | the state document and the object of one day's digest |
| `IncidentNotices` | incidents, their markers, sends and recoveries |
| `ReportHeartbeat` | which reports must be there and what they say |
| `RuntimeGuard` | alerts from the logs, and when they are repeated |
| `BaselineRecovery` | from readings of an account to an active baseline |
| `AccountFacts` | publication and archive of account facts |
| `FlexPublish` | one run that publishes, or diagnoses, a Flex report |
| `CashProbe` | one cash reading beside the serving revision |
| `ScheduledProbe` | a scheduled job run once by hand |
| `WarmRecovery` | the replacement of a warm revision |
| `CandidateRelease` | a candidate that is warmed, promoted and reset |
| `TrafficRoute` | the traffic of several targets, in the order of a plan |
| `PilotJob`, `PilotRevision` | a probe as a job, a probe as a revision of production |
| `PinnedRelease` | releases without traffic and the readings that go with them |
| `RuntimeSwitch` | sync, switch, schedulers and drift of one live service |
| `ScheduledPrograms` | the instances of fourteen of them: the worker, its reports, notices and digest, the scheduled monitors, the account facts, the probe and the cash reading, the baseline, routes, pinned releases, the pilot revision and the runtime switch |
| `ScheduledPrograms_proofs` | the TLAPS proofs about these fourteen, each by itself |
| `MCPrograms` | all modules from `NewRiskGate` on, for TLC, one at a time; it extends `ScheduledPrograms` |
| `MorePrograms_proofs` | the TLAPS proofs about the nine programs that `MCPrograms` adds: warm recovery, candidate release, pilot job, paper commands, strategy, Flex publication, new-risk gate, gateway session and the pass |
| `Programs_proofs` | the theorems of `MCPrograms`; it extends both and holds the proofs about receipts |

### TradingCycle

`pc[r]` is where request `r` stands. Every call that reads or writes a store, the
broker or the disk is one step, so that requests of different instances
interleave between any two of them.

| Action | Code |
| --- | --- |
| `Skip`, `Begin`, `Finish` | `main._handle_request`: early returns, `acquire(blocking=False)`, the reporting and the `finally` block |
| `ObserveFails`, `Observe` | `run_strategy_core` up to the signal: connection, portfolio, session, first evaluation of the persistent breaker |
| `Dedup` | `has_marker`, `has_prior_execution_report`; a read error is swallowed and counts as "not recorded" |
| `AdmitFails`, `Admit` | `execute_rebalance` up to its lock: open orders block or drop buys, the risk gate drops buys, the plan is made |
| `TakeLock` | same-day fills and the exclusive creation of the lock file |
| `SkipIntent`, `TradeFails`, `Submit`, `EndTrade` | the sell loop, then the buy loop |
| `ClaimAgain`, `ClaimOwner`, `ClaimMarker` | `acquire_execution_claim` |
| `Reserve`, `Dispatch`, `Place`, `Report` | `submit_claimed_order`, the session's reserve and dispatch, `submit_order_intent`, `_record_order_outcome` |
| `Record` | `_record_execution_marker` |
| `Crash` | the worker is killed, or the instance and its disk are replaced |
| `BrokerDone`, `DayTick` | the broker, the calendar |

Which intents a portfolio and a signal yield is a choice over all sets of
`<<side, symbol>>` the guards allow. An attempt of the journal is named
`<<request, side, symbol>>`. Same-day fills may block or not, whatever the orders:
they include fills this runtime did not cause. Every store write has the
outcome "took effect, then raised". A worker that dies loses its locals and its
run lock; its lock files stay or go with the disk.

What is taken from the tests about QPK: a reservation is refused while any
attempt is `UNKNOWN`, known-pending ones do not bar
(`tests/test_rebalance_service.py:1428-1456`); the breaker is checked at reserve and
again at dispatch (`tests/test_breaker_settlement_handoff.py:31-72`); a callback
that raises leaves its attempt `UNKNOWN`
(`tests/test_settled_cash_intervening_updates.py:182-205`). Nothing under `src/` clears
an `UNKNOWN` attempt or closes the breaker, so no action does: that is an
operator's work outside the program.

### OrderSettlement

A worker serves one call at a time: it tracks the placement of an order
(`Track` … `Submitted`, then the same batch steps), serves `POST /settle`
(`Settle`), or ends a cycle (`EndCycle`).

| Action | Code |
| --- | --- |
| `Track`, `Prepare`, `PlaceOrder`, `BindOrder`, `Submitted` | `track_submission` inside the journal's dispatch |
| `Scan`, `Query`, `EndBatch` | `settle_pending` |
| `Reread`, `ClaimSlot` | `SettlementStore.observe`: the second read and the create-only slot |
| `Publish`, `Send`, `Receipt`, `EndPublish` | `publish_settlement_notices`, from a summary read before |
| `Fault` | a call raises before or after its effect, or the process dies |
| `Expire` | the deadline of a batch passes |
| `Fill`, `Close` | the broker |

Statuses are reduced to open, final and unknown with the filled quantity, and a
final answer with or without its commission, because two answers that differ
only there are a `settlement_terminal_conflict`. Since observers only read the
stores whole, scans are atomic. Candidates are a step that may fail (`Fault` at
"publish"). `fate` is what the account journal gets to know: a report, or
nothing (`"lost"`, the attempt stays `UNKNOWN`); a new order is tracked only when no
attempt is being submitted or lost, as the journal demands.

### SettledCashBuy

The buy loop of one cycle with the cash that `TradingCycle` leaves out; one
process, but the account speaks between any two of its steps.

| Action | Code |
| --- | --- |
| `ObserveBudget`, `EndBuys` | the observation before the buys, the reasons that block all of them |
| `NextCandidate`, `SkipCandidate`, `Size` | the loop over the targets: observe again, skip, size and start the proxy |
| `Prepare`, `ReserveAttempt`, `PlaceOrder` | `prepare_intent`, the journal, the proxy's `placeOrder` |
| `RefuseOrder`, `Raise` | a local rejection, an exception anywhere in the submission |
| `ReportAccepted`, `ReportFailed`, `ReportUnknown` | `_record_order_outcome` and the deduction |
| `CashUpdate`, `BadUpdate`, `Expire` | `accountValueEvent` rows, the thirty seconds |

Amounts are units of cash and a quantity is what it costs, so a price is one.
A refresh receives any set of rows, fresh or stale, equal or in conflict, and
completes or not. An order that the broker cancelled may have been filled in
part. The variables `headroom`, `since` and `slipped` are history: the least over all
valid observations of what it left to invest, minus what was committed later.
Whether an observation already counts an order that is still open cannot be
known; the history takes it that one made before the placement does not and
one made after it does.

### FlexForward

One account of the collector. Since `collect` persists every change of the coverage
before it goes on, and the lease admits one run at a time, what a run knows is what
is stored, and a kill between any two steps loses nothing else.

| Action | Code |
| --- | --- |
| `Start` | `seed`, `windows`, the first `persist` of `collect` |
| `Revoke` | the validation of the next window is dropped and persisted |
| `Receive` | `store.immutable`, the search for the prior anchor, `qualify`, `invalidate_following`, `persist` |
| `Fail` | `fail`, with the errors that end the run |
| `Stop` | the end of the queue or of the time budget, an exception, a kill |
| `DayTick` | `target_day` |

A report is reduced to what tells two reports of one day apart: whether its snapshot
can serve as an anchor, whether all its events can be read, and which it contains.
Day `d` is anchored at time `d`. Which of the failed windows rest is a choice, in
place of the retry delays; an earlier attempt may always be due.

### FlexWatch

`stage[w]` is where execution `w` stands; every read and put of the bucket is a step. The
specification is `WatchSpec`, its types are `WatchTypeOK`.

| Action | Code |
| --- | --- |
| `Begin`, `ReadLease`, `TakeLease`, `Release` | `watch`, `Lease.__init__`, `Lease.release` |
| `ReadNote`, `Claim` | the reads of `watch`, its three reasons to stay quiet, the claim |
| `Check`, `Send`, `Recheck`, `Store` | `lease.check` before and after the message, `send`, the stored outcome |
| `Raise`, `RaiseLate`, `Kill` | a call raises before or after its effect, the execution is killed |
| `Tick` | time passes; an execution that reached its timeout is killed first |

A generation is modelled by who knows the current one (`leaseKnown`, `noteKnown`): a
put by anyone else makes it unknown. What `events` finds in the status is a choice. An
execution works with the time at which it started (`started`), as the code does. The
variable `last` is history: the latest message, and whether its outcome was stored. The
collector's lease is the same with other numbers (31 minutes against a kill after 30),
which is why `FlexForward` has one run at a time.

### The rest of a cycle

`RebalancePass` is one call of `execute_rebalance`: `Value` (targets against the equity
and the approved limits), `Blocked`, `Plan`, `Gate`, `Lock`, `SellSkipped`, `Sell`, `Buy`,
`Finish`. A price of zero is a quote that is missing, and each reading of cash is a choice.
The claims, the journal and other instances are in `TradingCycle`, the cash evidence of a
single buy in `SettledCashBuy`.

`NewRiskGate` follows one fact from the account's read to the order: `Start` and `Observe`
(`run_strategy_core`: measured values go before a strategy's older ones, which count for
`MaxAge`; the journal's breaker is restored or opened), `BrakeReduce`, `Gate` (targets are
cut), `Look` (again before a reservation), `Submit` and `Sell` (`submit_order_intent` with the
snapshot of the cycle). `OtherOpens` is another profile's cycle, `Tick` the clock. `None`
is a fact that is absent, `Bad` one that cannot be read. `Evaluate` is QPK's.

`StrategyEvaluation` evaluates again and again while days pass and evidence is granted and
revoked (`Evidence`): `Begin`, `Fetch`, `Inputs`, `Context`, `Evaluate`, `Map`. The four kinds of
strategies differ in what they read. What a strategy decides is a choice.

`PaperCommands`: the consumer (`Start`, `Claim`, `Load`, `Value`, `Propose`, `Decide`, with
`Unavailable` and `Kill`), the admission of an ordinary cycle (`Plan`, `Admit`, `Rebalance`) and
`Liquidate`, `Submit`. Prices, marks and trades by others change in between.

`CycleReport` begins where a pass ends: its summary becomes a record (`Record`), a notice
(`Publish`), a receipt and a report (`Finish`, `Close`), whatever fails (`BrokenOff`). What
the broker did (`did`) is chosen and never read by the program; the properties compare
what is said with it. `Row` is the digest's row, an operator over any set of stored reports.

### The service

`RequestWorker` is the one worker: requests one by one, or the due windows of a monitor
dispatch (`NextWindow`, `Collect`). `Interrupt` is the alarm of a dry run, which raises at any
step between two others, between the acquisition of the run lock and its assignment too;
`Swallowed` is one that hits a callback of the event loop. `Recycle` asks for the replacement,
`Terminate` and `Replace` are the process manager.

`GatewaySession` is what an instance trades at. `Load` reads the newest version of the
group's configuration, once; `ResolveHost` and `Refresh` find the address, `Connect`, `Accounts`
and `Permit` open a session and hold it against the configuration. `Move`, `Relogin` and
`Reconfigure` change the world meanwhile: the address may be another gateway's, ours may
have another login, or take no orders. A session records what the gateway was when it was
opened, since a gateway that is started again closes it.

`DigestCandidates` and `IncidentNotices` are `persist_candidate` and `publish_cycle` /
`publish_monitor` for several observers of one target at once: the compare-and-set of the
document, the second write of the object, the reservation of an incident before its message
and the recovery by a later healthy observation.

### Monitoring and publication

`ReportHeartbeat` takes the bucket as it is: `Hydrate` (the scheduler's schedule or the
configured one), `Resolve` (which services are due), `Judge` (the newest objects of each).
`RuntimeGuard` lets failures be logged (`Fail`), time pass and runs of the guard happen
(`Guard`: one run, with what its queries answer, and whether its file was kept), and the cache
lose the file (`Lose`).

`AccountFacts` selects a report (`First`, `Again`, `Older`), confirms the revision that serves
it (`Confirm`) and posts it (`Publish`); a reviewed report is appended to the history (`Review`,
`Qualify`, `Append1`). Reports arrive, are written anew, and revisions take over at any time.
`FlexPublish` is one run: `Request`, `Pending`, `Collect` (the report), then the facts of the
primary account and of the additional slots in the order of the code, each posted once.
`Statements` lists what a report may say, `Settings` which slots and keys are configured.

`BaselineRecovery` crosses programs and hands: readings of an account that trades (`Read`,
`Report`, `Trade`), `Publish`, the operator's `Confirm`, `Verify`, the ledger that is created once
(`Archive`), and the routes by which an active baseline reaches the service (`Sync`, `Stage`,
`ReadAgain`, `Adopt`, `Baseline`).

### Deployment

`WarmRecovery` writes a service with compare-and-set on its resource version; a write
whose answer is lost stays in `flight` and may land later. `CandidateRelease` is a sequence of
gcloud calls with a `finally` clause that may itself fail (`CleanupFailed`). `TrafficRoute` is the
loop over the targets of a plan, in six modes, with other people deploying in between.
`PilotJob` and `PilotRevision` are workflows that may be killed between any two calls and
dispatched again; the next dispatch finds what the last one left. `PinnedRelease` has the
four modes of releases that must not move traffic. `RuntimeSwitch` is the configuration workflow:
one run after the other, each with an inventory, stopping at any step, while others change
service and jobs. `CashProbe` and `ScheduledProbe` read an account in the cloud, by a
temporary job or tag, or by a run of the scheduled job by hand.

In all of them `pc` is the next call, `Kill` (or `Die`, `Stop`) ends the process between two of
them, and a call fails before or after its effect. Variables commented as history are read by
properties only.

### MCPrograms

TLC checks the programs one at a time in one run: `part` names the one that runs, and
`v1` to `v14` are its variables in the order of its declarations. A property of the run is
the conjunction of what the modules state, each for its own part; the comment before it
names the code. The modules list what the programs may be given: `ScheduledPrograms` has
`Reports` (objects of the bucket) and `Answers` (of the logs), `MCPrograms` `Calls` (passes), `Wanted` (inventories), `Said` and
`Setups` (Flex reports and configurations), `Situations` and `Runtimes` (facts of an account,
settings of a cycle), `Groups` and `Deployments` (account groups, environments).

## 3. Runs

| Run | Instance | Shows |
| --- | --- | --- |
| `cycle_replace` | one strategy, two instances with one request each, one symbol, two dates, one kill, cash-only with risk gate | `OneSubmitterPerDay`, `OrdersAreTraced`, `OneSubmission`, `UnknownFence`, `BreakerWindow`, the inductive invariant, refinement of `SubmissionAuthority` |
| `cycle_variants` | either two strategies on one account, two services, two symbols, one kill; or two requests to one process, one kill, no gate, with fairness | only the owner trades (`RivalsTraced`, refinement `RivalsAuthority`); `OneCyclePerInstance`, `RunLockReturns` |
| `settlement_race` | two workers, one order of two shares, faults anywhere | `OrderHasRecord`, `ToldOnce`, `ToldTruly`, refinement of `SettlementLedger` |
| `settlement_full` | one worker, two orders, batches of one, faults, with fairness | `ToldTruly`, refinement (answers and notices reach their own record), `CallsReturn` when a batch is too large |
| `settlement_passive` | one worker, one order, no fault at all | a violation of `ObservationIsPassive`, below |
| `cash_share` | three candidates, six units, two reserved, two rows for each refresh | `SpentWithinBudget`, `UnverifiedStopsBuys` |
| `cash_cancel` | two candidates, four units | a violation of `SharedBudget`, below |
| `flex_evidence` | three days, two of them recent, two windows in a run, one event | `AnchorNotRevised`, `CountedOnceAlongAnchors` |
| `flex_twice` | the same with three windows in a run | a violation of `CountedOnce`, below |
| `watch_remind` | two executions of at most one tick, a lease of two, a reminder of three, five ticks and two midnights | `OneInside`, `NoEarlyReminder`, `RetryAfterNearlyHonored`, `BlockIsFinal` |
| `watch_limit` | the same | a violation of `RetryAfterHonored`, below |
| `programs` | each of the 23 programs by itself; two services, two dispatches, changes or observers, the inputs that `MCPrograms` lists | `ReceiptsTrue`, `NothingReplayed`, `RoutedAsProven`, `OthersStand`, `NothingSilent`, `NothingLeftOver`, `LimitsHold`, and under fairness `ProgramsEnd` |

What the conjunctions of `programs` say:

| Property | Of which programs, and what |
| --- | --- |
| `ReceiptsTrue` | The attempt file of the warm recovery tells the traffic (`W!OutcomeIsTrue`); a receipt of a candidate, a job or a revision hides nothing that is left (`C!`, `J!`, `R!NothingHidden`); a release passes only on the baseline it was approved on (`P!PassIsBaseline`); green is healthy (`H!GreenIsHealthy`); published is stored (`F!`, `U!SuccessIsHeld`) and a net flow counts every transaction once (`U!CountedOnce`); a filled command was reconciled (`A!FilledReconciled`); a reading is of now (`B!ObservedNow`); a success is of the attempt that was sent (`L!SuccessIsOurs`); a switch's result and a drift are the service's (`O!ResultTrue`, `O!NoDriftIsTrue`); a receipt says "nothing" only when the broker has nothing (`Y!ZeroIsZero`, `Y!ReceiptTrue`) |
| `NothingReplayed` | one write of a kind (`W!WriteOnce`), no command again (`C!NothingReplayed`), two probes never exist together (`J!OneProbe`), an urgent message once (`I!SentOnce`), one order-capable session (`Q!ProbedOnce`), one report generated (`U!OneReport`), one run by hand, never beside another (`L!RunOnce`, `L!NeverBeside`) |
| `RoutedAsProven` | traffic for what was seen up (`C!ServesWhenProven`, `T!RoutedAsVerified`, `T!InPlanOrder`), none for a pinned release (`P!NeverServes`); only what serves or was reviewed is published (`F!`); a baseline that is active was held against the account (`K!`); what is executed was approved (`E!`); nothing is posted before the accounts of the run are verified, nor after a shared failure (`U!`); a buy was measured lately and not after a breach (`V!`); a live session is of the configured accounts and takes orders, a paper one is of no live account, a gateway is looked for in its project only (`X!`) |
| `OthersStand` | a step never undoes what others changed: template, traffic, jobs, ledgers, later digests, incidents that are newer, addresses that were found |
| `NothingSilent` | what is urgent is sent or stands (`I!`), a stored candidate is shown (`D!`), a request reports (`Q!AllReported`, `Y!RunTold`), a due service is checked (`H!`), a quiet run repeats what was told (`G!`), no newer report is passed over (`F!`), a blocked buy is told (`V!`) |
| `NothingLeftOver` | alarm, lock and session of an interrupted request (`Q!`), the session of a refused one (`X!`), the day's lock of a pass that may not trade (`S!DayKeptOpen`) |
| `LimitsHold` | budget, overshoot and blind buys of a pass (`S!`), growth under a reduction (`A!`), later bars (`E!`), the smaller loss limit and no forced exit (`V!`), readings without orders (`X!`) |
| `ProgramsEnd` | an attempt that was begun ends with its cleanup; a lock that an interrupted request left ends with its worker |

Bounds. Every race of the code is between two parties (a check and a claim, a
reservation and a report, two observers, two publishers), so two requests or
workers reach it; two dates let a marker of yesterday meet a cycle of today; one
kill separates every pair of steps. `LastDay` and `MaxCrashes` bound the calendar and
the kills, `MaxTries` (8 in the code) and `MaxOrders` (100) are small so that
their limits are met; `MaxSlots` bounds how often an unknown answer may alternate
with a known one, which the code bounds by time only. Three candidates let the
second one's order shrink the third one's budget; six units and a reserve of
two leave room for two orders of different sizes. Three days are an anchor, a day
that is skipped and one measured across it, and two recent ones let the third leave
the window that is always fetched again. Two executions race for a lease, and five
ticks hold two reminders of three. For `TradingCycle`, `SettledCashBuy`, `FlexForward`,
`FlexWatch` and `RebalancePass` the proofs below do without any of these bounds; for
`programs` they do without the numbers of services, dispatches, reports and kills. The requests of
`cycle_replace` carry the names of their instances, so that the two are symmetric. In `programs` two services are the first and a later one of
a plan, two dispatches one that was killed and one that finds what it left, two observers
a race for a document, two attempts to connect one that is refused and one at a refreshed
address; one change by others, or two, falls between every pair of steps. Three ticks or
reports are one before, at and after a limit. Money is in small integers, chosen so that a
budget covers one order and not two. Deadlock is not checked: the systems rest when every
request is served.

Fairness. `TradingCycle`: a running request takes its next step, since every
call of it returns or raises, and gunicorn kills a worker that does not come
back. `OrderSettlement`: a call takes its next step and the clock of a batch
runs. Nothing is assumed of new requests, of the broker, or of anyone who calls
`/settle`; no scheduler does. `MCPrograms`: a program that was begun takes its next step
(`Going`; its calls have time limits), a loop with a deadline gives up (`GiveUp`), and a
process manager ends and replaces a worker that was told to end. None of it is assumed
after a kill: what is started again is started by somebody.

What the environment of the programs is taken to do. A gcloud call's effect is there or not
when the call ends; writes that land later are modelled where the code reads a service after
an unanswered write (`WarmRecovery`, the route of `TrafficRoute`). Nobody else writes during
`CandidateRelease`, whose workflow holds the service. The compare-and-set loops of the
candidates give up after eight tries: a loser may fail at any time instead. QPK's decisions
are choices among what the code distinguishes. In `ScheduledProbe` what is checked and what
is then sent happen in one time unit, an attempt does not outlive its deadline, and nobody
runs the job by hand between the last check and the readback. In `CashProbe` a killed
reading leaves its scheduler job armed, and a report written by it later may be taken by a
dispatch that finds it fresh. In `BaselineRecovery` what changed once does not change back,
and a change after the last report is not seen by any program. Values in `PaperCommands` are
units above the tolerance of the comparisons. In `RuntimeSwitch` runs never overlap
(the concurrency group of the workflow), targets are live ones, and a traffic move by
another between the reading of a route and its shift is overwritten, as by the code. In
`FlexPublish` the receiver stores what it acknowledges. In `NewRiskGate` pages are told once per
process, whatever the kit's key adds, and the journal's own check of the breaker at reserve
is not counted on (it is in `TradingCycle`). In `GatewaySession` a gateway listens on the port of
its kind of login.

### The violated claims

`order_settlement.py:250` says "Observation must not change rebalance/trading
decisions in this cycle", and `docs/ibkr-order-settlement.md:15-16` that the wait does
not change "the execution report consumed by trading decisions". With a positive
wait the observation runs between the report and its return, inside the
callback of the journal, and nothing catches what it raises. The run needs no
failing call: the first poll sees a partial fill, the second one gets no answer
("unknown", no fill), `observe` raises `settlement_nonmonotonic_fill`, the report
is lost, the attempt stays `UNKNOWN`, and no later order of the account is
admitted. The same path is open to every other exception of `settle_pending`,
such as `settlement_batch_incomplete`: records without an order id (a local
rejection by the risk gate after `prepare`) stay pending for ever and count for
`max_orders`.

`docs/ibkr-paper-execution-admission.md:20-21` says that "symbols share the remaining
budget within a cycle". The loop deducts the cost of an order unless its outcome is
"failed" (`execution_service.py:2499`), and `_record_order_outcome` takes every
cancelled order for failed, whatever its `filled_quantity`. A buy that is cancelled
after some of it was filled therefore leaves the budget whole, and the next symbol
may spend the same cash again: `cash_cancel` shows a cycle that commits more than
the account had settled. `SpentWithinBudget` says that this is the only way: beyond
the executed part of cancelled orders, nothing is overspent. Settlement takes a day,
so the next refresh of settled cash need not show the fill either.

`docs/flex-cloud-daily.md:83-84` says that "repeated observations never become additional
movements". The queue is newest first, and a day is measured from the latest
earlier anchor there is. When day 3 is qualified before day 2, its interval begins at
day 1; when day 2 then arrives for the first time it has no `old_raw`, nothing
following is revoked (`runner.py:204`), and an event of day 2 that both reports contain
is selected by both, each with `validated_at`. The next run measures day 3 again as long as
it is recent; a hole that is filled later than that leaves the overlap for good.
`CountedOnceAlongAnchors` says that this is the only way: days between which
no anchor was skipped never share an event.

`docs/flex-cloud-daily.md:193` says that "rate limits honor retry_after". The delay is
added to the time at which the execution started (`watch.py:106`), not to the time
of the answer, so the next message may go out earlier than demanded, by up to the
five minutes an execution may take. `RetryAfterNearlyHonored` is what remains.

## 4. Proofs

Eight modules hold the theorems: four for the components that were modelled in depth
(the trading cycle, order settlement, Flex, the pass), one for the variants of the cycle and
three for the programs.

`TradingCycle_proofs` proves, for any sets of requests, instances, profiles and
symbols, any topology, and any bounds:

| Theorem | Statement |
| --- | --- |
| `TypeCorrectness` | `Spec => []TypeOK` |
| `Invariance` | `Spec => []IInv` |
| `OneSubmitter` | `Spec => []OneSubmitterPerDay` |
| `Traced` | `Spec => []OrdersAreTraced` |
| `MutualExclusion` | `Spec => []OneSubmission` |
| `OneCycle` | `Spec => []OneCyclePerInstance`, which `cycle_variants` checks of its instance |
| `Fence` | `Spec => UnknownFence` |
| `BreakerCloses` | `Spec => BreakerWindow` |
| `Refinement` | `Spec => AuthoritySpec` |

They rest on the named assumptions of the module: `None` is no request, attempt
or profile, the topology functions have their types, the bounds are naturals.

The argument. That orders are traced is not inductive: that `Place` is safe
depends on the claim four steps earlier, and `Record` overwrites the marker.
`IInv` adds what links them. `KeyInv`: a marker names a request of its own key, and
only keys of the owner are marked. `ClaimInv`: from the claim on a request's marker
is its own, before it is not; nobody else can write that key, because it
exists. `CurrentInv` and `PlanInv`: intents still in the plan have no attempt, the
current one has the certainty its place demands. `JournalInv`: an order has an
attempt, an attempt has its marker, and at most one attempt is unknown; this is
what makes `Reserve` exclude every other submission. `LockInv`: a running request
holds the lock of its process. Each conjunct is preserved by every action; most
actions leave its variables alone, and the proof groups them. Two orders of one
key then have the same marker, hence the same request; two submitting requests
have an unknown attempt each, hence the same one. For the refinement, open
attempts are the unknown ones: `ClaimOwner` is Hold, `ClaimMarker` is Grant,
`Reserve` is Open, `Place` is Order, `Report` is Settle, everything else stutters;
`Record` stutters because it writes what is there.

`OrderSettlement_proofs` proves, for any number of workers, attempts, fills, retries and
answers without content:

| Theorem | Statement |
| --- | --- |
| `TypeCorrectness` | `Spec => [](TypeOK /\ Locals)` |
| `RecordFirst` | `Spec => []OrderHasRecord` |
| `Invariance` | `Spec => []IInv` |
| `OneNotice` | `Spec => []ToldOnce` |
| `TrueNotice` | `Spec => []ToldTruly` |
| `Refinement` | `Spec => LedgerSpec` |

The argument. `Locals` says what a worker has where: an attempt while it tracks, a record
while it observes, a row while it tells, and at a claim a slot that is at most the next one
of its record. Its types are inductive only together with it. `Submissions`: the attempt a
worker tracks is being submitted and tracked by nobody else, so the order it places is not
there yet; the record was written one step earlier. Orders therefore only grow, and what
agrees with an order (`Agrees`: no more fills than it has, and a final answer is its final
state) agrees with it for good. `Truth`: this holds of every slot, every answer that
is still to be recorded and every row of a summary, however old. `Notices`: who is about to
send has a confirmed row whose notice it created, and nobody else is about to send for that
attempt. For the refinement, `Fresh`: as long as the slot a worker is about to claim is
still the next one, what it found out at its re-read (no final observation, no fills taken
back) is still so; when somebody else was faster the claim fails. A claim that wins is
Learn, the broker's steps are Trade, everything else stutters. That the record at hand
is a member of the batch at all rests on the well-foundedness of the naturals.

`Cycles_proofs` proves of `SettledCashBuy`, for any targets, amounts, reserve and minimum:

| Theorem | Statement |
| --- | --- |
| `TypeCorrectness`, `Invariance` | `Spec => []TypeOK`, `Spec => []IInv` |
| `WithinBudget` | `Spec => []SpentWithinBudget` |
| `UnverifiedIsFinal` | `Spec => []UnverifiedStopsBuys` |
| `SharedWithoutCancels` | while no cancelled order was filled in part, `SharedBudget` holds |

Two numbers in the program stand for the budget, the loop's `investable` and the
proxy's `remaining`, and they diverge while an order is submitted. The invariant
`BelievedBudget` says which one is to be trusted where: outside a submission the
loop's does not exceed what the observations allow, inside one the proxy's does not,
and once the order is placed the quantity does not either, although the proxy's
may fall below it. The remaining conjunct, that an unreadable refresh leaves no
budget, is why the buys end although the code only skips one symbol. The five
per cent of the resizing play no part in the argument.

It also proves, of the two instances of `MCCycleVariants` (whose specification is called
`VariantsSpec`, beside the `Spec` of `SettledCashBuy`):

| Theorem | Statement |
| --- | --- |
| `RivalsAreTraced` | `VariantsSpec => []RivalsTraced` |
| `RivalsImplement` | `VariantsSpec => RivalsAuthority` |
| `OneCycleAfterAKill` | `VariantsSpec => []OneCyclePerInstance` |

The argument is instantiation: `TradingCycle_proofs` is instantiated at the constants of
each instance, the lemmas `PairRequests` to `SingleSwitches` show that these constants are
what a trading cycle assumes (`NobodyAssumption`: the two requests, profiles and processes are
different from each other and from `Nobody`), and a step of the variants is a step of the one
that was chosen while the other's variables stand.

`Flex_proofs` proves of `FlexForward`, for any number of days, any windows and any events:

| Theorem | Statement |
| --- | --- |
| `TypeCorrectness`, `Invariance` | `Spec => []TypeOK`, `Spec => []IInv` |
| `AnchorsStand` | `Spec => []AnchorNotRevised` |
| `CountedOnceAlong` | `Spec => []CountedOnceAlongAnchors` |

The argument looks at one slot at a time (`Sound`): evidence implies a report, a
validation implies evidence, a day without status is untouched. An interval keeps its
anchor because a step either changes no report (`ReportsKept`) or receives one, and
then revokes every later day when the report differs; later days are known, hence not
beyond the target, hence all of them are reached. That consecutive intervals share no
event follows from the interval alone, half open at the prior anchor; the events
already seen, which the code also keeps, are not needed for it.

`Flex_proofs` proves of `FlexWatch`, for any number of executions and any durations of which
the lease outlasts the timeout:

| Theorem | Statement |
| --- | --- |
| `WatchTypeCorrectness`, `WatchInvariance` | `WatchSpec => []WatchTypeOK`, `WatchSpec => []WatchIInv` |
| `MutualExclusion` | `WatchSpec => []OneInside` |
| `Reminders` | `WatchSpec => NoEarlyReminder` |
| `RateLimits` | `WatchSpec => RetryAfterNearlyHonored` |
| `Blocks` | `WatchSpec => BlockIsFinal` |

The argument. `Leased`: whoever is inside owns the lease, and since it was started less
than its timeout ago the lease has not expired; whoever may still take the lease has
seen it free and nobody wrote it since, so both cannot be. Therefore the note changes
by the hand of one execution at a time, and what it decided when it read the note
still holds when it claims (`Decided`). `Remembered` ties the note to the latest
message: same incident, not claimed before the message's execution started, unless
something else was claimed or it was rate limited. `Ordered` says that claims are
stored in the order in which executions started, without which an execution with an old
present could undercut the distance.

`RebalancePass_proofs` proves, for any instruments, prices, holdings, targets and limits a
pass may be called with (`Grounded`: the safe haven is an instrument, cash is not negative,
every call is `Sensible`):

| Theorem | Statement |
| --- | --- |
| `PassWithinBudget` | `Spec => []WithinBudget` |
| `PassNeverOvershoots` | `Spec => []NoOvershoot` |
| `PassNeverBuysBlind` | `Spec => []NoBlindBuy` |
| `PassKeepsTheDayOpen` | `Spec => []DayKeptOpen` |
| `PassNeverStoppedHalfway` | `Spec => []NeverStoppedHalfway` |

The argument. `Remaining`: what was spent and what the loop still believes to have are
together no more than what there was after the sells; each buy keeps that, because a whole
number of shares costs at most the money it was computed from (`SharesCost`). `InOrder`:
nothing is sold before the lock or bought before the sells are over, and targets that
exceed what was approved never leave `Value`; this is why the checks of the loop cannot
refuse. `Unseen`: a pass without a view of its cash reaches the lock with a planned sell only,
and the buys with nothing needed.

`Programs_proofs` proves, of all programs of `MCPrograms`, whichever is chosen:

| Theorem | Statement |
| --- | --- |
| `NeverReplayed` | `Spec => []NothingReplayed` |
| `NeverLeftOver` | `Spec => []NothingLeftOver` |
| `LimitsAlwaysHold` | `Spec => []LimitsHold` |
| `NeverSilent` | `Spec => []NothingSilent` |
| `AlwaysRoutedAsProven` | `Spec => []RoutedAsProven` |
| `OthersAlwaysStand` | `Spec => OthersStand` |
| `ReceiptsAlwaysTrue` | `Spec => []ReceiptsTrue` |

The numbers of services and of times (dispatches, observers, ticks, kills) are any positive
ones (`BoundsAssumption`, `TimesAssumption`). The lists of inputs (calls, groups, runtimes) are
finite and named; the proofs unfold them where a program's invariant depends on them. The
invariant `Inv` says of the program that runs that its own `IInv` holds, which stands in its
module under that name; for the pass it is that of `RebalancePass_proofs`. Where one conjunction
needs more than the others, the module has a further invariant beside `IInv` (`Accounted`,
`Attested`, `Informed`, `LookedAt`, `Overtaken`, `Fated`, `FileIsWhole`, `ReadInTime`, `Ran`, `Left`,
`Done`, `Reconciled`, `Green`), which is inductive relative to it. Each is kept by its program alone
(`ASSUME IInv, Next \/ UNCHANGED vars PROVE IInv'`), in `ScheduledPrograms_proofs` or
`MorePrograms_proofs`, those behind the receipts in `Programs_proofs`, without the others: what the provers need for a step grows with the
instances that are in sight. What the invariants add:

- the order of the calls. A release has issued only commands that stand before its `pc`
  (`Place`, `Order`), so it cannot issue the next one twice; a warm recovery has not sent
  what lies ahead of its attempt file, although that file is all a new process knows.
- who is alone. A request for a job is sent only after a reading that showed no other
  execution, and nobody starts one in that time unit (`Alone`, `InTime`); at most one probe job
  exists and what is doomed exists (`AtMostOne`).
- whose marker it is. An incident is `Findable` by the marker that its opening reserved, and
  an observer's reservation is for the opening it read (`OwnOpening`): two observers of one
  opening cannot both have it.
- what an interrupted request holds. `AlarmIsItsOwn`, `Holding` and `Accounted` tie lock,
  session and alarm to the request that is served, or to a worker that will be replaced.
- what one has in hand. Of two revisions that observers hold or have published the later one
  covers the earlier (`OneHistory` of `DigestCandidates`), so a late writer whose number is not
  smaller loses nothing of the object it replaces; the fact that an observer brought is in
  what it goes on with (`Held`).
- what was passed over. When a report is chosen, every newer one of the listing is one that may
  be skipped (`Choice`), and what was posted is still that one (`Posting`): reports that
  arrive after the listing do not make it false (`AccountFacts`).
- what was told. Who is due is still required after the reports were read
  (`ReportHeartbeat`); what the guard's file calls told was sent (`FileIsTrue`); the summary of
  a run `Fits` what the broker did, its receipt is `Sound` of the same, and who sent something
  or failed has told of it before its report is closed (`CycleReport`).
- what was seen when. `Heard`, `Passed` and `Recorded` (`NewRiskGate`) relate the snapshot a
  cycle submits with to the journal: a breach it has seen is in the journal, and a buy left
  behind a gate that was passed. `Weighed` (`PaperCommands`) ties intents to the positions that
  were read, `Judged` (`StrategyEvaluation`) a decision to the inputs of its own day.
- what nobody else did meanwhile. A version that was read is still the current one, or the
  change of another actor is past it: `Past` (`WarmRecovery`, `Overtaken`), `SinceRead`
  (`TrafficRoute`), `Versioned` and `OursStill` (`PilotRevision`). A put under a
  version that was read therefore finds what was read, or is refused. `Synchronized` and
  `Activated` (`BaselineRecovery`) tie a ledger that is archived and a baseline that is activated
  to readings that began with what the console had confirmed (`Proven`).
- what the receipt rests on. `Ran`, `Left`, `Made`, `Took` and `Tells` say of each place in a probe
  what has run, what still exists and what the receipt may already claim; a receipt only gains
  `deleted`, `restored` or `observed` at the place where the deletion, the template or the
  reading was confirmed. `Done` says what a run of the runtime switch has brought about if
  nobody else was at it. `Fated`: while no other actor changes the service, a write of the
  warm recovery that is still in flight is the one at hand, or it is `Late`, under a version
  that has passed, and has no effect any more; so a late answer cannot move the traffic after
  the outcome was written. `Reconciled` keeps what was found equal to the journal tied to
  the commands that are decided on.

That a net flow counts a native transaction once is stated without a recursive sum: there is a
set of lines, one of each identity, and the flow is their total (`CountedOnce` of
`FlexPublish`). The set is that of the first line of each identity; that there is a first one
is the least-element principle for the naturals (`Least`, from `WellFoundedInduction`). It also
gives the newest report of a day (`CycleReport`) and the newest object of a target
(`ReportHeartbeat`).

Only model-checked: `RunLockReturns`, `CallsReturn` and `ProgramsEnd` (liveness under
fairness is out of the prover's reach), and `TypeOK` of `programs`. The invariants above prove
the parts of it that they use, the domains of records and functions and the values of `pc`; what
is left are bounds of the instance, on versions, generations and the lengths of logs, which follow
from how often a program, and the others, may act, and on which no proof rests.

## 5. What the models show beside the claims

Behaviour that no document excludes, and that a reader of the code may not expect:

- A reconciliation record that cannot be written makes a finished cycle answer 500; the
  receipt of a brake reduction says "no_action" and leaves the number of orders open; a
  report of a legacy, unattested target has no receipt (`CycleReport`).
- In one pass the safe haven may be sold by the sweep and bought again; a pass that the
  gate leaves with buys it then blocks still takes the day's lock (`RebalancePass`).
- A strategy's loss limit that is unreadable, or wider than the runtime's, switches the
  runtime's limit off in the pass; only the gate of the submission holds it then, and a sell
  without a proof of reduction is refused by it too. A drawdown the account itself reports
  needs no time stamp (`NewRiskGate`).
- A repeated paper liquidation while the first orders are pending sells twice
  (`PaperCommands`).
- The replacement a timed-out window asked for is lost when the HTTP part of the monitor
  dispatch raises; an alarm that hits a callback of the event loop is logged and lost
  (`RequestWorker`).
- A read-only request has one attempt and never refreshes the cached address: after the
  gateway has moved, probes of an instance fail until a cycle that may write, or a new
  instance, finds it. The paper command consumer opens its session without the backend and
  client checks of `connect_ib`, so a client zero is possible there. A paper group with an
  explicit live port and no accounts is not held against anything. An instance keeps the
  version of the configuration with which it started, so two instances of one revision may
  differ. `IB_GATEWAY_IP_MODE` goes before the group when an address is looked up, and
  behind it in the settings (`GatewaySession`).
- A run of the guard that is killed after its message tells it again, and one that is killed
  before is told by its red mark only (`RuntimeGuard`).
- A staged template of an initial candidate becomes the service's template; a sync that
  moves traffic compares target and switch only, and routes a staged unmanaged variable
  with them; a drift looks at the serving revision, so that a variable of the template is
  not shown. A target that was synced disabled with `IBKR_FORCE_RUN=true` and is then
  enabled by a switch is live with it, although a sync refuses that
  (`build_cloud_run_env_sync_plan.py:714`); `O!NeverForcedLive` says that no sync does it
  (`RuntimeSwitch`).
- In a dated full run external flows of the primary account are posted although the
  statement is of another period, while its return and executions are refused; transactions
  without an identity are counted line by line (`FlexPublish`).
- Reports that arrive after the last listing are left to the next run (`AccountFacts`).

## 6. Not modelled, and why

Option orders of the cycle (live ones are refused by the risk authority); dry runs of a
cycle beyond the worker that serves them; the prices of `TradingCycle`, and outside
`SettledCashBuy` and `RebalancePass` quantities and cash of orders (they decide which intents
exist, not who may submit them); the net of cash between cycles; storage formats and
scans that are truncated; authentication of routes; message texts. QPK is modelled from the
outside only. The account's orders placed by hand are not in the environment of
`TradingCycle`. The gate's switch `ACCOUNT_NEW_RISK_GATE=0` is for tests. Of
`runtime_config_support.py` what concerns the gateway is modelled; the other settings are
values that are read once. Of the deployment scripts the deletion of legacy jobs, the
removal of dispatcher variables and plans that change only an image are left out; of the
Flex diagnoses the shapes they count; of the watchdog and the monthly controls of Flex what
`events` and `checks.py` compute. Sequential data code is listed in `PROJECT.json` with its
reason.

## 7. Plan

1. The type invariants of the programs of `MCPrograms` as theorems; all its other safety
   properties are proved.
2. `FlexCollector`: monthly controls, blocking codes, retry delays and the day-10 control
   beside `FlexForward`.
3. An abstract register that only moves forward, implemented by `DigestCandidates`;
   `merge_settlement_record` against its reference.
4. The composition of `GatewaySession` with `RequestWorker`, and of `NewRiskGate` with
   `TradingCycle`.
