---------------------------- MODULE RequestWorker ----------------------------
(***************************************************************************)
(* The one worker of the service and the requests it answers, one at a     *)
(* time: main.py, _handle_request and _handle_dry_run_with_deadline;       *)
(* application/http_routes.py; application/runtime_deadline.py;            *)
(* application/runtime_broker_adapters.py, connect_ib; and                 *)
(* application/monitor_dispatcher.py.  A dry run is interrupted by an      *)
(* alarm, wherever it is; what it leaves behind goes with the worker,      *)
(* which is replaced after the answer.  What a cycle does is TradingCycle. *)
(***************************************************************************)
EXTENDS Naturals

CONSTANT Attempts   \* bound: connect_attempts

Kinds == {"run", "dry", "probe", "reconcile", "permission"}

VARIABLES
  enabled,  \* whether the revision's runtime target is
  worker,   \* STRATEGY_RUN_LOCK, a session left open, and its replacement
  timer,    \* ITIMER_REAL
  req,      \* the request; "local" is a window of the monitor dispatch
  pc,
  claim,    \* the permission probe's object of the one scheduler job
  opened    \* history: the order-capable sessions opened for that job

vars == <<enabled, worker, timer, req, pc, claim, opened>>

Fresh == [lock |-> FALSE, left |-> FALSE, recycle |-> "no", lost |-> FALSE]
NoReq == [kind |-> "none", windows |-> {}, local |-> FALSE, due |-> FALSE, holds |-> FALSE, open |-> FALSE,
          tries |-> 0, report |-> "none", late |-> FALSE, told |-> FALSE, kept |-> "no", code |-> 0]

TypeOK ==
  /\ enabled \in BOOLEAN
  /\ worker \in [lock: BOOLEAN, left: BOOLEAN, recycle: {"no", "due", "ending"}, lost: BOOLEAN]
  /\ timer \in {"off", "request", "grace"}
  /\ req \in [kind: Kinds \cup {"none"}, windows: SUBSET {"probe", "dry"}, local: BOOLEAN, due: BOOLEAN, holds: BOOLEAN, open: BOOLEAN,
              tries: 0..Attempts, report: {"none", "open", "ok", "error", "skipped"},
              late: BOOLEAN, told: BOOLEAN, kept: {"no", "stored", "unsure"}, code: {0, 200, 409, 500, 503}]
  /\ pc \in {"idle", "next", "setup", "plugins", "acquired", "admitted", "connect", "validate", "use",
             "finally", "persist", "leave", "grace", "recycle", "claim", "answer"}
  /\ claim \in BOOLEAN /\ opened \in 0..2

Init ==
  /\ enabled \in BOOLEAN
  /\ worker = Fresh /\ timer = "off"
  /\ req = NoReq /\ pc = "idle"
  /\ claim = FALSE /\ opened = 0

outside == <<enabled, claim, opened>>
Strategy == req.kind \in {"run", "dry"}

\* A dry run arms the timer; a run of a disabled target is answered at once,
\* and the permission probe is for a disabled target alone.
Begin(k, local) ==
  /\ k = "run" => enabled
  /\ k = "permission" => ~enabled
  /\ req' = [NoReq EXCEPT !.kind = k, !.local = local, !.due = req.due,
                          !.windows = req.windows \ {k},
                          !.tries = IF k = "permission" THEN 1 ELSE Attempts]
  /\ timer' = IF k = "dry" THEN "request" ELSE timer
  /\ pc' = IF k = "permission" THEN "claim" ELSE "setup"
  /\ UNCHANGED <<outside, worker>>

\* A worker told to end takes no further request.
Receive ==
  /\ pc = "idle" /\ worker.recycle # "ending"
  /\ \/ \E k \in Kinds : Begin(k, FALSE)
     \/ /\ \E due \in SUBSET {"probe", "dry"} : req' = [NoReq EXCEPT !.windows = due]
        /\ pc' = "next"
        /\ UNCHANGED <<outside, worker, timer>>

\* dispatch_due_monitor_targets: the windows of this service, one by one, in
\* this process; those of others meanwhile by HTTP.
NextWindow == pc = "next" /\ \E k \in req.windows : Begin(k, TRUE)

Replaced == [worker EXCEPT !.recycle = IF @ = "no" THEN "due" ELSE @]

\* The replacement a timed-out window asked for is scheduled with the result,
\* or lost if the HTTP dispatch raises.
Collect ==
  /\ pc = "next" /\ req.windows = {}
  /\ \/ worker' = IF req.due THEN Replaced ELSE worker
     \/ worker' = [worker EXCEPT !.lost = @ \/ req.due]
  /\ req' = NoReq /\ pc' = "idle"
  /\ UNCHANGED <<outside, timer>>

\* A setup that raises has no report: the fallback tells it.
BuildReport ==
  /\ pc = "setup"
  /\ \/ /\ req' = [req EXCEPT !.report = "open"]
        /\ pc' = IF Strategy THEN "plugins" ELSE "connect"
     \/ /\ req' = [req EXCEPT !.code = 500, !.told = req.kind # "reconcile"]
        /\ pc' = IF req.kind = "dry" THEN "leave" ELSE "answer"
  /\ UNCHANGED <<outside, worker, timer>>

\* Between the acquisition and its assignment the lock is nobody's.
Acquire ==
  /\ pc = "plugins"
  /\ IF worker.lock
     THEN /\ req' = [req EXCEPT !.report = "skipped", !.code = 200]
          /\ pc' = "finally"
          /\ UNCHANGED worker
     ELSE /\ worker' = [worker EXCEPT !.lock = TRUE]
          /\ pc' = "acquired"
          /\ UNCHANGED req
  /\ UNCHANGED <<outside, timer>>

Assign ==
  /\ pc = "acquired"
  /\ req' = [req EXCEPT !.holds = TRUE]
  /\ pc' = "admitted"
  /\ UNCHANGED <<outside, worker, timer>>

Admit ==
  /\ pc = "admitted"
  /\ \/ pc' = "connect" /\ UNCHANGED req
     \/ pc' = "finally" /\ req' = [req EXCEPT !.report = "skipped", !.code = 200]
  /\ UNCHANGED <<outside, worker, timer>>

\* _claim_permission_probe: created once, before a session is opened; a
\* request that raises may have created it.
AnyTime == TRUE   \* a plausible slip: the object is overwritten
Unclaimed == ~claim

Claim ==
  /\ pc = "claim"
  /\ \/ /\ Unclaimed /\ claim' = TRUE
        /\ pc' = "connect" /\ UNCHANGED req
     \/ /\ claim' \in {claim, TRUE}
        /\ req' = [req EXCEPT !.code = IF claim THEN 409 ELSE 503]
        /\ pc' = "answer"
  /\ UNCHANGED <<enabled, worker, timer, opened>>

\* connect_ib: the order-capable session is that of the permission probe.
Connect ==
  /\ pc = "connect"
  /\ req' = [req EXCEPT !.open = TRUE, !.tries = @ - 1]
  /\ opened' = IF req.kind = "permission" THEN opened + 1 ELSE opened
  /\ pc' = "validate"
  /\ UNCHANGED <<enabled, worker, timer, claim>>

Failed(code) == [req EXCEPT !.report = IF @ = "none" THEN @ ELSE "error", !.open = FALSE, !.code = code,
                            !.told = req.kind \in {"run", "dry", "probe"}]
Tail == IF req.kind = "permission" THEN "answer" ELSE "finally"

\* Only a lost connection is tried again, with the session closed.
ConnectFails ==
  /\ pc \in {"connect", "validate"}
  /\ IF (IF pc = "connect" THEN req.tries > 1 ELSE req.tries > 0)
     THEN /\ pc' = "connect"
          /\ req' = [req EXCEPT !.open = FALSE, !.tries = IF pc = "connect" THEN @ - 1 ELSE @]
     ELSE /\ pc' = Tail
          /\ req' = Failed(IF req.kind = "probe" THEN 500 ELSE 503)
  /\ UNCHANGED <<outside, worker, timer>>

\* The configured accounts, and for a live run the permission to trade.
Validate ==
  /\ pc = "validate"
  /\ \/ pc' = "use" /\ UNCHANGED req
     \/ pc' = Tail /\ req' = Failed(IF req.kind = "permission" THEN 503 ELSE 500)
  /\ UNCHANGED <<outside, worker, timer>>

\* What the request is for; its own finally closes the session.
Use ==
  /\ pc = "use"
  /\ \/ req' = [req EXCEPT !.open = FALSE, !.report = IF @ = "none" THEN @ ELSE "ok", !.code = 200]
     \/ Strategy /\ req' = [req EXCEPT !.open = FALSE, !.report = "error", !.code = 200]
     \/ \E code \in {500, 503} : req' = Failed(code)
  /\ pc' = Tail
  /\ UNCHANGED <<outside, worker, timer>>

\* The alarm of the request raises in it, whatever it is at.  Only inside of
\* the try is the report finalized; a lock that is not assigned yet, or about
\* to be released, stays; so does a session connect_ib has not handed over.
Interrupt ==
  /\ timer = "request" /\ timer' = "off"
  /\ req' = [req EXCEPT !.late = TRUE, !.holds = @ /\ pc # "finally", !.open = FALSE,
                        !.report = IF pc \in {"setup", "finally", "leave"} THEN @ ELSE "error"]
  /\ \E left \in BOOLEAN :
       /\ left => req.open \/ pc = "connect"
       /\ pc = "validate" => left
       /\ worker' = [worker EXCEPT !.left = @ \/ left]
  /\ pc' = IF pc \in {"setup", "finally", "leave"} THEN "leave" ELSE "finally"
  /\ UNCHANGED outside

\* An exception in a callback of the event loop is logged there, and lost.
Swallowed ==
  /\ timer = "request" /\ pc \in {"connect", "validate", "use"}
  /\ timer' = "off"
  /\ UNCHANGED <<outside, worker, req, pc>>

Release ==
  /\ pc = "finally"
  /\ worker' = [worker EXCEPT !.lock = @ /\ ~req.holds]
  /\ req' = [req EXCEPT !.holds = FALSE]
  /\ pc' = IF req.kind = "dry" THEN "leave" ELSE "persist"
  /\ UNCHANGED <<outside, timer>>

\* A run tells that its report is not confirmed, unless it is one of an error.
Persist ==
  /\ pc = "persist"
  /\ \E kept \in {"stored", "unsure"} :
       req' = [req EXCEPT !.kept = kept,
                          !.told = @ \/ (req.kind = "run" /\ kept = "unsure" /\ req.report # "error")]
  /\ pc' = "answer"
  /\ UNCHANGED <<outside, worker, timer>>

\* A plausible slip: what is armed is left armed.
StillArmed == timer

\* enforce_runtime_deadline, its finally.
Disarmed == "off"

\* A plausible slip: an interrupted request has nothing to say.
IfInTime == req.report # "none" /\ ~req.late

Registered == req.report # "none"

Leave ==
  /\ pc = "leave"
  /\ timer' = IF Registered THEN "grace" ELSE Disarmed
  /\ req' = [req EXCEPT !.code = IF req.late THEN 503 ELSE @]
  /\ pc' = IF Registered THEN "grace" ELSE "recycle"
  /\ UNCHANGED <<outside, worker>>

\* The report is written with an alarm of its own.
Grace ==
  /\ pc = "grace"
  /\ timer' = Disarmed
  /\ \E kept \in {"stored", "unsure"} : req' = [req EXCEPT !.kept = kept]
  /\ pc' = "recycle"
  /\ UNCHANGED <<outside, worker>>

\* A plausible slip: the worker goes on.
GoesOn == worker

Scheduled == Replaced

Recycle ==
  /\ pc = "recycle"
  /\ worker' = IF req.late /\ ~req.local THEN Scheduled ELSE worker
  /\ req' = [req EXCEPT !.due = @ \/ (req.late /\ req.local)]
  /\ pc' = "answer"
  /\ UNCHANGED <<outside, timer>>

Answer ==
  /\ pc = "answer"
  /\ pc' = IF req.local THEN "next" ELSE "idle"
  /\ req' = [NoReq EXCEPT !.due = req.due, !.windows = req.windows]
  /\ UNCHANGED <<outside, worker, timer>>

\* SIGTERM: the request at hand is still answered.
Terminate ==
  /\ worker.recycle = "due"
  /\ worker' = [worker EXCEPT !.recycle = "ending"]
  /\ UNCHANGED <<outside, timer, req, pc>>

Start == worker' = Fresh /\ timer' = "off" /\ req' = NoReq /\ pc' = "idle" /\ UNCHANGED outside

Replace == worker.recycle = "ending" /\ pc = "idle" /\ Start

\* gunicorn's own timeout, or the instance stops.
Kill == pc # "idle" /\ Start

\* Calls have their time limits; the process manager replaces what ends.
Going ==
  \/ NextWindow \/ Collect \/ BuildReport \/ Acquire \/ Assign \/ Admit \/ Claim \/ Connect \/ Validate \/ Use
  \/ Release \/ Persist \/ Leave \/ Grace \/ Recycle \/ Answer \/ Replace

Next == Going \/ Receive \/ ConnectFails \/ Interrupt \/ Swallowed \/ Terminate \/ Kill

Spec == Init /\ [][Next]_vars /\ WF_vars(Going) /\ WF_vars(Terminate)

(***************************************************************************)
(* Properties.                                                             *)
(***************************************************************************)

\* No alarm outlives the dry run it was set for: a live run is never
\* interrupted (enforce_runtime_deadline).
AlarmIsItsOwn == timer # "off" => req.kind = "dry" /\ pc \notin {"idle", "next", "answer"}

\* A lock or a session that an interrupted dry run left stays no longer than
\* its worker, which is replaced after the answer, or after the dispatch
\* unless that raised (recycle_current_process_after_response).
LeftIsReplaced ==
  pc = "idle" /\ (worker.lock \/ worker.left) => worker.recycle # "no" \/ worker.lost

\* A scheduler job opens an order-capable session once, whatever is retried or
\* killed (_claim_permission_probe).
ProbedOnce == opened <= 1 /\ (opened = 1 => claim)

\* A request that has a report has tried to keep it, an interrupted one too,
\* and none fails in silence (the finally clauses, the grace period).
AllReported ==
  pc = "answer" /\ req.kind # "permission" =>
    /\ req.report # "none" => req.kept # "no"
    /\ req.late => req.code = 503
    /\ req.kind = "run" /\ req.kept = "unsure" => req.told \/ req.report = "error"
    /\ req.code >= 500 => req.told \/ req.late \/ req.kind = "reconcile"

(***************************************************************************)
(* The inductive invariant behind them.                                    *)
(***************************************************************************)

\* What of TypeOK the rest of it needs.
Shaped ==
  /\ DOMAIN worker = DOMAIN Fresh /\ worker.lock \in BOOLEAN /\ worker.left \in BOOLEAN
  /\ worker.lost \in BOOLEAN /\ worker.recycle \in {"no", "due", "ending"}
  /\ DOMAIN req = DOMAIN NoReq /\ req.windows \subseteq {"probe", "dry"} /\ req.tries \in Nat
  /\ req.holds \in BOOLEAN /\ req.late \in BOOLEAN /\ req.due \in BOOLEAN /\ req.local \in BOOLEAN
  /\ timer \in {"off", "request", "grace"} /\ claim \in BOOLEAN /\ opened \in Nat

\* Where a request of a kind can be, and with how many attempts left.
OnItsWay ==
  /\ pc = "claim" => req.kind = "permission"
  /\ pc \in {"plugins", "acquired", "admitted"} \/ req.holds => Strategy
  /\ pc = "persist" => req.kind # "dry"
  /\ pc \in {"leave", "grace"} => req.kind = "dry"
  /\ pc = "recycle" => timer = "off"
  /\ pc \in {"setup", "plugins", "acquired", "admitted", "claim", "connect"} => req.tries > 0
  /\ req.kind = "permission" =>
       /\ pc \in {"claim", "connect", "validate", "use", "answer"}
       /\ pc \in {"claim", "connect"} => req.tries = 1
       /\ pc = "validate" => req.tries = 0

\* Of the one order-capable session: claimed before it is opened.
Claimed ==
  req.kind = "permission" /\ pc \in {"connect", "validate", "use"} => claim /\ (pc = "connect" => opened = 0)

\* A request that holds the lock, was interrupted, or asked for a replacement.
Holding ==
  /\ req.holds => pc \in {"admitted", "connect", "validate", "use", "finally"}
  /\ req.late => req.kind = "dry" /\ pc \in {"finally", "leave", "grace", "recycle", "answer"}
  /\ req.due => req.local \/ pc = "next"
  /\ pc = "idle" => ~req.due

\* What is left has its holder, or somebody who owes the replacement.
Owed ==
  \/ req.late /\ pc # "answer"
  \/ req.due \/ worker.recycle # "no" \/ worker.lost
Accounted ==
  /\ worker.lock => pc = "acquired" \/ req.holds \/ Owed
  /\ worker.left => Owed

Serving == Shaped /\ AlarmIsItsOwn /\ ProbedOnce /\ OnItsWay /\ Claimed /\ Holding /\ Accounted

\* What a request has told, and kept, where it is.
Reporting ==
  /\ req.code \in Nat /\ (pc \notin {"idle", "next"} => req.kind \in Kinds)
  /\ pc = "setup" => req.report = "none"
  /\ pc = "grace" => timer = "grace"
  /\ req.kept # "no" => pc \in {"recycle", "answer"}
  /\ pc \in {"recycle", "answer"} /\ req.kind # "permission" /\ req.report # "none" => req.kept # "no"
  /\ pc \in {"grace", "recycle", "answer"} /\ req.late => req.code = 503
  /\ req.kind = "run" /\ req.kept = "unsure" => req.told \/ req.report = "error"
  /\ req.code >= 500 /\ req.kind # "permission" => req.told \/ req.late \/ req.kind = "reconcile"

IInv == Serving /\ Reporting
=============================================================================
