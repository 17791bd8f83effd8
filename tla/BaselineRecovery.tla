-------------------------- MODULE BaselineRecovery --------------------------
(***************************************************************************)
(* How a frozen live baseline becomes active again (RECONCILE_ONLY to      *)
(* ACTIVE_LKG).  The service reads the account (/reconcile), a candidate   *)
(* made of such a report is published to the console                       *)
(* (publish_reconciliation_recovery_source.py), an operator confirms it, a *)
(* later report must show the same                                         *)
(* (verify_reconciliation_recovery.py), the plan is kept in a ledger that  *)
(* is created once, and the environment is synchronized from the ledger:   *)
(* by the inventory, or, when the account is enrolled for the first time,  *)
(* after one more report, as a candidate that is adopted                   *)
(* (reconcile_cloud_runtime.py).  Readings, publications and verifications *)
(* are one concurrency group, synchronizations another.                    *)
(***************************************************************************)
EXTENDS Integers, Sequences

CONSTANTS
  Readings,  \* bound: completed readings of the account, which also tell the time
  Changes    \* bound: changes of each part of the account, deployments, candidates

Age == 1     \* how old a receipt and a confirmation may be, in readings

VARIABLES
  initial,   \* the account is enrolled for the first time
  acct,      \* versions of positions and cash, and of orders, executions and the ledger
  reading,   \* of the account, half done
  reports,   \* of completed readings
  console,   \* what the console has of a candidate
  plan,      \* verified and not kept yet
  ledger,
  svc,       \* the service
  revs,      \* its revisions
  sync       \* the synchronization

vars == <<initial, acct, reading, reports, console, plan, ledger, svc, revs, sync>>

\* What has changed once does not change back.
Account == [pos: 0..Changes, ord: 0..Changes]
Nothing == [pos |-> 0, ord |-> 0]
NoReading == [on |-> FALSE, began |-> Nothing, rev |-> 0]
NoPlan == [by |-> 0, at |-> 0, held |-> FALSE]
NoSync == [pc |-> "idle", by |-> 0, version |-> 0, base |-> 0, rev |-> 0]
Ids == 1..Len(reports)
now == Len(reports)
Revs == 1..Len(revs)
Active == revs[svc.serving].active
\* A new revision serves.
Serves(r) ==
  /\ revs' = Append(revs, r)
  /\ svc' = [svc EXCEPT !.version = @ + 1, !.serving = Len(revs) + 1, !.latest = Len(revs) + 1]

TypeOK ==
  /\ initial \in BOOLEAN /\ acct \in Account
  /\ reading \in [on: BOOLEAN, began: Account, rev: 0..Len(revs)]
  /\ \A i \in Ids : reports[i] \in [facts: Account, began: Account, rev: Revs]
  /\ console \in [source: 0..Readings, as: {"none", "published", "confirmed"}, at: 0..Readings]
  /\ {plan, ledger} \subseteq [by: 0..Readings, at: 0..Readings, held: BOOLEAN]
  /\ svc \in [version: Nat, serving: Revs, latest: Revs, undone: BOOLEAN]
  /\ \A r \in Revs : revs[r] \in [active: BOOLEAN, by: 0..Readings, on: BOOLEAN]
  /\ sync \in [pc: {"idle", "read", "valid", "staged", "adopt"}, by: 0..Readings,
               version: Nat, base: 0..Len(revs), rev: 0..Len(revs)]

Init ==
  /\ initial \in BOOLEAN /\ acct = Nothing /\ reading = NoReading /\ reports = <<>>
  /\ console = [source |-> 0, as |-> "none", at |-> 0] /\ plan = NoPlan /\ ledger = NoPlan
  /\ svc = [version |-> 0, serving |-> 1, latest |-> 1, undone |-> FALSE]
  /\ revs = <<[active |-> FALSE, by |-> 0, on |-> FALSE]>> /\ sync = NoSync

----------------------------------------------------------------------------
(* The account and the operators.                                          *)

\* A transfer moves cash, an order that is placed or cancelled the orders, a
\* fill both.
Trade ==
  /\ \E d \in {[pos |-> 1, ord |-> 0], [pos |-> 0, ord |-> 1], [pos |-> 1, ord |-> 1]} :
       /\ acct.pos + d.pos <= Changes /\ acct.ord + d.ord <= Changes
       /\ acct' = [pos |-> acct.pos + d.pos, ord |-> acct.ord + d.ord]
  /\ UNCHANGED <<initial, reading, reports, console, plan, ledger, svc, revs, sync>>

Confirm ==
  /\ console.as = "published" /\ console' = [console EXCEPT !.as = "confirmed", !.at = now]
  /\ UNCHANGED <<initial, acct, reading, reports, plan, ledger, svc, revs, sync>>

\* Somebody deploys another revision, enabled or not, from the inventory or
\* from the template that was written last.
Deploy ==
  /\ svc.version < Changes
  /\ \E on \in BOOLEAN, from \in {1, svc.latest} : Serves([revs[from] EXCEPT !.on = on])
  /\ UNCHANGED <<initial, acct, reading, reports, console, plan, ledger, sync>>

----------------------------------------------------------------------------
(* The readings (_handle_reconciliation).                                  *)

Free == ~reading.on /\ plan = NoPlan

\* The portfolio first.
Read ==
  /\ Free /\ now < Readings
  /\ reading' = [on |-> TRUE, began |-> acct, rev |-> svc.serving]
  /\ UNCHANGED <<initial, acct, reports, console, plan, ledger, svc, revs, sync>>

\* Then the orders, the executions and the ledger, and what the two halves make.
Observed ==
  [facts |-> [pos |-> reading.began.pos, ord |-> acct.ord], began |-> reading.began,
   rev |-> reading.rev]
\* The report is persisted under an address of its own, whatever comes of the
\* request; one that lacks a surface, failed or was not written, has no candidate.
Report ==
  /\ reading.on /\ reading' = NoReading
  /\ reports' \in {reports, Append(reports, Observed)}
  /\ UNCHANGED <<initial, acct, console, plan, ledger, svc, revs, sync>>

----------------------------------------------------------------------------
(* The candidate.                                                          *)

\* A recovery candidate is rebuilt from the archives that were designated; an
\* initial one from the recent report of the run, which the serving revision
\* wrote.
Derived(i) == ~Active /\ (initial => reports[i].rev = svc.serving /\ now - i <= Age)
Publish(i) ==
  /\ Free /\ console.as = "none" /\ Derived(i)
  /\ console' = [console EXCEPT !.source = i, !.as = "published"]
  /\ UNCHANGED <<initial, acct, reading, reports, plan, ledger, svc, revs, sync>>

Source == reports[console.source]
\* The same positions and cash.
SamePositions(j) == reports[j].facts.pos = Source.facts.pos
\* The account in the same state.
SameFacts(j) == reports[j].facts = Source.facts
\* The confirmation and the report are recent.
Recent(j) == now - console.at <= Age /\ now - j <= Age
\* Recent, and read after the confirmation.
Reobserved(j) == Recent(j) /\ j > console.at
Verify(j) ==
  /\ Free /\ console.as = "confirmed" /\ ~Active
  /\ Reobserved(j) /\ SameFacts(j) /\ (initial => reports[j].rev = svc.serving)
  /\ plan' = [by |-> j, at |-> now, held |-> acct = Source.facts]
  /\ UNCHANGED <<initial, acct, reading, reports, console, ledger, svc, revs, sync>>

\* A ledger is made of a verification that has found nothing and has a plan.
Ready == plan # NoPlan
\* Whatever is there.
Anything == TRUE
\* Create only.
Absent == ledger = NoPlan
\* The ledger is created, or not, or it is and nobody knows.
Archive ==
  /\ Ready /\ plan' = NoPlan
  /\ ledger' \in {ledger} \cup (IF Absent THEN {plan} ELSE {})
  /\ UNCHANGED <<initial, acct, reading, reports, console, svc, revs, sync>>

----------------------------------------------------------------------------
(* The synchronization.                                                    *)

others == <<initial, acct, reading, reports, console, plan, ledger>>

\* By the inventory: its target is the frozen baseline, the plan of the ledger
\* its one transition.
Sync ==
  /\ sync = NoSync /\ ~initial /\ ledger # NoPlan /\ ~Active
  /\ Serves([active |-> TRUE, by |-> ledger.by, on |-> revs[svc.serving].on])
  /\ UNCHANGED <<others, sync>>

\* The first time: what serves, and is the template, is read,
Baseline ==
  /\ sync = NoSync /\ initial /\ ledger # NoPlan /\ Len(revs) <= Changes + 1
  /\ revs[svc.latest] = revs[svc.serving]
  /\ sync' = [NoSync EXCEPT !.pc = "read", !.version = svc.version, !.base = svc.serving]
  /\ UNCHANGED <<others, svc, revs>>

\* A recent report shows the same.
Shown(j) == SameFacts(j) /\ now - j <= Age
\* Another one, of the revision that serves, newer than the plan.
ShownSince(j) == Shown(j) /\ j > ledger.at /\ reports[j].rev = sync.base
\* must be the disabled baseline still, as one more report shows,
Validate(j) ==
  /\ sync.pc = "read" /\ svc.version = sync.version
  /\ ~revs[sync.base].active /\ ~revs[sync.base].on /\ ShownSince(j)
  /\ sync' = [sync EXCEPT !.pc = "valid", !.by = j]
  /\ UNCHANGED <<others, svc, revs>>

\* Any version of the service.
AnyVersion == TRUE
\* The service is as it was read.
SameVersion == svc.version = sync.version
Written == [svc EXCEPT !.version = @ + 1, !.undone = @ \/ svc.version # sync.version]
\* and the candidate is written without traffic.
Stage ==
  /\ sync.pc = "valid" /\ SameVersion
  /\ revs' = Append(revs, [active |-> TRUE, by |-> sync.by, on |-> FALSE])
  /\ svc' = [Written EXCEPT !.latest = Len(revs) + 1]
  /\ sync' \in {[sync EXCEPT !.pc = "staged", !.rev = Len(revs) + 1], NoSync}
  /\ UNCHANGED others

\* It is ready, nothing else was deployed and the baseline serves: it takes the
\* traffic.
ReadAgain ==
  /\ sync.pc = "staged" /\ svc.latest = sync.rev /\ svc.serving = sync.base
  /\ sync' = [sync EXCEPT !.pc = "adopt", !.version = svc.version]
  /\ UNCHANGED <<others, svc, revs>>
Adopt ==
  /\ sync.pc = "adopt" /\ SameVersion
  /\ svc' = [Written EXCEPT !.serving = sync.rev] /\ sync' = NoSync
  /\ UNCHANGED <<others, revs>>

\* It stops where something is not as it must be, fails or is not known, or is
\* killed.
Stop ==
  /\ sync # NoSync /\ sync' = NoSync
  /\ UNCHANGED <<others, svc, revs>>

Next ==
  \/ Trade \/ Deploy \/ Confirm \/ Read \/ Report \/ Archive \/ Sync \/ Baseline
  \/ \E i \in Ids : Publish(i) \/ Verify(i) \/ Validate(i)
  \/ Stage \/ ReadAgain \/ Adopt \/ Stop

Spec == Init /\ [][Next]_vars

----------------------------------------------------------------------------
(* Properties.                                                             *)

\* Whatever is activated was confirmed, and was the state of the account in
\* one moment: the one in which the last report began, though no report reads
\* the account at once.
ActiveWasHeld ==
  \A r \in Revs : revs[r].active =>
    console.as = "confirmed" /\ reports[revs[r].by].began = Source.facts

\* The first time, also the state in the moment of the verification.
VerifiedWasHeld == initial => \A r \in Revs : revs[r].active => ledger.held

\* The ledger that a synchronization applies stays.
LedgerStands == ledger # NoPlan => ledger' = ledger

\* No deployment of anybody else is undone.
NothingUndone == ~svc.undone

----------------------------------------------------------------------------
(* The inductive invariant behind them.                                    *)

Point == [pos: Nat, ord: Nat]
AtMost(a, b) == a.pos <= b.pos /\ a.ord <= b.ord
Shaped ==
  /\ acct \in Point /\ reading \in [on: BOOLEAN, began: Point, rev: Nat]
  /\ reports \in Seq([facts: Point, began: Point, rev: Nat])
  /\ DOMAIN console = {"source", "as", "at"} /\ console.at \in 0..now
  /\ console.as # "none" => console.source \in Ids
  /\ console.as = "confirmed" => console.source <= console.at
  /\ {plan, ledger} \subseteq [by: Nat, at: 0..now, held: BOOLEAN]
  /\ DOMAIN svc = {"version", "serving", "latest", "undone"}
  /\ {1, svc.serving, svc.latest} \subseteq Revs
  /\ revs \in Seq([active: BOOLEAN, by: Nat, on: BOOLEAN])
  /\ DOMAIN sync = DOMAIN NoSync /\ sync.by \in Nat
  /\ sync.pc \in {"staged", "adopt"} => sync.rev \in Revs

\* A reading sees what changes while it lasts in part, a later one all of it.
History ==
  /\ reading.on => AtMost(reading.began, acct)
  /\ \A i \in Ids :
       /\ reports[i].facts.pos = reports[i].began.pos /\ AtMost(reports[i].began, reports[i].facts)
       /\ AtMost(reports[i].facts, acct)
       /\ reading.on => AtMost(reports[i].facts, reading.began)
  /\ \A i, j \in Ids : i < j => AtMost(reports[i].facts, reports[j].began)

\* The account as confirmed was there when a report began; it is there no more.
Proven(i) == i \in Ids /\ console.as = "confirmed" /\ reports[i].began = Source.facts
Gone(a) == AtMost(Source.facts, a) /\ a # Source.facts
Grounded(p) ==
  p # NoPlan =>
    /\ Proven(p.by) /\ console.at <= p.at
    /\ ~p.held => /\ Gone(acct) /\ (reading.on => Gone(reading.began))
                  /\ \A i \in Ids : i > p.at => Gone(reports[i].began)
Synchronized ==
  /\ sync.pc # "idle" => initial /\ ledger # NoPlan
  /\ sync.pc \notin {"idle", "read"} => Proven(sync.by) /\ ledger.held
Activated == \A r \in Revs : revs[r].active => Proven(revs[r].by) /\ (initial => ledger.held)
IInv ==
  /\ Shaped /\ History /\ Grounded(plan) /\ Grounded(ledger) /\ Synchronized /\ Activated
  /\ NothingUndone
=============================================================================
