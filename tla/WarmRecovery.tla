---------------------------- MODULE WarmRecovery -----------------------------
(***************************************************************************)
(* One attempt of scripts/cloud_run_warm_recovery.py to replace the warm   *)
(* revision of a Cloud Run service: create a replacement without traffic,  *)
(* give it one percent, watch it, give it everything, and on any failure   *)
(* give everything back to the warm revision.                              *)
(*                                                                         *)
(* The service is written with compare-and-set on its resource version.  A *)
(* write whose answer is lost stays in flight and may be applied later.    *)
(* Every call may fail, a signal may arrive at any step, the process may   *)
(* be killed, and another actor may change the service once.               *)
(***************************************************************************)
EXTENDS Integers, Sequences

Kinds  == {"create", "activate", "promote", "restore"}
Shares == {"warm", "split", "new"}          \* traffic: 100/0, 99/1, 0/100
Specs  == [tmpl: {"old", "new", "other"}, want: Shares]
None   == [none |-> TRUE]

VARIABLES
  svc,        \* the service: desired spec and the controller's status
  health,     \* health of the replacement revision
  foreign,    \* another actor has changed the service
  flight,     \* the writes that have not reached the service yet
  pc, op,     \* where the attempt is, and with which of its writes
  status,     \* the attempt file; "none" is no file
  expected,   \* the service as last accepted by the attempt
  current,    \* the service as read before the write at hand
  pending,    \* the write that has not been read back yet
  activated, count, expired,
  sent        \* history: the kinds of the writes sent

process == <<pc, op, status, expected, current, pending, activated, count>>
cloud   == <<svc, health, foreign>>
vars    == <<cloud, process, flight, expired, sent>>

SpecOf(s) == [tmpl |-> s.tmpl, want |-> s.want]

Versions == 0..12
Service  == [gen: Versions, rv: Versions, tmpl: {"old", "new", "other"},
             want: Shares, have: Shares, seen: Versions]

TypeOK ==
  /\ svc \in Service
  /\ health \in {"pending", "healthy", "bad"}
  /\ flight \subseteq [kind: Kinds, rv: Versions, to: Specs]
  /\ pc \in {"idle", "check", "read", "put", "wait", "settle", "watch", "prove",
             "recover", "over"}
  /\ op \in Kinds
  /\ expected \in Service \cup {None} /\ current \in Service \cup {None}
  /\ pending = None \/ pending \in [before: Service, to: Specs]
  /\ status \in {"none", "STARTED", "CREATE_INTENT", "ACTIVATE_INTENT", "PROMOTE_INTENT",
                 "SUCCEEDED", "FAILED", "FAILED_WARM_RESTORED", "FAILED_RESTORE_UNCONFIRMED"}
  /\ count \in 0..2
  /\ {activated, expired, foreign} \subseteq BOOLEAN
  /\ sent \in Seq(Kinds) /\ Len(sent) <= 4

Init ==
  /\ svc = [gen |-> 1, rv |-> 1, tmpl |-> "old", want |-> "warm", have |-> "warm", seen |-> 1]
  /\ health = "pending" /\ foreign = FALSE /\ flight = {}
  /\ pc = "idle" /\ op = "create" /\ status = "none"
  /\ expected = None /\ current = None /\ pending = None
  /\ activated = FALSE /\ count = 0 /\ expired = FALSE
  /\ sent = <<>>

Converged(s) == s.have = s.want /\ s.seen = s.gen

(***************************************************************************)
(* Cloud Run.                                                              *)
(***************************************************************************)

\* Mutant: the version is not a precondition of the write.
Unconditional(s, v) == TRUE

\* metadata.resourceVersion is the precondition of a PUT.
Current(s, v) == s.rv = v

\* A no-op update advances the version and not the generation.
Updated(s, to) ==
  [s EXCEPT !.rv = @ + 1, !.gen = IF to = SpecOf(s) THEN @ ELSE @ + 1,
            !.tmpl = to.tmpl, !.want = to.want]

\* A write reaches the service; if its sender still waits, its answer may be
\* lost or not, and a refusal raises.
Arrive(w) ==
  /\ flight' = flight \ {w}
  /\ svc' = IF Current(svc, w.rv) THEN Updated(svc, w.to) ELSE svc
  /\ IF pc = "wait" /\ w.kind = op
     THEN pc' \in {"recover"} \cup (IF Current(svc, w.rv) THEN {"settle"} ELSE {})
     ELSE UNCHANGED pc
  /\ UNCHANGED <<health, foreign, op, status, expected, current, pending, activated,
                 count, expired, sent>>

\* The controller brings the status in line with the spec.
Reconcile ==
  /\ ~Converged(svc)
  /\ svc' = [svc EXCEPT !.have = svc.want, !.seen = svc.gen, !.rv = @ + 1]
  /\ UNCHANGED <<health, foreign, process, flight, expired, sent>>

\* The share that each write asks for.
Asks == [create |-> "warm", activate |-> "split", promote |-> "new", restore |-> "warm"]

\* Another actor, who does not happen to write what the attempt is about to
\* write: nobody could tell the two apart.
Foreign ==
  /\ ~foreign
  /\ foreign' = TRUE
  /\ \E to \in Specs \ {SpecOf(svc), [tmpl |-> "new", want |-> Asks[op]]} :
       /\ pending # None => to # pending.to
       /\ svc' = Updated(svc, to)
  /\ UNCHANGED <<health, process, flight, expired, sent>>

HealthChanges ==
  /\ svc.tmpl = "new"
  /\ health' \in {"pending", "healthy", "bad"} \ {health}
  /\ UNCHANGED <<svc, foreign, process, flight, expired, sent>>

\* The card's expires_at passes.
Expire ==
  /\ ~expired /\ expired' = TRUE
  /\ UNCHANGED <<cloud, process, flight, sent>>

(***************************************************************************)
(* The attempt.                                                            *)
(***************************************************************************)

\* Mutant: the attempt file is opened for writing, not created.
AnyAttempt == TRUE

FirstAttempt == status = "none"

\* The attempt file is created exclusively.
Start ==
  /\ pc = "idle"
  /\ FirstAttempt
  /\ pc' = "check" /\ status' = "STARTED"
  /\ expected' = None /\ current' = None /\ pending' = None
  /\ op' = "create" /\ activated' = FALSE /\ count' = 0
  /\ UNCHANGED <<cloud, flight, expired, sent>>

\* The service is the one of the card's snapshot; warm revision and minimum
\* are checked twice.
Check ==
  /\ pc = "check"
  /\ ~expired
  /\ svc.rv = 1 /\ svc.want = "warm" /\ svc.have = "warm"
  /\ expected' = svc
  /\ pc' = "read"
  /\ UNCHANGED <<cloud, flight, op, status, current, pending, activated, count, expired, sent>>

\* stable(): the service is as the attempt left it.
Stable ==
  /\ SpecOf(svc) = SpecOf(expected) /\ svc.gen = expected.gen
  /\ svc.have = expected.have /\ svc.seen = svc.gen

Intent == [create |-> "CREATE_INTENT", activate |-> "ACTIVATE_INTENT",
           promote |-> "PROMOTE_INTENT", restore |-> "FAILED"]

Goal(kind) ==
  [tmpl |-> IF kind = "create" THEN "new" ELSE current.tmpl, want |-> Asks[kind]]

\* Forward writes: read, check everything again, record the intent.
Read ==
  /\ pc = "read"
  /\ op # "restore"
  /\ ~expired
  /\ Stable
  /\ op = "promote" => health = "healthy"
  /\ current' = svc
  /\ pc' = "put"
  /\ status' = Intent[op]
  /\ UNCHANGED <<cloud, flight, op, expected, pending, activated, count, expired, sent>>

\* put(): the write is pending from before it is sent until it is read back.
Put ==
  /\ pc = "put"
  /\ pending' = [before |-> current, to |-> Goal(op)]
  /\ flight' = flight \cup {[kind |-> op, rv |-> current.rv, to |-> Goal(op)]}
  /\ sent' = Append(sent, op)
  /\ pc' = "wait"
  /\ UNCHANGED <<cloud, op, status, expected, current, activated, count, expired>>

\* What settle() accepts as the service after the write at hand: a restoration
\* may be a no-op, but must have moved the version.
Fenced(s) ==
  IF op = "restore"
  THEN s.gen \in {expected.gen, expected.gen + 1} /\ s.rv # current.rv
  ELSE s.gen = expected.gen + 1

\* settle(): polled until it converges; whatever else is read raises.
Settle ==
  /\ pc = "settle"
  /\ SpecOf(svc) = pending.to
  /\ Fenced(svc) /\ Converged(svc)
  /\ expected' = svc
  /\ pending' = None
  /\ CASE op = "create" ->
            pc' = "read" /\ op' = "activate" /\ activated' = TRUE /\ UNCHANGED status
       [] op = "activate" ->
            pc' = "watch" /\ UNCHANGED <<op, activated, status>>
       [] op = "promote" ->
            pc' = "prove" /\ UNCHANGED <<op, activated, status>>
       [] op = "restore" ->
            pc' = "over" /\ status' = "FAILED_WARM_RESTORED" /\ UNCHANGED <<op, activated>>
  /\ UNCHANGED <<cloud, flight, current, count, expired, sent>>

\* The canary loop: two healthy readings in a row, a pending one starts over.
Watch ==
  /\ pc = "watch"
  /\ ~expired
  /\ Stable
  /\ health # "bad"
  /\ count' = IF health = "healthy" THEN count + 1 ELSE 0
  /\ IF count' = 2 THEN pc' = "read" /\ op' = "promote" ELSE UNCHANGED <<pc, op>>
  /\ UNCHANGED <<cloud, flight, status, expected, current, pending, activated, expired, sent>>

Prove ==
  /\ pc = "prove"
  /\ health = "healthy"
  /\ pc' = "over" /\ status' = "SUCCEEDED"
  /\ UNCHANGED <<cloud, flight, op, expected, current, pending, activated, count, expired, sent>>

(***************************************************************************)
(* Failure.                                                                *)
(***************************************************************************)

\* A call fails, a check does, a deadline passes, or a signal arrives.
Raise ==
  /\ pc \notin {"idle", "over"}
  /\ CASE op = "restore"                     -> pc' = "over" /\ status' = "FAILED_RESTORE_UNCONFIRMED"
       [] op # "restore" /\ pc = "recover"   -> pc' = "over" /\ status' = "FAILED"
       [] OTHER                              -> pc' = "recover" /\ UNCHANGED status
  /\ UNCHANGED <<cloud, flight, op, expected, current, pending, activated, count, expired, sent>>

\* The except clause: without an activation there is nothing to give back.
Recover ==
  /\ pc = "recover"
  /\ CASE op = "restore"      -> pc' = "over" /\ status' = "FAILED_RESTORE_UNCONFIRMED"
                                 /\ UNCHANGED op
       [] op # "restore" /\ activated -> pc' = "read" /\ status' = "FAILED" /\ op' = "restore"
       [] OTHER               -> pc' = "over" /\ status' = "FAILED" /\ UNCHANGED op
  /\ UNCHANGED <<cloud, flight, expected, current, pending, activated, count, expired, sent>>

\* Mutants: whose successor it is is not asked; an unresolved write is no reason
\* to write again.
AnySuccessor == TRUE
LooksRestored == svc.have = "warm" /\ svc.want = "warm"

\* A successor is ours only if its whole spec is that of the pending write.
OurSuccessor ==
  IF pending = None
  THEN svc.gen = expected.gen /\ SpecOf(svc) = SpecOf(expected)
  ELSE \/ svc.gen = pending.before.gen /\ SpecOf(svc) = SpecOf(pending.before)
       \/ svc.gen = pending.before.gen + 1 /\ SpecOf(svc) = pending.to

AlreadyWarm == pending = None /\ svc.have = "warm" /\ svc.want = "warm"

\* rollback(): one fresh reading decides on at most one compensating write.
Rollback ==
  /\ pc = "read" /\ op = "restore"
  /\ OurSuccessor
  /\ expected' = svc
  /\ IF AlreadyWarm
     THEN pc' = "over" /\ status' = "FAILED_WARM_RESTORED" /\ UNCHANGED current
     ELSE pc' = "put" /\ current' = svc /\ UNCHANGED status
  /\ UNCHANGED <<cloud, flight, op, pending, activated, count, expired, sent>>

\* Mutant: the canary loop has no deadline.
NoDeadline == FALSE

\* settle() gives up after a minute, the canary loop after five.
HasDeadline == pc \in {"settle", "watch"}

GiveUp == HasDeadline /\ Raise

\* SIGKILL; nothing but the file, the service and a write in flight remain.
Kill ==
  /\ pc \notin {"idle", "over"}
  /\ pc' = "idle"
  /\ UNCHANGED <<cloud, flight, op, status, expected, current, pending, activated, count,
                 expired, sent>>

Forward == Start \/ Check \/ Read \/ Put \/ Settle \/ Watch \/ Prove
Backward == Raise \/ Recover \/ Rollback
Around == (\E w \in flight : Arrive(w)) \/ Reconcile \/ Foreign \/ HealthChanges \/ Expire \/ Kill

Next == Forward \/ Backward \/ Around
Spec == Init /\ [][Next]_vars

\* The attempt keeps going: its calls have time limits, its loops deadlines.
Going == Check \/ Read \/ Put \/ Settle \/ Watch \/ Prove \/ Raise \/ Recover \/ Rollback

FairSpec == Spec /\ WF_vars(Going) /\ WF_vars(GiveUp)

(***************************************************************************)
(* Properties.                                                             *)
(***************************************************************************)

\* What the attempt file says of the traffic stays true of the service as long
\* as nobody else changes it: a write in flight can no longer move the traffic
\* once a restoration, a success or a failure before activation is reported
\* (record, failure_record and the fence of rollback).
OutcomeIsTrue ==
  ~foreign =>
    /\ status = "SUCCEEDED" => svc.want = "new"
    /\ status = "FAILED_WARM_RESTORED" => svc.want = "warm"
    /\ status = "FAILED" /\ ~activated => svc.want = "warm"

\* No write of the attempt, late or not, changes what another actor has set:
\* the version is a precondition, and rollback() compensates only its own
\* successor.
ForeignStands == foreign => SpecOf(svc') = SpecOf(svc)

\* No write is ever repeated, by a rerun or by the restoration after a lost
\* answer ("never replay").
WriteOnce == \A i, j \in 1..Len(sent) : sent[i] = sent[j] => i = j

(***************************************************************************)
(* The inductive invariant behind WriteOnce.                               *)
(***************************************************************************)

\* The writes that an attempt may still send, which it has not sent.
Ahead ==
  [create |-> Kinds, activate |-> Kinds \ {"create"}, promote |-> {"promote", "restore"}, restore |-> {"restore"}]
Unsent(kinds) == \A i \in 1..Len(sent) : sent[i] \notin kinds
IInv ==
  /\ sent \in Seq(Kinds) /\ op \in Kinds /\ WriteOnce
  /\ status = "none" => pc = "idle" /\ sent = <<>>
  /\ pc \in {"check", "read", "put"} => Unsent(Ahead[op])
  /\ pc \notin {"idle", "over"} => Unsent(Ahead[op] \ {op})
  /\ pc = "check" => op = "create"
  /\ pc = "watch" => op = "activate"

\* The one behind ForeignStands: once another actor has changed the service,
\* its version and generation are past all that the attempt has read or sent,
\* and its spec is none that the attempt asks for.
Reads == pc \notin {"idle", "check", "over"} /\ (pc = "recover" => activated)
Past(n, m) == n <= m /\ (foreign => n < m)
Overtaken ==
  /\ DOMAIN svc = {"gen", "rv", "tmpl", "want", "have", "seen"} /\ {svc.gen, svc.rv} \subseteq Nat
  /\ svc.rv >= 1 /\ (foreign => svc.rv > 1) /\ (pc # "idle" => activated = (op # "create"))
  /\ \A w \in flight : w.rv \in Nat /\ Past(w.rv, svc.rv)
  /\ Reads => expected.gen \in Nat /\ Past(expected.gen, svc.gen) /\ (activated => expected.tmpl = "new")
  /\ pc = "put" => /\ {current.gen, current.rv} \subseteq Nat /\ Past(current.gen, svc.gen) /\ Past(current.rv, svc.rv)
                   /\ Goal(op) = [tmpl |-> "new", want |-> Asks[op]] /\ (foreign => SpecOf(svc) # Goal(op))
                   /\ (activated => current.tmpl = "new")
  /\ pc \in {"wait", "settle"} => pending # None
  /\ pending # None => /\ pending.before.gen \in Nat /\ Past(pending.before.gen, svc.gen) /\ pending.to.tmpl = "new"
                       /\ (activated => pending.before.tmpl = "new") /\ (foreign => SpecOf(svc) # pending.to)

\* The one behind OutcomeIsTrue: as long as nobody else changes the service, a
\* write in flight is the one at hand, or what it goes by has passed.
Late == \A w \in flight : w.rv < svc.rv
Fated ==
  /\ status \in {"SUCCEEDED", "FAILED_WARM_RESTORED"} => pc = "over"
  /\ (status = "none" => ~activated) /\ (status = "none" \/ (pending = None /\ pc # "over") => flight = {})
  /\ pc \in {"check", "read", "put", "watch", "prove"} /\ op # "restore" => flight = {}
  /\ op # "restore" \/ pc \in {"read", "put"} => \A w \in flight : w.kind # "restore"
  /\ pc = "wait" => /\ \A w \in flight : w.kind = op => w.rv = current.rv
                    /\ op # "restore" => \A w, v \in flight : w = v /\ w.kind = op
  /\ pc \in {"wait", "settle"} => pending.to.want = Asks[op]
  /\ pc = "settle" => (op # "restore" => flight = {}) /\ (~foreign => Late)
  /\ ~foreign =>
       /\ ~activated => svc.want = "warm" /\ \A w \in flight : w.to.want = "warm"
       /\ pc = "prove" \/ status = "SUCCEEDED" => svc.want = "new" /\ flight = {}
       /\ status = "FAILED_WARM_RESTORED" => svc.want = "warm" /\ Late
=============================================================================
