--------------------------- MODULE OrderSettlement ---------------------------
(***************************************************************************)
(* The settlement observations of submitted orders, and their notices.     *)
(*                                                                         *)
(* order_settlement.track_submission wraps the placement of one order: it  *)
(* prepares a record, places the order, binds the broker's order id to the *)
(* record and polls the broker for a while.  settle_pending, called by it  *)
(* and by POST /settle, queries the broker for every record that has no    *)
(* final observation and appends the answer to the record's numbered       *)
(* slots.  publish_settlement_notices, called by POST /settle and at the   *)
(* end of a cycle, sends one notice for every final record.                *)
(*                                                                         *)
(* Workers are processes of several instances: the process-local run lock  *)
(* gives each one call at a time and says nothing about two of them.       *)
(***************************************************************************)
EXTENDS Naturals, Sequences, FiniteSets

CONSTANTS
  Workers,     \* processes that serve cycles and POST /settle
  Last,        \* attempts are 1..Last, in the order of their digests
  Quantity,    \* ordered quantity
  MaxTries,    \* times observe takes a slot before it gives up (8)
  MaxOrders,   \* max_orders of a batch (100)
  MaxSlots,    \* bound: no "unknown" answer for a record with so many slots
  Faults,      \* a store, broker or notice call may raise, a process may die
  None         \* no attempt

Attempts == 1..Last
Fills    == 0..Quantity

ASSUME BoundsAssumption == /\ {Last, Quantity, MaxTries, MaxOrders, MaxSlots} \subseteq Nat \ {0}
                           /\ None \notin Attempts
                           /\ Faults \in BOOLEAN

\* The resolver's answers: a state of the order with its fills, or "unknown",
\* which has none. A final answer may or may not have its commission yet.
Unknown  == [status |-> "unknown", filled |-> 0, costed |-> FALSE]
Outcomes == [status: {"open"}, filled: Fills, costed: {FALSE}] \cup
            [status: {"final"}, filled: Fills, costed: BOOLEAN] \cup {Unknown}

VARIABLES
  (* The broker and the account journal.                                   *)
  order,      \* order[a]: [state, filled] at the broker
  fate,       \* fate[a]: did the report of attempt a reach the journal?
  (* The durable settlement markers.                                       *)
  prepared,   \* attempts with a "pending" marker
  bound,      \* attempts with a "broker" marker
  history,    \* history[a]: the outcomes in slots observed/1, 2, ...
  notice,     \* notice[a]: no marker, "attempted" or also "acknowledged"
  sent,       \* sent[a]: the outcomes told to the user (history variable)
  (* The workers.                                                          *)
  pc,         \* pc[w]: where worker w is
  subject,    \* subject[w]: the attempt it tracks, or None for /settle
  todo,       \* todo[w]: the records of its batch still to be handled
  answer,     \* answer[w]: the resolver's last answer
  slot,       \* slot[w]: the slot it is about to claim
  tries,      \* tries[w]: slots claimed in vain for this answer
  late,       \* late[w]: its deadline has passed
  rows        \* rows[w]: the summary rows it still has to publish

broker == <<order, fate>>
ledger == <<prepared, bound, history>>
mail   == <<notice, sent>>
batch  == <<todo, answer, slot, tries, late>>
vars   == <<broker, ledger, mail, pc, subject, batch, rows>>

NoOrder == [state |-> "none", filled |-> 0]
NoRows  == [a \in Attempts |-> None]

Tracking  == {"prepare", "place", "bind", "submitted"}
Observing == {"scan", "query", "observe", "claim"}
Telling   == {"publish", "send", "receipt"}

TypeOK ==
  /\ order \in [Attempts -> [state: {"none", "open", "final"}, filled: Fills]]
  /\ fate \in [Attempts -> {"untried", "submitting", "reported", "lost"}]
  /\ prepared \in SUBSET Attempts /\ bound \in SUBSET prepared
  /\ history \in [Attempts -> Seq(Outcomes)]
  /\ notice \in [Attempts -> {"none", "attempted", "acknowledged"}]
  /\ sent \in [Attempts -> Seq(Outcomes)]
  /\ pc \in [Workers -> {"idle"} \cup Tracking \cup Observing \cup Telling]
  /\ subject \in [Workers -> Attempts \cup {None}]
  /\ todo \in [Workers -> SUBSET Attempts]
  /\ answer \in [Workers -> Outcomes]
  /\ slot \in [Workers -> Nat]
  /\ tries \in [Workers -> 0..MaxTries]
  /\ late \in [Workers -> BOOLEAN]
  /\ rows \in [Workers -> [Attempts -> Outcomes \cup {None}]]

Init ==
  /\ order = [a \in Attempts |-> NoOrder]
  /\ fate = [a \in Attempts |-> "untried"]
  /\ prepared = {} /\ bound = {}
  /\ history = [a \in Attempts |-> <<>>]
  /\ notice = [a \in Attempts |-> "none"]
  /\ sent = [a \in Attempts |-> <<>>]
  /\ pc = [w \in Workers |-> "idle"]
  /\ subject = [w \in Workers |-> None]
  /\ todo = [w \in Workers |-> {}]
  /\ answer = [w \in Workers |-> Unknown]
  /\ slot = [w \in Workers |-> 0]
  /\ tries = [w \in Workers |-> 0]
  /\ late = [w \in Workers |-> FALSE]
  /\ rows = [w \in Workers |-> NoRows]

At(w, here)          == pc[w] = here
Goto(w, there)       == pc' = [pc EXCEPT ![w] = there]
Step(w, here, there) == At(w, here) /\ Goto(w, there)

Latest(a)  == IF history[a] = <<>> THEN Unknown ELSE history[a][Len(history[a])]
Settled(a) == Latest(a).status = "final"

\* The locals of a call that is over.
Drop(w) ==
  /\ Goto(w, "idle")
  /\ subject' = [subject EXCEPT ![w] = None]
  /\ todo' = [todo EXCEPT ![w] = {}]
  /\ answer' = [answer EXCEPT ![w] = Unknown]
  /\ slot' = [slot EXCEPT ![w] = 0]
  /\ tries' = [tries EXCEPT ![w] = 0]
  /\ late' = [late EXCEPT ![w] = FALSE]
  /\ rows' = [rows EXCEPT ![w] = NoRows]

\* What becomes of the tracked attempt when the call ends with its report, or
\* without: session.dispatch then never sees it and the attempt stays UNKNOWN.
Fated(w, end) ==
  fate' = IF subject[w] = None THEN fate ELSE [fate EXCEPT ![subject[w]] = end]

\* The call raises: no except clause stands between here and the cycle's end.
Raise(w) == Drop(w) /\ Fated(w, "lost")

(***************************************************************************)
(* track_submission: the venue callback of session.dispatch.               *)
(***************************************************************************)

\* The journal reserves one attempt at a time, none beside an UNKNOWN one.
Fenced == \E a \in Attempts : fate[a] \in {"submitting", "lost"}

Track(w, a) ==
  /\ ~Fenced
  /\ fate[a] = "untried"
  /\ Step(w, "idle", "prepare")
  /\ subject' = [subject EXCEPT ![w] = a]
  /\ fate' = [fate EXCEPT ![a] = "submitting"]
  /\ UNCHANGED <<order, ledger, mail, batch, rows>>

\* Mutant: the order is placed whether or not its record was written.
PrepareMaybe(w) ==
  /\ Step(w, "prepare", "place")
  /\ prepared' \in {prepared, prepared \cup {subject[w]}}
  /\ UNCHANGED <<broker, bound, history, mail, subject, batch, rows>>

Prepare(w) ==
  /\ Step(w, "prepare", "place")
  /\ prepared' = prepared \cup {subject[w]}
  /\ UNCHANGED <<broker, bound, history, mail, subject, batch, rows>>

\* placeOrder, or a local rejection that yields a report without an order id.
PlaceOrder(w) ==
  /\ \/ /\ Step(w, "place", "bind")
        /\ order' = [order EXCEPT ![subject[w]].state = "open"]
     \/ /\ Step(w, "place", "submitted")
        /\ UNCHANGED order
  /\ UNCHANGED <<fate, ledger, mail, subject, batch, rows>>

\* _CaptureOrder.placeOrder binds the order id before anything else.
BindOrder(w) ==
  /\ Step(w, "bind", "submitted")
  /\ bound' = bound \cup {subject[w]}
  /\ UNCHANGED <<broker, prepared, history, mail, subject, batch, rows>>

\* The report is there; a zero wait returns it, a positive one observes first.
Submitted(w) ==
  /\ At(w, "submitted")
  /\ \/ /\ Goto(w, "scan")
        /\ UNCHANGED <<fate, subject, batch, rows>>
     \/ Drop(w) /\ Fated(w, "reported")
  /\ UNCHANGED <<order, ledger, mail>>

(***************************************************************************)
(* settle_pending.                                                         *)
(***************************************************************************)

\* POST /settle.
Settle(w) ==
  /\ Step(w, "idle", "scan")
  /\ UNCHANGED <<broker, ledger, mail, subject, batch, rows>>

\* The records without a final observation. Those without an order id count
\* for the size of the batch and are passed over.
Pending == {a \in prepared : ~Settled(a)}

Scan(w) ==
  /\ At(w, "scan")
  /\ \/ /\ Cardinality(Pending) > MaxOrders
        /\ Raise(w)
     \/ /\ Cardinality(Pending) <= MaxOrders
        /\ Goto(w, "query")
        /\ todo' = [todo EXCEPT ![w] = Pending \cap bound]
        /\ UNCHANGED <<fate, subject, answer, slot, tries, late, rows>>
  /\ UNCHANGED <<order, ledger, mail>>

\* Mutant: the loop never looks at the clock.
Timeless(w) == FALSE

PastDeadline(w) == late[w]

\* The record at hand: batches and summaries go by the attempts' digests.
First(S)    == CHOOSE a \in S : \A b \in S : a <= b
Querying(w) == First(todo[w])

\* Mutant: the resolver's match does not look at the order id.
AnyAnswers(a) ==
  {x \in Outcomes : \E b \in Attempts :
     x.status = order[b].state /\ x.filled = order[b].filled}

\* What the resolver may say of attempt a now.
Answers(a) ==
  {x \in Outcomes : x.status = order[a].state /\ x.filled = order[a].filled} \cup
  (IF Len(history[a]) < MaxSlots THEN {Unknown} ELSE {})

Query(w) ==
  /\ todo[w] # {}
  /\ ~PastDeadline(w)
  /\ Step(w, "query", "observe")
  /\ \E x \in Answers(Querying(w)) : answer' = [answer EXCEPT ![w] = x]
  /\ UNCHANGED <<broker, ledger, mail, subject, todo, slot, tries, late, rows>>

\* observe returns: a tracked order is queried again until its answer is final
\* or the deadline has passed, the records of /settle are queried once.
Observed(w) ==
  /\ Goto(w, "query")
  /\ IF subject[w] # None /\ answer[w].status # "final" /\ ~PastDeadline(w)
     THEN UNCHANGED todo
     ELSE todo' = [todo EXCEPT ![w] = @ \ {Querying(w)}]
  /\ answer' = [answer EXCEPT ![w] = Unknown]
  /\ slot' = [slot EXCEPT ![w] = 0]
  /\ tries' = [tries EXCEPT ![w] = 0]
  /\ UNCHANGED <<fate, subject, late, rows>>

\* settlement_nonmonotonic_fill; Unknown counts as no fill.
Regresses(a, x) == x.filled < Latest(a).filled

\* A final observation stands: a different final answer is a conflict.
Stands(a, x)    == Settled(a)
Conflicts(a, x) == Stands(a, x) /\ x.status = "final" /\ x # Latest(a)
Stale(a, x)     == Stands(a, x) \/ (history[a] # <<>> /\ x = Latest(a))

\* The record is read again after the broker call.
Reread(w) ==
  /\ At(w, "observe")
  /\ LET a == Querying(w)
         x == answer[w]
     IN  \/ /\ Conflicts(a, x) \/ (~Stale(a, x) /\ Regresses(a, x))
            /\ Raise(w)
         \/ /\ Stale(a, x) /\ ~Conflicts(a, x)
            /\ Observed(w)
         \/ /\ ~Stale(a, x) /\ ~Regresses(a, x)
            /\ Goto(w, "claim")
            /\ slot' = [slot EXCEPT ![w] = Len(history[a]) + 1]
            /\ UNCHANGED <<fate, subject, todo, answer, tries, late, rows>>
  /\ UNCHANGED <<order, ledger, mail>>

\* Mutant: the slot is written over, not created.
AnySlot(w) == TRUE

SlotFree(w) == Len(history[Querying(w)]) < slot[w]

\* claim_marker of the next slot; a lost race starts over from the re-read.
ClaimSlot(w) ==
  /\ At(w, "claim")
  /\ LET a == Querying(w)
     IN  \/ /\ SlotFree(w)
            /\ history' = [history EXCEPT ![a] =
                 [n \in DOMAIN @ \cup {slot[w]} |-> IF n = slot[w] THEN answer[w] ELSE @[n]]]
            /\ Observed(w)
         \/ /\ ~SlotFree(w)
            /\ IF tries[w] + 1 = MaxTries
               THEN Raise(w)
               ELSE /\ Goto(w, "observe")
                    /\ tries' = [tries EXCEPT ![w] = @ + 1]
                    /\ UNCHANGED <<fate, subject, todo, answer, slot, late, rows>>
            /\ UNCHANGED history
  /\ UNCHANGED <<order, prepared, bound, mail>>

\* settlement_summary: a row for every record, with its latest observation.
Summary == [a \in Attempts |-> IF a \in prepared THEN Latest(a) ELSE None]

\* The batch is over or out of time: track_submission drops its summary and
\* returns the report, POST /settle publishes it.
EndBatch(w) ==
  /\ At(w, "query")
  /\ todo[w] = {} \/ PastDeadline(w)
  /\ \/ /\ subject[w] # None
        /\ Drop(w) /\ Fated(w, "reported")
     \/ /\ subject[w] = None
        /\ Goto(w, "publish")
        /\ todo' = [todo EXCEPT ![w] = {}]
        /\ late' = [late EXCEPT ![w] = FALSE]
        /\ rows' = [rows EXCEPT ![w] = Summary]
        /\ UNCHANGED <<fate, subject, answer, slot, tries>>
  /\ UNCHANGED <<order, ledger, mail>>

(***************************************************************************)
(* publish_settlement_notices.                                             *)
(***************************************************************************)

\* The end of a cycle publishes the summary as it stands.
EndCycle(w) ==
  /\ Step(w, "idle", "publish")
  /\ rows' = [rows EXCEPT ![w] = Summary]
  /\ UNCHANGED <<broker, ledger, mail, subject, batch>>

RowsLeft(w)   == {a \in Attempts : rows[w][a] # None}
Publishing(w) == First(RowsLeft(w))
DropRow(w)    == rows' = [rows EXCEPT ![w][Publishing(w)] = None]

\* Mutants: every row is told; a notice without a receipt is sent again.
EveryRow(x)    == TRUE
NotReceived(a) == notice[a] # "acknowledged"

\* Only broker-confirmed rows are told, and only by who creates the attempt.
Tellable(x) == x.status = "final"
Untold(a)   == notice[a] = "none"

\* One row: its candidate is persisted, its notice attempt created.
Publish(w) ==
  /\ At(w, "publish")
  /\ RowsLeft(w) # {}
  /\ LET a == Publishing(w)
         told == Tellable(rows[w][a])
     IN  \/ /\ ~told \/ (~Untold(a) /\ notice[a] = "acknowledged")
            /\ DropRow(w)
            /\ UNCHANGED <<notice, fate, pc, subject, batch>>
         \/ /\ told /\ Untold(a)
            /\ Goto(w, "send")
            /\ notice' = [notice EXCEPT ![a] = "attempted"]
            /\ UNCHANGED <<fate, subject, batch, rows>>
         \/ /\ told /\ ~Untold(a) /\ notice[a] = "attempted"
            /\ Raise(w)                        \* delivery_unknown
            /\ UNCHANGED notice
  /\ UNCHANGED <<order, ledger, sent>>

Send(w) ==
  /\ Step(w, "send", "receipt")
  /\ sent' = [sent EXCEPT ![Publishing(w)] = Append(@, rows[w][Publishing(w)])]
  /\ UNCHANGED <<broker, ledger, notice, subject, batch, rows>>

Receipt(w) ==
  /\ Step(w, "receipt", "publish")
  /\ notice' = [notice EXCEPT ![Publishing(w)] = "acknowledged"]
  /\ DropRow(w)
  /\ UNCHANGED <<broker, ledger, sent, subject, batch>>

EndPublish(w) ==
  /\ At(w, "publish")
  /\ RowsLeft(w) = {}
  /\ Drop(w)
  /\ UNCHANGED <<broker, ledger, mail>>

(***************************************************************************)
(* The environment.                                                        *)
(***************************************************************************)

\* A call raises, before or after its write took effect, or the process dies.
Fault(w) ==
  /\ Faults
  /\ ~At(w, "idle")
  /\ Raise(w)
  /\ UNCHANGED <<order, ledger, mail>>

\* The deadline of a batch passes.
Expire(w) ==
  /\ pc[w] \in Observing /\ ~late[w]
  /\ late' = [late EXCEPT ![w] = TRUE]
  /\ UNCHANGED <<broker, ledger, mail, pc, subject, todo, answer, slot, tries, rows>>

Fill(a) ==
  /\ order[a].state = "open"
  /\ \E f \in Fills :
       /\ order[a].filled < f /\ f < Quantity
       /\ order' = [order EXCEPT ![a].filled = f]
  /\ UNCHANGED <<fate, ledger, mail, pc, subject, batch, rows>>

\* Filled, cancelled after any part of it, or rejected.
Close(a) ==
  /\ order[a].state = "open"
  /\ \E f \in Fills :
       /\ order[a].filled <= f
       /\ order' = [order EXCEPT ![a] = [state |-> "final", filled |-> f]]
  /\ UNCHANGED <<fate, ledger, mail, pc, subject, batch, rows>>

Work(w) ==
  \/ Prepare(w) \/ PlaceOrder(w) \/ BindOrder(w) \/ Submitted(w)
  \/ Scan(w) \/ Query(w) \/ Reread(w) \/ ClaimSlot(w) \/ EndBatch(w)
  \/ Publish(w) \/ Send(w) \/ Receipt(w) \/ EndPublish(w)

Next ==
  \/ \E w \in Workers : \/ \E a \in Attempts : Track(w, a)
                        \/ Settle(w) \/ EndCycle(w) \/ Work(w)
                        \/ Fault(w) \/ Expire(w)
  \/ \E a \in Attempts : Fill(a) \/ Close(a)

\* Every call a worker makes comes back, and the clock runs.
Fairness == \A w \in Workers : WF_vars(Work(w)) /\ WF_vars(Expire(w))

Spec     == Init /\ [][Next]_vars
FairSpec == Spec /\ Fairness

(***************************************************************************)
(* Properties.                                                             *)
(***************************************************************************)

\* Nothing is at the broker that the store does not know: after any crash of
\* track_submission the pending record tells that an order may exist.
OrderHasRecord == \A a \in Attempts : order[a] # NoOrder => a \in prepared

\* The user is told of the end of an order at most once, whatever cycles and
\* /settle calls publish it at the same time, and whoever died in between.
ToldOnce == \A a \in Attempts : Len(sent[a]) <= 1

\* What the user is told is what the broker finally did, although it comes
\* from a summary that was read before the claim of the notice.
ToldTruly ==
  \A a \in Attempts : \A n \in DOMAIN sent[a] :
    order[a] = [state |-> "final", filled |-> sent[a][n].filled]

\* Every call comes to its end: no poll outlives its deadline, no re-read goes
\* on for ever against a busy writer.
CallsReturn == \A w \in Workers : ~At(w, "idle") ~> At(w, "idle")

\* "Observation must not change rebalance/trading decisions in this cycle"
\* (order_settlement.py:250): once the report of a submission is there, its
\* observation ends with the report handed to the journal.
ObservationIsPassive ==
  [][\A w \in Workers : subject[w] # None /\ pc[w] \in Observing =>
       fate'[subject[w]] # "lost"]_vars

\* The observations seen as a knowledge of each order that only gets better.
Known(a) ==
  CASE history[a] = <<>>        -> NoOrder
    [] Settled(a)               -> [state |-> "final", filled |-> Latest(a).filled]
    [] OTHER                    -> [state |-> "open", filled |-> Latest(a).filled]

Knowledge == [a \in Attempts |-> Known(a)]

Ledger == INSTANCE SettlementLedger WITH known <- Knowledge

\* Every interleaving of observers keeps the promise of the settlement ledger.
LedgerSpec == Ledger!Spec
=============================================================================
