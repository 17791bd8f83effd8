----------------------- MODULE OrderSettlement_proofs ------------------------
(***************************************************************************)
(* Proofs of the safety properties of OrderSettlement and of its           *)
(* refinement of SettlementLedger, for every number of workers, attempts,  *)
(* fills, slots and retries.                                               *)
(***************************************************************************)
EXTENDS OrderSettlement, SequenceTheorems, WellFoundedInduction, TLAPS

(***************************************************************************)
(* The record at hand is one of the batch: First picks a least number.     *)
(***************************************************************************)

\* A nonempty set has a minimal element in a well-founded relation.
LEMMA Minimal ==
  ASSUME NEW R, NEW N, IsWellFoundedOn(R, N), NEW S, S \subseteq N, S # {}
  PROVE  \E a \in S : \A b \in S : ~(<<b, a>> \in R)
BY WFMin

\* So has a nonempty set of naturals in their order as a relation ...
LEMMA NatMinimal ==
  ASSUME NEW S, S \subseteq Nat, S # {}
  PROVE  \E a \in S : \A b \in S : ~(<<b, a>> \in OpToRel(<, Nat))
BY NatLessThanWellFounded, Minimal, Zenon

\* ... which is the order the code compares digests by.
LEMMA NatOrder ==
  /\ \A x, y \in Nat : y < x \/ x <= y
  /\ \A x, y \in Nat : y < x => <<y, x>> \in OpToRel(<, Nat)
<1>1. \A x, y \in Nat : y < x \/ x <= y
  OBVIOUS
<1>2. \A x, y \in Nat : y < x => <<y, x>> \in OpToRel(<, Nat)
  BY DEF OpToRel
<1> QED BY <1>1, <1>2, Zenon

\* A nonempty set of naturals has a least element.
LEMMA LeastExists ==
  ASSUME NEW S, S \subseteq Nat, S # {}
  PROVE  \E a \in S : \A b \in S : a <= b
<1>1. PICK a \in S : \A b \in S : ~(<<b, a>> \in OpToRel(<, Nat))
  BY NatMinimal
<1>2. \A b \in S : a <= b
  BY <1>1, NatOrder, Zenon
<1> QED BY <1>2

\* The record at hand is a member of its batch.
LEMMA FirstIn ==
  ASSUME NEW S, S \subseteq Nat, S # {}
  PROVE  First(S) \in S
BY LeastExists DEF First

(***************************************************************************)
(* A claimed slot extends the numbered slots of a record by one.           *)
(***************************************************************************)

\* Writing the slot after the last one appends to the history.
LEMMA NextSlot ==
  ASSUME NEW S, NEW h \in Seq(S), NEW x \in S, NEW k, k = Len(h) + 1
  PROVE  [n \in DOMAIN h \cup {k} |-> IF n = k THEN x ELSE h[n]] = Append(h, x)
<1> DEFINE g == [n \in DOMAIN h \cup {k} |-> IF n = k THEN x ELSE h[n]]
<1>1. DOMAIN h \cup {k} = 1..Len(h) + 1
  BY LenProperties
<1>2. g = [n \in 1..Len(h) + 1 |-> IF n = k THEN x ELSE h[n]]
  BY <1>1
<1>3. Append(h, x) \in Seq(S) /\ Len(Append(h, x)) = Len(h) + 1
  BY AppendProperties
<1>4. DOMAIN Append(h, x) = 1..Len(h) + 1
  BY <1>3, LenProperties
<1>5. \A n \in 1..Len(h) + 1 : g[n] = Append(h, x)[n]
  BY <1>2, AppendProperties
<1>6. Append(h, x) = [n \in 1..Len(h) + 1 |-> Append(h, x)[n]]
  BY <1>3, <1>4, LenProperties
<1> QED BY <1>2, <1>5, <1>6

\* What the proofs use of the constants.
LEMMA Numbers ==
  /\ Attempts \subseteq Nat /\ None \notin Attempts
  /\ Fills \subseteq Nat /\ 0 \in Fills
  /\ MaxTries \in Nat \ {0}
BY BoundsAssumption DEF Attempts, Fills

(***************************************************************************)
(* Types, and which locals a worker has where.                             *)
(***************************************************************************)

LocalsOf(w) ==
  /\ tries[w] < MaxTries
  /\ pc[w] \in Tracking => subject[w] \in Attempts
  /\ pc[w] \in {"place", "bind", "submitted"} => subject[w] \in prepared
  /\ pc[w] \in {"observe", "claim"} => todo[w] # {}
  /\ pc[w] = "claim" => slot[w] <= Len(history[Querying(w)]) + 1
  /\ pc[w] \in {"send", "receipt"} => RowsLeft(w) # {}

Locals == \A w \in Workers : LocalsOf(w)

\* The fields of a resolver's answer.
LEMMA OutcomeType ==
  /\ Unknown \in Outcomes
  /\ \A x \in Outcomes : x.status \in {"open", "final", "unknown"} /\ x.filled \in Fills
<1>1. Unknown \in Outcomes
  BY DEF Outcomes
<1>2. Unknown.status = "unknown" /\ Unknown.filled = 0
  BY DEF Unknown
<1>3. ASSUME NEW x \in Outcomes, x # Unknown
      PROVE  x.status \in {"open", "final"} /\ x.filled \in Fills
  BY <1>3 DEF Outcomes
<1> QED BY <1>1, <1>2, <1>3, Numbers

\* The latest observation of a record is an answer.
LEMMA LatestType ==
  ASSUME TypeOK, NEW a \in Attempts
  PROVE  Latest(a) \in Outcomes
<1>1. history[a] \in Seq(Outcomes)
  BY DEF TypeOK
<1>2. history[a] # <<>> => Len(history[a]) \in 1..Len(history[a])
  BY <1>1, EmptySeq, LenProperties
<1> QED BY <1>1, <1>2, ElementOfSeq, OutcomeType DEF Latest

\* A summary has a row or no row for each attempt.
LEMMA SummaryType ==
  ASSUME TypeOK
  PROVE  Summary \in [Attempts -> Outcomes \cup {None}]
BY LatestType DEF Summary

\* The record at hand is an attempt of the batch.
LEMMA QueryingType ==
  ASSUME TypeOK, NEW w \in Workers, todo[w] # {}
  PROVE  Querying(w) \in todo[w] /\ Querying(w) \in Attempts
<1>1. todo[w] \subseteq Attempts
  BY DEF TypeOK
<1> QED BY <1>1, Numbers, FirstIn DEF Querying

\* The row at hand is a row of the summary.
LEMMA PublishingType ==
  ASSUME TypeOK, NEW w \in Workers, RowsLeft(w) # {}
  PROVE  /\ Publishing(w) \in Attempts
         /\ rows[w][Publishing(w)] # None
         /\ rows[w][Publishing(w)] \in Outcomes
<1>1. RowsLeft(w) \subseteq Attempts
  BY DEF RowsLeft
<1>2. Publishing(w) \in RowsLeft(w)
  BY <1>1, Numbers, FirstIn DEF Publishing
<1> QED BY <1>1, <1>2 DEF RowsLeft, TypeOK

\* The workers' half of TypeOK.
WorkersOK ==
  /\ pc \in [Workers -> {"idle"} \cup Tracking \cup Observing \cup Telling]
  /\ subject \in [Workers -> Attempts \cup {None}]
  /\ todo \in [Workers -> SUBSET Attempts]
  /\ answer \in [Workers -> Outcomes]
  /\ slot \in [Workers -> Nat]
  /\ tries \in [Workers -> 0..MaxTries]
  /\ late \in [Workers -> BOOLEAN]
  /\ rows \in [Workers -> [Attempts -> Outcomes \cup {None}]]

FateOK == fate \in [Attempts -> {"untried", "submitting", "reported", "lost"}]

\* The end of a call keeps the types of the workers' locals.
LEMMA DropType ==
  ASSUME TypeOK, NEW w \in Workers, Drop(w)
  PROVE  WorkersOK'
BY OutcomeType, Numbers DEF TypeOK, WorkersOK, Drop, Goto, NoRows

\* The fate of the tracked attempt keeps its type.
LEMMA FatedType ==
  ASSUME TypeOK, NEW w \in Workers, NEW end \in {"reported", "lost"}, Fated(w, end)
  PROVE  FateOK'
BY DEF TypeOK, FateOK, Fated

\* A call that raises keeps both.
LEMMA RaiseType ==
  ASSUME TypeOK, NEW w \in Workers, Raise(w)
  PROVE  WorkersOK' /\ FateOK'
BY DropType, FatedType DEF Raise

\* So does an observation that is over.
LEMMA ObservedType ==
  ASSUME TypeOK, NEW w \in Workers, Observed(w)
  PROVE  WorkersOK' /\ FateOK'
<1>1. pc' \in [Workers -> {"idle"} \cup Tracking \cup Observing \cup Telling]
  BY DEF TypeOK, Observed, Goto, Observing
<1>2. todo' \in [Workers -> SUBSET Attempts]
  <2>1. CASE UNCHANGED todo
    BY <2>1 DEF TypeOK
  <2>2. CASE todo' = [todo EXCEPT ![w] = @ \ {Querying(w)}]
    BY <2>2 DEF TypeOK
  <2> QED BY <2>1, <2>2 DEF Observed
<1>3. answer' \in [Workers -> Outcomes] /\ slot' \in [Workers -> Nat]
  BY OutcomeType DEF TypeOK, Observed
<1>4. tries' \in [Workers -> 0..MaxTries]
  BY Numbers DEF TypeOK, Observed
<1>5. UNCHANGED <<fate, subject, late, rows>>
  BY DEF Observed
<1> QED BY <1>1, <1>2, <1>3, <1>4, <1>5 DEF TypeOK, WorkersOK, FateOK

\* A step that leaves the stores and the broker alone.
LEMMA LocalStepType ==
  ASSUME TypeOK, WorkersOK', FateOK', UNCHANGED <<order, ledger, mail>>
  PROVE  TypeOK'
BY DEF TypeOK, WorkersOK, FateOK, ledger, mail

Appends(w) ==
  LET a == Querying(w)
  IN  /\ pc[w] = "claim" /\ a \in Attempts /\ slot[w] = Len(history[a]) + 1
      /\ history' = [history EXCEPT ![a] = Append(history[a], answer[w])]
      /\ Observed(w) /\ UNCHANGED <<order, prepared, bound, mail>>

\* A claim that wins creates the next slot, one that loses writes nothing.
LEMMA ClaimOutcome ==
  ASSUME TypeOK, Locals, NEW w \in Workers, ClaimSlot(w)
  PROVE  IF SlotFree(w) THEN Appends(w) ELSE UNCHANGED history
<1> DEFINE a == Querying(w)
<1>1. a \in Attempts
  BY QueryingType DEF Locals, LocalsOf, ClaimSlot, At
<1>2. history[a] \in Seq(Outcomes) /\ answer[w] \in Outcomes /\ slot[w] \in Nat
  BY <1>1 DEF TypeOK
<1>3. CASE SlotFree(w)
  <2>1. slot[w] = Len(history[a]) + 1
    BY <1>2, <1>3, LenProperties DEF Locals, LocalsOf, ClaimSlot, At, SlotFree
  <2>2. [n \in DOMAIN history[a] \cup {slot[w]} |->
           IF n = slot[w] THEN answer[w] ELSE history[a][n]]
          = Append(history[a], answer[w])
    BY <1>2, <2>1, NextSlot
  <2> QED BY <1>1, <1>3, <2>1, <2>2 DEF ClaimSlot, At, Appends
<1> QED BY <1>3 DEF ClaimSlot

\* Every step keeps the declared shape.
LEMMA TypeStep ==
  ASSUME TypeOK, Locals, [Next]_vars
  PROVE  TypeOK'
<1>1. ASSUME NEW w \in Workers, NEW a \in Attempts, Track(w, a)
      PROVE  TypeOK'
  BY <1>1 DEF TypeOK, Track, Step, At, Goto, Tracking, ledger, mail, batch
<1>2. ASSUME NEW w \in Workers, Prepare(w)
      PROVE  TypeOK'
  BY <1>2 DEF TypeOK, Locals, LocalsOf, Prepare, Step, At, Goto, Tracking, broker, mail, batch
<1>3. ASSUME NEW w \in Workers, PlaceOrder(w)
      PROVE  TypeOK'
  <2>1. pc' \in [Workers -> {"idle"} \cup Tracking \cup Observing \cup Telling]
    BY <1>3 DEF TypeOK, PlaceOrder, Step, Goto, Tracking
  <2>2. order' \in [Attempts -> [state: {"none", "open", "final"}, filled: Fills]]
    <3>1. CASE order' = [order EXCEPT ![subject[w]].state = "open"]
      BY <3>1 DEF TypeOK
    <3>2. CASE UNCHANGED order
      BY <3>2 DEF TypeOK
    <3> QED BY <1>3, <3>1, <3>2 DEF PlaceOrder
  <2>3. UNCHANGED <<fate, ledger, mail, subject, batch, rows>>
    BY <1>3 DEF PlaceOrder
  <2> QED BY <2>1, <2>2, <2>3 DEF TypeOK, ledger, mail, batch
<1>4. ASSUME NEW w \in Workers, BindOrder(w)
      PROVE  TypeOK'
  BY <1>4 DEF TypeOK, Locals, LocalsOf, BindOrder, Step, At, Goto, Tracking, broker, mail, batch
<1>5. ASSUME NEW w \in Workers, Submitted(w)
      PROVE  TypeOK'
  <2>1. CASE Goto(w, "scan") /\ UNCHANGED <<fate, subject, batch, rows>>
    BY <1>5, <2>1, LocalStepType
    DEF TypeOK, WorkersOK, FateOK, Submitted, Goto, Observing, batch
  <2>2. CASE Drop(w) /\ Fated(w, "reported")
    BY <1>5, <2>2, DropType, FatedType, LocalStepType DEF Submitted
  <2> QED BY <1>5, <2>1, <2>2 DEF Submitted
<1>6. ASSUME NEW w \in Workers, Settle(w)
      PROVE  TypeOK'
  BY <1>6 DEF TypeOK, Settle, Step, At, Goto, Observing, broker, ledger, mail, batch
<1>7. ASSUME NEW w \in Workers, Scan(w)
      PROVE  TypeOK'
  <2>1. CASE Raise(w)
    BY <1>7, <2>1, RaiseType, LocalStepType DEF Scan
  <2>2. CASE /\ Goto(w, "query")
             /\ todo' = [todo EXCEPT ![w] = Pending \cap bound]
             /\ UNCHANGED <<fate, subject, answer, slot, tries, late, rows>>
    <3>1. Pending \cap bound \subseteq Attempts
      BY DEF TypeOK, Pending
    <3> QED BY <1>7, <2>2, <3>1, LocalStepType
        DEF TypeOK, WorkersOK, FateOK, Scan, Goto, Observing
  <2> QED BY <1>7, <2>1, <2>2 DEF Scan
<1>8. ASSUME NEW w \in Workers, Query(w)
      PROVE  TypeOK'
  <2>1. answer' \in [Workers -> Outcomes]
    BY <1>8, OutcomeType DEF TypeOK, Query, Answers
  <2> QED BY <1>8, <2>1
      DEF TypeOK, Query, Step, At, Goto, Observing, broker, ledger, mail
<1>9. ASSUME NEW w \in Workers, Reread(w)
      PROVE  TypeOK'
  <2>1. CASE Raise(w)
    BY <1>9, <2>1, RaiseType, LocalStepType DEF Reread
  <2>2. CASE Observed(w)
    BY <1>9, <2>2, ObservedType, LocalStepType DEF Reread
  <2>3. CASE /\ Goto(w, "claim")
             /\ slot' = [slot EXCEPT ![w] = Len(history[Querying(w)]) + 1]
             /\ UNCHANGED <<fate, subject, todo, answer, tries, late, rows>>
    <3>1. Querying(w) \in Attempts
      BY <1>9, QueryingType DEF Locals, LocalsOf, Reread, At
    <3>2. Len(history[Querying(w)]) + 1 \in Nat
      BY <3>1, LenProperties DEF TypeOK
    <3> QED BY <1>9, <2>3, <3>2, LocalStepType
        DEF TypeOK, WorkersOK, FateOK, Reread, Goto, Observing
  <2> QED BY <1>9, <2>1, <2>2, <2>3 DEF Reread
<1>10. ASSUME NEW w \in Workers, ClaimSlot(w)
       PROVE  TypeOK'
  <2>1. UNCHANGED <<order, prepared, bound, mail>>
    BY <1>10 DEF ClaimSlot
  <2>2. CASE Appends(w)
    <3> DEFINE a == Querying(w)
    <3>1. history[a] \in Seq(Outcomes) /\ answer[w] \in Outcomes
      BY <2>2 DEF TypeOK, Appends
    <3>2. history' \in [Attempts -> Seq(Outcomes)]
      BY <2>2, <3>1, AppendProperties DEF TypeOK, Appends
    <3>3. WorkersOK' /\ FateOK'
      BY <2>2, ObservedType DEF Appends
    <3> QED BY <2>1, <3>2, <3>3 DEF TypeOK, WorkersOK, FateOK, mail
  <2>3. CASE UNCHANGED history /\ Raise(w)
    BY <2>1, <2>3, RaiseType, LocalStepType DEF ledger
  <2>4. CASE /\ UNCHANGED history
             /\ Goto(w, "observe")
             /\ tries[w] + 1 # MaxTries
             /\ tries' = [tries EXCEPT ![w] = @ + 1]
             /\ UNCHANGED <<fate, subject, todo, answer, slot, late, rows>>
    <3>1. tries[w] + 1 \in 0..MaxTries
      BY Numbers DEF TypeOK, Locals, LocalsOf
    <3> QED BY <2>1, <2>4, <3>1, LocalStepType
        DEF TypeOK, WorkersOK, FateOK, Goto, Observing, ledger
  <2> QED BY <1>10, <2>2, <2>3, <2>4, ClaimOutcome DEF ClaimSlot
<1>11. ASSUME NEW w \in Workers, EndBatch(w)
       PROVE  TypeOK'
  <2>1. CASE Drop(w) /\ Fated(w, "reported")
    BY <1>11, <2>1, DropType, FatedType, LocalStepType DEF EndBatch
  <2>2. CASE subject[w] = None
    <3>1. pc' \in [Workers -> {"idle"} \cup Tracking \cup Observing \cup Telling]
      BY <1>11, <2>2 DEF TypeOK, EndBatch, Drop, Goto, Telling
    <3>2. rows' \in [Workers -> [Attempts -> Outcomes \cup {None}]]
      BY <1>11, <2>2, SummaryType DEF TypeOK, EndBatch
    <3> QED BY <1>11, <2>2, <3>1, <3>2, LocalStepType
        DEF TypeOK, WorkersOK, FateOK, EndBatch
  <2> QED BY <1>11, <2>1, <2>2 DEF EndBatch
<1>12. ASSUME NEW w \in Workers, EndCycle(w)
       PROVE  TypeOK'
  BY <1>12, SummaryType
  DEF TypeOK, EndCycle, Step, At, Goto, Telling, broker, ledger, mail, batch
<1>13. ASSUME NEW w \in Workers, Publish(w)
       PROVE  TypeOK'
  <2>1. CASE Raise(w) /\ UNCHANGED notice
    BY <1>13, <2>1, RaiseType, LocalStepType DEF Publish, mail
  <2>2. CASE DropRow(w) /\ UNCHANGED <<notice, fate, pc, subject, batch>>
    BY <1>13, <2>2, LocalStepType
    DEF TypeOK, WorkersOK, FateOK, Publish, DropRow, batch, mail
  <2>3. CASE /\ Goto(w, "send")
             /\ notice' = [notice EXCEPT ![Publishing(w)] = "attempted"]
             /\ UNCHANGED <<fate, subject, batch, rows>>
    BY <1>13, <2>3 DEF TypeOK, Publish, Goto, Telling, batch, ledger
  <2> QED BY <1>13, <2>1, <2>2, <2>3 DEF Publish
<1>14. ASSUME NEW w \in Workers, Send(w)
       PROVE  TypeOK'
  <2> DEFINE a == Publishing(w)
  <2>1. a \in Attempts /\ rows[w][a] \in Outcomes
    BY <1>14, PublishingType DEF Locals, LocalsOf, Send, Step, At
  <2>2. Append(sent[a], rows[w][a]) \in Seq(Outcomes)
    BY <2>1, AppendProperties DEF TypeOK
  <2>3. sent' \in [Attempts -> Seq(Outcomes)]
    BY <1>14, <2>2 DEF TypeOK, Send
  <2> QED BY <1>14, <2>3
      DEF TypeOK, Send, Step, At, Goto, Telling, broker, ledger, batch
<1>15. ASSUME NEW w \in Workers, Receipt(w)
       PROVE  TypeOK'
  BY <1>15
  DEF TypeOK, Receipt, Step, At, Goto, DropRow, Telling, broker, ledger, batch
<1>16. ASSUME NEW w \in Workers, EndPublish(w)
       PROVE  TypeOK'
  BY <1>16, DropType, LocalStepType DEF EndPublish, TypeOK, FateOK, broker
<1>17. ASSUME NEW w \in Workers, Fault(w)
       PROVE  TypeOK'
  BY <1>17, RaiseType, LocalStepType DEF Fault
<1>18. ASSUME NEW w \in Workers, Expire(w)
       PROVE  TypeOK'
  BY <1>18 DEF TypeOK, Expire, broker, ledger, mail
<1>19. ASSUME NEW a \in Attempts, Fill(a) \/ Close(a)
       PROVE  TypeOK'
  <2>1. order' \in [Attempts -> [state: {"none", "open", "final"}, filled: Fills]]
    <3>1. CASE Fill(a)
      BY <3>1 DEF TypeOK, Fill
    <3>2. CASE Close(a)
      BY <3>2 DEF TypeOK, Close
    <3> QED BY <1>19, <3>1, <3>2
  <2> QED BY <1>19, <2>1 DEF TypeOK, Fill, Close, ledger, mail, batch
<1>20. CASE UNCHANGED vars
  BY <1>20 DEF TypeOK, vars, broker, ledger, mail, batch
<1> QED
  BY <1>1, <1>2, <1>3, <1>4, <1>5, <1>6, <1>7, <1>8, <1>9, <1>10, <1>11, <1>12, <1>13,
     <1>14, <1>15, <1>16, <1>17, <1>18, <1>19, <1>20
  DEF Next, Work

\* A call that is over, or an answer that is recorded, leaves the other workers alone.
LEMMA DropLocals ==
  ASSUME TypeOK, NEW w \in Workers, Drop(w)
  PROVE  /\ pc'[w] = "idle" /\ subject'[w] = None /\ tries'[w] = 0 /\ todo'[w] = {}
         /\ \A v \in Workers \ {w} :
              /\ pc'[v] = pc[v] /\ subject'[v] = subject[v] /\ todo'[v] = todo[v]
              /\ answer'[v] = answer[v] /\ slot'[v] = slot[v] /\ tries'[v] = tries[v]
              /\ rows'[v] = rows[v]
BY DEF TypeOK, Drop, Goto

\* An observation that is over moves its worker on, and no other.
LEMMA ObservedLocals ==
  ASSUME TypeOK, NEW w \in Workers, Observed(w)
  PROVE  /\ pc'[w] = "query" /\ tries'[w] = 0
         /\ subject' = subject /\ rows' = rows /\ fate' = fate
         /\ \A v \in Workers \ {w} :
              /\ pc'[v] = pc[v] /\ todo'[v] = todo[v] /\ answer'[v] = answer[v]
              /\ slot'[v] = slot[v] /\ tries'[v] = tries[v]
BY DEF TypeOK, Observed, Goto

(***************************************************************************)
(* What a step leaves alone, and what it can only add to.                  *)
(***************************************************************************)

Acts(w) ==
  \/ \E a \in Attempts : Track(w, a)
  \/ Settle(w) \/ EndCycle(w) \/ Work(w) \/ Fault(w) \/ Expire(w)

Market == \E a \in Attempts : Fill(a) \/ Close(a)

Rests(v) ==
  /\ pc'[v] = pc[v] /\ subject'[v] = subject[v] /\ todo'[v] = todo[v]
  /\ answer'[v] = answer[v] /\ slot'[v] = slot[v] /\ tries'[v] = tries[v]
  /\ rows'[v] = rows[v]

\* A step is a worker's or the broker's.
LEMMA Actors ==
  ASSUME [Next]_vars
  PROVE  (\E w \in Workers : Acts(w)) \/ Market \/ UNCHANGED vars
BY DEF Next, Acts, Market

\* A worker's step does not touch the locals of another.
LEMMA OthersRest ==
  ASSUME TypeOK, NEW w \in Workers, Acts(w)
  PROVE  \A v \in Workers \ {w} : Rests(v)
<1>1. ASSUME \E a \in Attempts : Track(w, a)
      PROVE  \A v \in Workers \ {w} : Rests(v)
  BY <1>1 DEF TypeOK, Track, Step, Goto, batch, Rests
<1>2. ASSUME Prepare(w) \/ PlaceOrder(w) \/ BindOrder(w) \/ Settle(w)
      PROVE  \A v \in Workers \ {w} : Rests(v)
  BY <1>2 DEF TypeOK, Prepare, PlaceOrder, BindOrder, Settle, Step, Goto, batch, Rests
<1>3. ASSUME Drop(w) \/ Raise(w)
      PROVE  \A v \in Workers \ {w} : Rests(v)
  BY <1>3, DropLocals DEF Raise, Rests
<1>4. ASSUME Submitted(w)
      PROVE  \A v \in Workers \ {w} : Rests(v)
  BY <1>3, <1>4 DEF TypeOK, Submitted, Goto, batch, Rests
<1>5. ASSUME Scan(w) \/ Query(w)
      PROVE  \A v \in Workers \ {w} : Rests(v)
  BY <1>3, <1>5 DEF TypeOK, Scan, Query, Step, Goto, Rests
<1>6. ASSUME Observed(w)
      PROVE  \A v \in Workers \ {w} : Rests(v)
  BY <1>6, ObservedLocals DEF Rests
<1>7. ASSUME Reread(w)
      PROVE  \A v \in Workers \ {w} : Rests(v)
  BY <1>3, <1>6, <1>7 DEF TypeOK, Reread, Goto, Rests
<1>8. ASSUME ClaimSlot(w)
      PROVE  \A v \in Workers \ {w} : Rests(v)
  BY <1>3, <1>6, <1>8 DEF TypeOK, ClaimSlot, Goto, Rests
<1>9. ASSUME EndBatch(w) \/ EndCycle(w)
      PROVE  \A v \in Workers \ {w} : Rests(v)
  BY <1>3, <1>9 DEF TypeOK, EndBatch, EndCycle, Step, Goto, batch, Rests
<1>10. ASSUME Publish(w) \/ EndPublish(w)
       PROVE  \A v \in Workers \ {w} : Rests(v)
  BY <1>3, <1>10 DEF TypeOK, Publish, EndPublish, DropRow, Goto, batch, Rests
<1>11. ASSUME Send(w) \/ Receipt(w)
       PROVE  \A v \in Workers \ {w} : Rests(v)
  BY <1>11 DEF TypeOK, Send, Receipt, DropRow, Step, Goto, batch, Rests
<1>12. ASSUME Fault(w) \/ Expire(w)
       PROVE  \A v \in Workers \ {w} : Rests(v)
  BY <1>3, <1>12 DEF TypeOK, Fault, Expire, Rests
<1> QED
  BY <1>1, <1>2, <1>4, <1>5, <1>7, <1>8, <1>9, <1>10, <1>11, <1>12 DEF Acts, Work

\* Only Prepare writes records, and it adds one.
LEMMA RecordsGrow ==
  ASSUME [Next]_vars
  PROVE  prepared \subseteq prepared'
BY DEF Next, Work, vars, ledger, Track, Prepare, PlaceOrder, BindOrder, Submitted, Settle,
   Scan, Query, Reread, ClaimSlot, EndBatch, EndCycle, Publish, Send, Receipt, EndPublish,
   Fault, Expire, Fill, Close

\* Only a claim that wins extends a history.
LEMMA HistoryStep ==
  ASSUME TypeOK, Locals, [Next]_vars
  PROVE  UNCHANGED history \/ \E w \in Workers : Appends(w)
<1>1. ASSUME NEW w \in Workers, ClaimSlot(w)
      PROVE  UNCHANGED history \/ Appends(w)
  BY <1>1, ClaimOutcome
<1>2. CASE ~\E w \in Workers : ClaimSlot(w)
  BY <1>2 DEF Next, Work, vars, ledger, Track, Prepare, PlaceOrder, BindOrder, Submitted,
     Settle, Scan, Query, Reread, EndBatch, EndCycle, Publish, Send, Receipt, EndPublish,
     Fault, Expire, Fill, Close
<1> QED BY <1>1, <1>2

\* No step takes an observation back.
LEMMA HistoryGrows ==
  ASSUME TypeOK, Locals, [Next]_vars, NEW a \in Attempts
  PROVE  Len(history[a]) <= Len(history'[a])
<1>1. ASSUME NEW w \in Workers, Appends(w)
      PROVE  Len(history[a]) <= Len(history'[a])
  <2>1. history[a] \in Seq(Outcomes) /\ answer[w] \in Outcomes
    BY DEF TypeOK
  <2>2. history'[a] = history[a] \/ history'[a] = Append(history[a], answer[w])
    BY <1>1 DEF TypeOK, Appends
  <2> QED BY <2>1, <2>2, AppendProperties, LenProperties
<1>2. CASE UNCHANGED history
  BY <1>2, LenProperties DEF TypeOK
<1> QED BY <1>1, <1>2, HistoryStep

\* What another worker has, and the records it relies on, stay.
LEMMA RestingLocals ==
  ASSUME TypeOK, Locals, [Next]_vars, NEW v \in Workers, Rests(v)
  PROVE  LocalsOf(v)'
<1>1. Querying(v)' = Querying(v) /\ RowsLeft(v)' = RowsLeft(v)
  BY DEF Rests, Querying, RowsLeft
<1>2. ASSUME pc[v] = "claim"
      PROVE  slot[v] <= Len(history'[Querying(v)]) + 1
  <2>1. Querying(v) \in Attempts
    BY <1>2, QueryingType DEF Locals, LocalsOf
  <2>2. Len(history[Querying(v)]) <= Len(history'[Querying(v)])
    BY <2>1, HistoryGrows
  <2>3. history[Querying(v)] \in Seq(Outcomes) /\ history'[Querying(v)] \in Seq(Outcomes)
    BY <2>1, TypeStep DEF TypeOK
  <2>4. slot[v] \in Nat /\ slot[v] <= Len(history[Querying(v)]) + 1
    BY <1>2 DEF TypeOK, Locals, LocalsOf
  <2> QED BY <2>2, <2>3, <2>4, LenProperties
<1> QED BY <1>1, <1>2, RecordsGrow DEF Rests, Locals, LocalsOf

\* Every step keeps the locals its workers need.
LEMMA LocalsStep ==
  ASSUME TypeOK, Locals, [Next]_vars
  PROVE  Locals'
<1>1. ASSUME NEW w \in Workers, Acts(w), LocalsOf(w)'
      PROVE  Locals'
  <2>1. \A v \in Workers \ {w} : LocalsOf(v)'
    BY <1>1, OthersRest, RestingLocals
  <2> QED BY <1>1, <2>1 DEF Locals
<1>2. ASSUME Market \/ UNCHANGED vars
      PROVE  Locals'
  <2>1. \A v \in Workers : Rests(v)
    BY <1>2 DEF Market, Fill, Close, vars, batch, Rests
  <2> QED BY <2>1, RestingLocals DEF Locals
<1>3. ASSUME NEW w \in Workers, Drop(w) \/ Raise(w)
      PROVE  LocalsOf(w)'
  <2>1. pc'[w] = "idle" /\ tries'[w] = 0
    BY <1>3, DropLocals DEF Raise
  <2> QED BY <2>1, Numbers DEF LocalsOf, Tracking
<1>4. ASSUME NEW w \in Workers, Observed(w)
      PROVE  LocalsOf(w)'
  <2>1. pc'[w] = "query" /\ tries'[w] = 0
    BY <1>4, ObservedLocals
  <2> QED BY <2>1, Numbers DEF LocalsOf, Tracking
<1>5. ASSUME NEW w \in Workers, NEW a \in Attempts, Track(w, a)
      PROVE  LocalsOf(w)'
  BY <1>5 DEF TypeOK, Locals, LocalsOf, Track, Step, Goto, batch, Tracking
<1>6. ASSUME NEW w \in Workers, Prepare(w) \/ PlaceOrder(w) \/ BindOrder(w)
      PROVE  LocalsOf(w)'
  BY <1>6 DEF TypeOK, Locals, LocalsOf, Prepare, PlaceOrder, BindOrder, Step, At, Goto,
     batch, ledger, Tracking
<1>7. ASSUME NEW w \in Workers, Submitted(w) \/ Settle(w) \/ Scan(w)
      PROVE  LocalsOf(w)'
  BY <1>3, <1>7 DEF TypeOK, Locals, LocalsOf, Submitted, Settle, Scan, Step, At, Goto,
     batch, ledger, Tracking
<1>8. ASSUME NEW w \in Workers, Query(w)
      PROVE  LocalsOf(w)'
  BY <1>8 DEF TypeOK, Locals, LocalsOf, Query, Step, At, Goto, Tracking
<1>9. ASSUME NEW w \in Workers, Reread(w)
      PROVE  LocalsOf(w)'
  <2>1. CASE /\ Goto(w, "claim")
             /\ slot' = [slot EXCEPT ![w] = Len(history[Querying(w)]) + 1]
             /\ UNCHANGED <<fate, subject, todo, answer, tries, late, rows>>
    <3>1. Querying(w)' = Querying(w) /\ history' = history
      BY <1>9, <2>1 DEF Reread, Querying, ledger
    <3>2. Len(history[Querying(w)]) \in Nat
      <4>1. Querying(w) \in Attempts
        BY <1>9, QueryingType DEF Locals, LocalsOf, Reread, At
      <4> QED BY <4>1, LenProperties DEF TypeOK
    <3>3. pc'[w] = "claim" /\ slot'[w] = Len(history[Querying(w)]) + 1 /\ tries' = tries
      BY <2>1 DEF TypeOK, Goto
    <3>4. tries[w] < MaxTries /\ todo'[w] # {}
      BY <1>9, <2>1 DEF Locals, LocalsOf, Reread, At
    <3> QED BY <3>1, <3>2, <3>3, <3>4 DEF LocalsOf, Tracking
  <2> QED BY <1>3, <1>4, <1>9, <2>1 DEF Reread
<1>10. ASSUME NEW w \in Workers, ClaimSlot(w)
       PROVE  LocalsOf(w)'
  <2>1. CASE /\ Goto(w, "observe")
             /\ tries[w] + 1 # MaxTries
             /\ tries' = [tries EXCEPT ![w] = @ + 1]
             /\ UNCHANGED <<fate, subject, todo, answer, slot, late, rows>>
    <3>1. pc'[w] = "observe" /\ tries'[w] = tries[w] + 1 /\ todo'[w] = todo[w]
      BY <2>1 DEF TypeOK, Goto
    <3>2. todo[w] # {} /\ tries[w] < MaxTries /\ tries[w] \in Nat
      BY <1>10, Numbers DEF TypeOK, Locals, LocalsOf, ClaimSlot, At
    <3> QED BY <2>1, <3>1, <3>2, Numbers DEF LocalsOf, Tracking
  <2> QED BY <1>3, <1>4, <1>10, <2>1 DEF ClaimSlot
<1>11. ASSUME NEW w \in Workers, EndBatch(w) \/ EndCycle(w) \/ EndPublish(w)
       PROVE  LocalsOf(w)'
  BY <1>3, <1>11
  DEF TypeOK, Locals, LocalsOf, EndBatch, EndCycle, EndPublish, Step, Goto, batch, Tracking
<1>12. ASSUME NEW w \in Workers, Publish(w)
       PROVE  LocalsOf(w)'
  <2>1. CASE /\ Goto(w, "send")
             /\ UNCHANGED <<fate, subject, batch, rows>>
    <3>1. RowsLeft(w)' # {}
      BY <1>12, <2>1 DEF Publish, RowsLeft
    <3> QED BY <2>1, <3>1 DEF TypeOK, Locals, LocalsOf, Goto, batch, Tracking
  <2>2. CASE UNCHANGED <<pc, subject, batch>>
    BY <1>12, <2>2 DEF TypeOK, Locals, LocalsOf, Publish, At, batch, Tracking
  <2> QED BY <1>3, <1>12, <2>1, <2>2 DEF Publish
<1>13. ASSUME NEW w \in Workers, Send(w)
       PROVE  LocalsOf(w)'
  <2>1. RowsLeft(w)' = RowsLeft(w) /\ RowsLeft(w) # {}
    BY <1>13 DEF Locals, LocalsOf, Send, Step, At, RowsLeft
  <2> QED BY <1>13, <2>1 DEF TypeOK, Locals, LocalsOf, Send, Step, Goto, batch, Tracking
<1>14. ASSUME NEW w \in Workers, Receipt(w)
       PROVE  LocalsOf(w)'
  BY <1>14 DEF TypeOK, Locals, LocalsOf, Receipt, Step, Goto, batch, Tracking
<1>15. ASSUME NEW w \in Workers, Fault(w)
       PROVE  LocalsOf(w)'
  BY <1>3, <1>15 DEF Fault
<1>16. ASSUME NEW w \in Workers, Expire(w)
       PROVE  LocalsOf(w)'
  BY <1>16 DEF Locals, LocalsOf, Expire, ledger, Tracking, Observing, Querying
<1> QED
  BY <1>1, <1>2, <1>5, <1>6, <1>7, <1>8, <1>9, <1>10, <1>11, <1>12, <1>13, <1>14, <1>15,
     <1>16, Actors DEF Acts, Work

\* Orders, stores and workers always have the declared shape, and every worker
\* has the locals its place in the code needs: whatever the interleaving of
\* tracking, settling and publishing calls, and whoever dies.
THEOREM TypeCorrectness == Spec => [](TypeOK /\ Locals)
<1>1. Init => TypeOK /\ Locals
  <2>1. Init => TypeOK
    <3>1. <<>> \in Seq(Outcomes)
      OBVIOUS
    <3> QED BY <3>1, OutcomeType, Numbers DEF Init, TypeOK, NoOrder, NoRows
  <2>2. Init => Locals
    BY Numbers DEF Init, Locals, LocalsOf, Tracking
  <2> QED BY <2>1, <2>2
<1>2. TypeOK /\ Locals /\ [Next]_vars => (TypeOK /\ Locals)'
  BY TypeStep, LocalsStep
<1> QED BY <1>1, <1>2, PTL DEF Spec

(***************************************************************************)
(* One worker submits an attempt, from its record to its report.           *)
(***************************************************************************)

Submission(w) ==
  /\ subject[w] # None => fate[subject[w]] = "submitting"
  /\ pc[w] \in {"prepare", "place"} => order[subject[w]] = NoOrder

Submissions ==
  /\ \A w \in Workers : Submission(w)
  /\ \A v, w \in Workers : subject[v] = subject[w] /\ subject[w] # None => v = w
  /\ \A a \in Attempts : fate[a] = "untried" => order[a] = NoOrder
  /\ OrderHasRecord

Ends(w) ==
  /\ Drop(w)
  /\ Fated(w, "reported") \/ Fated(w, "lost") \/ UNCHANGED fate
  /\ UNCHANGED order

Bystands ==
  /\ UNCHANGED <<order, fate, subject>>
  /\ \A v \in Workers : pc'[v] \in {"prepare", "place"} => pc'[v] = pc[v]

\* The steps as the submission of an attempt sees them.
LEMMA SubmissionSteps ==
  ASSUME TypeOK, [Next]_vars
  PROVE  \/ \E w \in Workers, a \in Attempts : Track(w, a)
         \/ \E w \in Workers : Prepare(w) \/ PlaceOrder(w) \/ Ends(w)
         \/ Market \/ Bystands
<1>1. CASE UNCHANGED vars
  BY <1>1 DEF vars, broker, Bystands
<1>2. ASSUME NEW w \in Workers, BindOrder(w) \/ Settle(w) \/ Query(w) \/ EndCycle(w)
                                \/ Send(w) \/ Receipt(w)
      PROVE  Bystands
  BY <1>2 DEF TypeOK, BindOrder, Settle, Query, EndCycle, Send, Receipt, Step, Goto,
     broker, Bystands
<1>3. ASSUME NEW w \in Workers, Expire(w)
      PROVE  Bystands
  BY <1>3 DEF Expire, broker, Bystands
<1>4. ASSUME NEW w \in Workers, Raise(w), UNCHANGED order
      PROVE  Ends(w)
  BY <1>4 DEF Raise, Ends
<1>5. ASSUME NEW w \in Workers, Observed(w), UNCHANGED order
      PROVE  Bystands
  BY <1>5 DEF TypeOK, Observed, Goto, Bystands
<1>6. ASSUME NEW w \in Workers, Submitted(w) \/ Scan(w)
      PROVE  Ends(w) \/ Bystands
  BY <1>4, <1>6 DEF TypeOK, Submitted, Scan, Goto, Ends, Bystands
<1>7. ASSUME NEW w \in Workers, Reread(w) \/ ClaimSlot(w)
      PROVE  Ends(w) \/ Bystands
  BY <1>4, <1>5, <1>7 DEF TypeOK, Reread, ClaimSlot, Goto, Bystands
<1>8. ASSUME NEW w \in Workers, EndBatch(w)
      PROVE  Ends(w) \/ Bystands
  BY <1>8 DEF TypeOK, EndBatch, Goto, Ends, Bystands
<1>9. ASSUME NEW w \in Workers, Publish(w)
      PROVE  Ends(w) \/ Bystands
  BY <1>4, <1>9 DEF TypeOK, Publish, Goto, Bystands
<1>10. ASSUME NEW w \in Workers, EndPublish(w) \/ Fault(w)
       PROVE  Ends(w)
  BY <1>4, <1>10 DEF EndPublish, Fault, broker, Ends
<1> QED
  BY <1>1, <1>2, <1>3, <1>6, <1>7, <1>8, <1>9, <1>10 DEF Next, Work, Market

\* Every step keeps one submitter per attempt, and the record before the order.
LEMMA SubmissionsStep ==
  ASSUME TypeOK, Locals, Submissions, [Next]_vars
  PROVE  Submissions'
<1>1. ASSUME NEW w \in Workers, NEW a \in Attempts, Track(w, a)
      PROVE  Submissions'
  <2>1. UNCHANGED <<order, prepared>> /\ fate' = [fate EXCEPT ![a] = "submitting"]
    BY <1>1 DEF Track, ledger
  <2>2. order[a] = NoOrder /\ \A v \in Workers : subject[v] # a
    BY <1>1, Numbers DEF Submissions, Submission, Track
  <2>3. \A v \in Workers : Submission(v)'
    BY <1>1, <2>1, <2>2
    DEF TypeOK, Submissions, Submission, Track, Step, Goto
  <2>4. \A v, u \in Workers :
          subject'[v] = subject'[u] /\ subject'[u] # None => v = u
    BY <1>1, <2>2 DEF TypeOK, Submissions, Track
  <2> QED BY <2>1, <2>2, <2>3, <2>4 DEF TypeOK, Submissions, OrderHasRecord
<1>2. ASSUME NEW w \in Workers, Prepare(w)
      PROVE  Submissions'
  <2>1. UNCHANGED <<order, fate, subject>> /\ prepared \subseteq prepared'
    BY <1>2 DEF Prepare, broker
  <2>2. \A v \in Workers : Submission(v)'
    BY <1>2, <2>1 DEF TypeOK, Submissions, Submission, Prepare, Step, At, Goto
  <2> QED BY <2>1, <2>2 DEF Submissions, OrderHasRecord
<1>3. ASSUME NEW w \in Workers, PlaceOrder(w)
      PROVE  Submissions'
  <2>1. /\ UNCHANGED <<fate, subject, prepared>>
        /\ subject[w] \in Attempts /\ subject[w] \in prepared
        /\ fate[subject[w]] = "submitting"
    BY <1>3, Numbers
    DEF Locals, LocalsOf, Submissions, Submission, PlaceOrder, Step, At, Tracking, ledger
  <2>2. \A a \in Attempts : a # subject[w] => order'[a] = order[a]
    BY <1>3 DEF TypeOK, PlaceOrder
  <2>3. \A v \in Workers : pc'[v] \in {"prepare", "place"} => v # w /\ pc'[v] = pc[v]
    BY <1>3 DEF TypeOK, PlaceOrder, Step, Goto
  <2>4. \A v \in Workers \ {w} : pc[v] \in Tracking =>
          subject[v] \in Attempts /\ subject[v] # subject[w]
    BY <2>1, Numbers DEF Locals, LocalsOf, Submissions
  <2>5. \A v \in Workers : Submission(v)'
    BY <2>1, <2>2, <2>3, <2>4 DEF Submissions, Submission, Tracking
  <2> QED BY <2>1, <2>2, <2>5 DEF Submissions, OrderHasRecord
<1>4. ASSUME NEW w \in Workers, Ends(w)
      PROVE  Submissions'
  <2>1. UNCHANGED order /\ prepared \subseteq prepared'
    BY <1>4, RecordsGrow DEF Ends
  <2>2. pc'[w] = "idle" /\ subject'[w] = None
        /\ \A v \in Workers \ {w} : pc'[v] = pc[v] /\ subject'[v] = subject[v]
    BY <1>4, DropLocals DEF Ends
  <2>3. \A a \in Attempts : a # subject[w] => fate'[a] = fate[a]
    BY <1>4 DEF TypeOK, Ends, Fated
  <2>4. \A a \in Attempts : fate'[a] = "untried" => fate[a] = "untried"
    BY <1>4 DEF TypeOK, Ends, Fated
  <2>5. \A v \in Workers : Submission(v)'
    <3> SUFFICES ASSUME NEW v \in Workers PROVE Submission(v)'
      OBVIOUS
    <3>1. CASE v = w
      BY <2>2, <3>1 DEF Submission
    <3>2. CASE v # w
      <4>1. pc'[v] = pc[v] /\ subject'[v] = subject[v] /\ Submission(v)
        BY <2>2, <3>2 DEF Submissions
      <4>2. subject[v] # None => fate'[subject[v]] = fate[subject[v]]
        BY <2>3, <3>2 DEF TypeOK, Submissions
      <4> QED BY <2>1, <4>1, <4>2 DEF Submission
    <3> QED BY <3>1, <3>2
  <2>6. \A v, u \in Workers :
          subject'[v] = subject'[u] /\ subject'[u] # None => v = u
    BY <2>2 DEF Submissions
  <2> QED BY <2>1, <2>4, <2>5, <2>6 DEF Submissions, OrderHasRecord
<1>5. ASSUME NEW a \in Attempts, Fill(a) \/ Close(a)
      PROVE  Submissions'
  <2>1. UNCHANGED <<fate, pc, subject, prepared>>
    BY <1>5 DEF Fill, Close, ledger
  <2>2. order[a].state = "open" /\ \A b \in Attempts : b # a => order'[b] = order[b]
    BY <1>5 DEF TypeOK, Fill, Close
  <2>3. order[a] # NoOrder
    BY <2>2 DEF NoOrder
  <2>4. \A v \in Workers : pc[v] \in {"prepare", "place"} =>
          subject[v] \in Attempts /\ subject[v] # a
    BY <2>3 DEF Locals, LocalsOf, Submissions, Submission, Tracking
  <2>5. \A v \in Workers : Submission(v)'
    BY <2>1, <2>2, <2>4 DEF Submissions, Submission
  <2> QED BY <2>1, <2>2, <2>3, <2>5 DEF Submissions, OrderHasRecord
<1>6. CASE Bystands
  <2>1. prepared \subseteq prepared'
    BY RecordsGrow
  <2> QED BY <1>6, <2>1 DEF Bystands, Submissions, Submission, OrderHasRecord
<1> QED
  BY <1>1, <1>2, <1>3, <1>4, <1>5, <1>6, SubmissionSteps DEF Market

\* No order is at the broker without its record: a crash anywhere in
\* track_submission leaves the pending record that tells of it.
THEOREM RecordFirst == Spec => []OrderHasRecord
<1>1. Init => Submissions
  BY Numbers DEF Init, Submissions, Submission, OrderHasRecord
<1>2. TypeOK /\ Locals /\ Submissions /\ [Next]_vars => Submissions'
  BY SubmissionsStep
<1>3. Submissions => OrderHasRecord
  BY DEF Submissions
<1> QED BY <1>1, <1>2, <1>3, TypeCorrectness, PTL DEF Spec

(***************************************************************************)
(* What a history, an answer or a row says of an order stays true of it.   *)
(***************************************************************************)

Agrees(o, x) ==
  /\ x.filled <= o.filled
  /\ x.status = "final" => o = [state |-> "final", filled |-> x.filled]

\* An order only fills, and its final state is final.
LEMMA OrdersGrow ==
  ASSUME TypeOK, Locals, Submissions, [Next]_vars, NEW a \in Attempts
  PROVE  /\ order[a].filled <= order'[a].filled
         /\ order[a].state = "final" => order'[a] = order[a]
<1>1. order[a].filled \in Nat
  BY Numbers DEF TypeOK
<1>2. ASSUME NEW w \in Workers, PlaceOrder(w)
      PROVE  /\ order[a].filled <= order'[a].filled
             /\ order[a].state = "final" => order'[a] = order[a]
  <2>1. subject[w] \in Attempts /\ order[subject[w]] = NoOrder
    BY <1>2 DEF Locals, LocalsOf, Submissions, Submission, PlaceOrder, Step, At, Tracking
  <2>2. order'[a].filled = order[a].filled /\ (a # subject[w] => order'[a] = order[a])
    <3>1. CASE order' = [order EXCEPT ![subject[w]].state = "open"]
      BY <3>1 DEF TypeOK
    <3>2. CASE UNCHANGED order
      BY <3>2
    <3> QED BY <1>2, <3>1, <3>2 DEF PlaceOrder
  <2> QED BY <1>1, <2>1, <2>2 DEF NoOrder
<1>3. ASSUME NEW b \in Attempts, Fill(b) \/ Close(b)
      PROVE  /\ order[a].filled <= order'[a].filled
             /\ order[a].state = "final" => order'[a] = order[a]
  <2>1. order[b].state = "open" /\ (a # b => order'[a] = order[a])
    BY <1>3 DEF TypeOK, Fill, Close
  <2>2. order[b].filled <= order'[b].filled
    <3>1. CASE Fill(b)
      <4>1. PICK f \in Fills : order[b].filled < f
                               /\ order' = [order EXCEPT ![b].filled = f]
        BY <3>1 DEF Fill
      <4>2. order'[b].filled = f
        BY <4>1 DEF TypeOK
      <4> QED BY <4>1, <4>2, Numbers DEF TypeOK
    <3>2. CASE Close(b)
      BY <3>2, Numbers DEF TypeOK, Close
    <3> QED BY <1>3, <3>1, <3>2
  <2> QED BY <1>1, <2>1, <2>2
<1>4. CASE UNCHANGED order
  BY <1>1, <1>4
<1>5. \/ UNCHANGED order \/ Market \/ \E w \in Workers : PlaceOrder(w)
  BY SubmissionSteps DEF Track, Prepare, broker, Ends, Bystands
<1> QED BY <1>2, <1>3, <1>4, <1>5 DEF Market

\* What agrees with an order agrees with it for good.
LEMMA AgreesForGood ==
  ASSUME TypeOK, Locals, Submissions, [Next]_vars,
         NEW a \in Attempts, NEW x \in Outcomes, Agrees(order[a], x)
  PROVE  Agrees(order'[a], x)
<1>1. /\ order[a].filled \in Nat /\ order'[a].filled \in Nat /\ x.filled \in Nat
  BY TypeStep, Numbers, OutcomeType DEF TypeOK
<1>2. x.status = "final" => order[a].state = "final"
  BY DEF Agrees
<1> QED BY <1>1, <1>2, OrdersGrow DEF Agrees

\* Knowing nothing agrees with every order.
LEMMA UnknownAgrees ==
  ASSUME TypeOK, NEW a \in Attempts
  PROVE  Agrees(order[a], Unknown)
<1>1. order[a].filled \in Nat
  BY Numbers DEF TypeOK
<1>2. Unknown.filled = 0 /\ Unknown.status # "final"
  BY DEF Unknown
<1> QED BY <1>1, <1>2 DEF Agrees

TrueAnswer(w) ==
  pc[w] \in {"observe", "claim"} => Agrees(order[Querying(w)], answer[w])

TrueRows(w) ==
  \A a \in Attempts : rows[w][a] # None => Agrees(order[a], rows[w][a])

TrueHistory ==
  \A a \in Attempts : \A n \in 1..Len(history[a]) : Agrees(order[a], history[a][n])

Truth ==
  /\ TrueHistory
  /\ \A w \in Workers : TrueAnswer(w) /\ TrueRows(w)

\* The latest observation agrees with the order.
LEMMA LatestAgrees ==
  ASSUME TypeOK, TrueHistory, NEW a \in Attempts
  PROVE  Agrees(order[a], Latest(a))
<1>1. history[a] \in Seq(Outcomes)
  BY DEF TypeOK
<1>2. history[a] # <<>> => Len(history[a]) \in 1..Len(history[a])
  BY <1>1, EmptySeq, LenProperties
<1> QED BY <1>1, <1>2, UnknownAgrees DEF TrueHistory, Latest

\* Every step keeps the histories true.
LEMMA TrueHistoryStep ==
  ASSUME TypeOK, Locals, Submissions, Truth, [Next]_vars
  PROVE  TrueHistory'
<1>1. ASSUME NEW a \in Attempts, NEW n \in 1..Len(history[a])
      PROVE  Agrees(order'[a], history[a][n])
  <2>1. history[a][n] \in Outcomes
    BY ElementOfSeq DEF TypeOK
  <2>2. Agrees(order[a], history[a][n])
    BY DEF Truth, TrueHistory
  <2> QED BY <2>1, <2>2, AgreesForGood
<1>2. CASE UNCHANGED history
  BY <1>1, <1>2 DEF TrueHistory
<1>3. ASSUME NEW w \in Workers, Appends(w)
      PROVE  TrueHistory'
  <2> DEFINE q == Querying(w)
  <2>1. q \in Attempts /\ answer[w] \in Outcomes /\ history[q] \in Seq(Outcomes)
    BY <1>3 DEF TypeOK, Appends
  <2>2. Agrees(order'[q], answer[w])
    <3>1. Agrees(order[q], answer[w])
      BY <1>3 DEF Truth, TrueAnswer, Appends
    <3> QED BY <2>1, <3>1, AgreesForGood
  <2>3. /\ history'[q] = Append(history[q], answer[w])
        /\ \A a \in Attempts \ {q} : history'[a] = history[a]
    BY <1>3, <2>1 DEF TypeOK, Appends
  <2>4. ASSUME NEW n \in 1..Len(history'[q])
        PROVE  Agrees(order'[q], history'[q][n])
    <3>1. n \in 1..Len(history[q]) \/ n = Len(history[q]) + 1
      BY <2>1, <2>3, AppendProperties, LenProperties
    <3>2. n \in 1..Len(history[q]) => history'[q][n] = history[q][n]
      BY <2>1, <2>3, AppendProperties
    <3>3. history'[q][Len(history[q]) + 1] = answer[w]
      BY <2>1, <2>3, AppendProperties
    <3> QED BY <1>1, <2>1, <2>2, <3>1, <3>2, <3>3
  <2> HIDE DEF q
  <2>5. ASSUME NEW a \in Attempts, NEW n \in 1..Len(history'[a])
        PROVE  Agrees(order'[a], history'[a][n])
    <3>1. CASE a = q
      BY <2>4, <3>1
    <3>2. CASE a # q
      BY <1>1, <2>3, <3>2
    <3> QED BY <3>1, <3>2
  <2> QED BY <2>5 DEF TrueHistory
<1> QED BY <1>2, <1>3, HistoryStep

\* A resolver answers what the order is, or does not answer.
LEMMA AnswersAgree ==
  ASSUME TypeOK, NEW a \in Attempts, NEW x \in Answers(a)
  PROVE  Agrees(order[a], x)
<1>1. CASE x = Unknown
  BY <1>1, UnknownAgrees
<1>2. CASE x.status = order[a].state /\ x.filled = order[a].filled
  <2>1. order[a].filled \in Nat
    BY Numbers DEF TypeOK
  <2>2. order[a] = [state |-> order[a].state, filled |-> order[a].filled]
    BY DEF TypeOK
  <2> QED BY <1>2, <2>1, <2>2 DEF Agrees
<1> QED BY <1>1, <1>2 DEF Answers

\* Every step keeps histories, answers and rows true.
LEMMA TruthStep ==
  ASSUME TypeOK, Locals, Submissions, Truth, [Next]_vars
  PROVE  Truth'
<1>0. \A w \in Workers, a \in Attempts :
        rows[w][a] # None => rows[w][a] \in Outcomes /\ Agrees(order'[a], rows[w][a])
  <2> SUFFICES ASSUME NEW w \in Workers, NEW a \in Attempts, rows[w][a] # None
               PROVE  rows[w][a] \in Outcomes /\ Agrees(order'[a], rows[w][a])
    OBVIOUS
  <2>1. rows[w][a] \in Outcomes
    BY DEF TypeOK
  <2>2. Agrees(order[a], rows[w][a])
    BY DEF Truth, TrueRows
  <2> QED BY <2>1, <2>2, AgreesForGood
<1>1. ASSUME NEW v \in Workers, pc[v] \in {"observe", "claim"}
      PROVE  Agrees(order'[Querying(v)], answer[v])
  <2>1. Querying(v) \in Attempts
    BY <1>1, QueryingType DEF Locals, LocalsOf
  <2>2. answer[v] \in Outcomes
    BY DEF TypeOK
  <2>3. Agrees(order[Querying(v)], answer[v])
    BY <1>1 DEF Truth, TrueAnswer
  <2> QED BY <2>1, <2>2, <2>3, AgreesForGood
<1>2. ASSUME NEW v \in Workers, Rests(v)
      PROVE  (TrueAnswer(v) /\ TrueRows(v))'
  <2>1. Querying(v)' = Querying(v)
    BY <1>2 DEF Rests, Querying
  <2>2. TrueAnswer(v)'
    BY <1>1, <1>2, <2>1 DEF Rests, TrueAnswer
  <2>3. TrueRows(v)'
    BY <1>0, <1>2 DEF Rests, TrueRows
  <2> QED BY <2>2, <2>3
<1>3. ASSUME NEW w \in Workers, pc'[w] \notin {"observe", "claim"}
      PROVE  TrueAnswer(w)'
  BY <1>3 DEF TrueAnswer
<1>4. ASSUME NEW w \in Workers, rows'[w] = rows[w]
      PROVE  TrueRows(w)'
  BY <1>0, <1>4 DEF TrueRows
<1>5. ASSUME NEW w \in Workers, Drop(w) \/ Raise(w)
      PROVE  (TrueAnswer(w) /\ TrueRows(w))'
  <2>1. pc'[w] = "idle" /\ rows'[w] = NoRows
    BY <1>5 DEF TypeOK, Drop, Raise, Goto
  <2> QED BY <1>3, <2>1 DEF TrueRows, NoRows
<1>6. ASSUME NEW w \in Workers, Observed(w)
      PROVE  (TrueAnswer(w) /\ TrueRows(w))'
  BY <1>3, <1>4, <1>6, ObservedLocals
<1>7. ASSUME NEW w \in Workers, UNCHANGED order, rows' = [rows EXCEPT ![w] = Summary]
      PROVE  TrueRows(w)'
  <2>1. rows'[w] = Summary
    BY <1>7 DEF TypeOK
  <2>2. \A a \in Attempts : Summary[a] # None => Summary[a] = Latest(a)
    BY DEF Summary
  <2>3. \A a \in Attempts : Agrees(order[a], Latest(a))
    BY LatestAgrees DEF Truth
  <2> QED BY <1>7, <2>1, <2>2, <2>3 DEF TrueRows
<1>8. ASSUME NEW w \in Workers, DropRow(w)
      PROVE  TrueRows(w)'
  <2>1. \A a \in Attempts : rows'[w][a] # None => rows'[w][a] = rows[w][a]
    BY <1>8 DEF TypeOK, DropRow
  <2> QED BY <1>0, <2>1 DEF TrueRows
<1>9. ASSUME NEW w \in Workers, \E a \in Attempts : Track(w, a)
      PROVE  (TrueAnswer(w) /\ TrueRows(w))'
  BY <1>3, <1>4, <1>9 DEF TypeOK, Track, Step, Goto
<1>10. ASSUME NEW w \in Workers, Prepare(w) \/ PlaceOrder(w) \/ BindOrder(w) \/ Settle(w)
       PROVE  (TrueAnswer(w) /\ TrueRows(w))'
  BY <1>3, <1>4, <1>10 DEF TypeOK, Prepare, PlaceOrder, BindOrder, Settle, Step, Goto
<1>11. ASSUME NEW w \in Workers, Submitted(w) \/ Scan(w)
       PROVE  (TrueAnswer(w) /\ TrueRows(w))'
  BY <1>3, <1>4, <1>5, <1>11 DEF TypeOK, Submitted, Scan, Goto
<1>12. ASSUME NEW w \in Workers, Query(w)
       PROVE  (TrueAnswer(w) /\ TrueRows(w))'
  <2>1. PICK x \in Answers(Querying(w)) : answer' = [answer EXCEPT ![w] = x]
    BY <1>12 DEF Query
  <2>2. UNCHANGED <<order, todo, rows>> /\ answer'[w] = x
    BY <1>12, <2>1 DEF TypeOK, Query, broker
  <2>3. Querying(w)' = Querying(w) /\ Querying(w) \in Attempts
    BY <1>12, <2>2, QueryingType DEF Query, Querying
  <2>4. Agrees(order[Querying(w)], x)
    BY <2>3, AnswersAgree
  <2>5. TrueAnswer(w)'
    BY <2>2, <2>3, <2>4 DEF TrueAnswer
  <2> QED BY <1>4, <2>2, <2>5
<1>13. ASSUME NEW w \in Workers, pc[w] \in {"observe", "claim"},
              UNCHANGED <<todo, answer, rows>>
       PROVE  (TrueAnswer(w) /\ TrueRows(w))'
  <2>1. Querying(w)' = Querying(w)
    BY <1>13 DEF Querying
  <2>2. TrueAnswer(w)'
    BY <1>1, <1>13, <2>1 DEF TrueAnswer
  <2> QED BY <1>4, <1>13, <2>2
<1>14. ASSUME NEW w \in Workers, Reread(w) \/ ClaimSlot(w)
       PROVE  (TrueAnswer(w) /\ TrueRows(w))'
  BY <1>5, <1>6, <1>13, <1>14 DEF Reread, ClaimSlot, At
<1>15. ASSUME NEW w \in Workers, EndBatch(w)
       PROVE  (TrueAnswer(w) /\ TrueRows(w))'
  BY <1>3, <1>5, <1>7, <1>15 DEF TypeOK, EndBatch, Goto
<1>16. ASSUME NEW w \in Workers, EndCycle(w)
       PROVE  (TrueAnswer(w) /\ TrueRows(w))'
  BY <1>3, <1>7, <1>16 DEF TypeOK, EndCycle, Step, Goto, broker
<1>17. ASSUME NEW w \in Workers, Publish(w)
       PROVE  (TrueAnswer(w) /\ TrueRows(w))'
  BY <1>3, <1>4, <1>5, <1>8, <1>17 DEF TypeOK, Publish, At, Goto
<1>18. ASSUME NEW w \in Workers, Send(w) \/ Receipt(w)
       PROVE  (TrueAnswer(w) /\ TrueRows(w))'
  BY <1>3, <1>4, <1>8, <1>18 DEF TypeOK, Send, Receipt, Step, Goto
<1>19. ASSUME NEW w \in Workers, EndPublish(w) \/ Fault(w)
       PROVE  (TrueAnswer(w) /\ TrueRows(w))'
  BY <1>5, <1>19 DEF EndPublish, Fault
<1>20. ASSUME NEW w \in Workers, Expire(w)
       PROVE  (TrueAnswer(w) /\ TrueRows(w))'
  BY <1>2, <1>20 DEF Expire, Rests
<1>21. ASSUME NEW w \in Workers, Acts(w)
       PROVE  (TrueAnswer(w) /\ TrueRows(w))'
  BY <1>9, <1>10, <1>11, <1>12, <1>14, <1>15, <1>16, <1>17, <1>18, <1>19, <1>20, <1>21
  DEF Acts, Work
<1>22. CASE \E w \in Workers : Acts(w)
  <2>1. \A w \in Workers : (TrueAnswer(w) /\ TrueRows(w))'
    BY <1>2, <1>21, <1>22, OthersRest
  <2> QED BY <2>1, TrueHistoryStep DEF Truth
<1>23. CASE Market \/ UNCHANGED vars
  <2>1. \A v \in Workers : Rests(v)
    BY <1>23 DEF Market, Fill, Close, vars, batch, Rests
  <2> QED BY <1>2, <2>1, TrueHistoryStep DEF Truth
<1> QED BY <1>22, <1>23, Actors

(***************************************************************************)
(* One worker owns the notice of an attempt, and tells a confirmed row.    *)
(***************************************************************************)

Notifies(w) ==
  /\ pc[w] \in {"send", "receipt"} => /\ rows[w][Publishing(w)].status = "final"
                                      /\ notice[Publishing(w)] # "none"
  /\ pc[w] = "send" => sent[Publishing(w)] = <<>>

TrueMail ==
  \A a \in Attempts : \A n \in 1..Len(sent[a]) :
    sent[a][n].status = "final" /\ Agrees(order[a], sent[a][n])

Notices ==
  /\ \A a \in Attempts : notice[a] = "none" => sent[a] = <<>>
  /\ ToldOnce
  /\ \A w \in Workers : Notifies(w)
  /\ \A v, w \in Workers :
       pc[v] = "send" /\ pc[w] = "send" /\ Publishing(v) = Publishing(w) => v = w
  /\ TrueMail

Claims(w) ==
  /\ pc[w] = "publish" /\ RowsLeft(w) # {}
  /\ Tellable(rows[w][Publishing(w)]) /\ Untold(Publishing(w))
  /\ Goto(w, "send")
  /\ notice' = [notice EXCEPT ![Publishing(w)] = "attempted"]
  /\ UNCHANGED <<sent, rows>>

Silent ==
  /\ UNCHANGED <<notice, sent>>
  /\ \A v \in Workers : pc'[v] \in {"send", "receipt"} =>
       pc'[v] = pc[v] /\ rows'[v] = rows[v]

\* The steps as a notice sees them.
LEMMA NoticeSteps ==
  ASSUME TypeOK, [Next]_vars
  PROVE  \/ \E w \in Workers : Claims(w) \/ Send(w) \/ Receipt(w)
         \/ Silent
<1>1. CASE Market \/ UNCHANGED vars
  BY <1>1 DEF Market, Fill, Close, vars, mail, Silent
<1>2. ASSUME NEW w \in Workers, Drop(w) \/ Raise(w) \/ Observed(w), UNCHANGED mail
      PROVE  Silent
  BY <1>2 DEF TypeOK, Raise, Drop, Observed, Goto, mail, Silent
<1>3. ASSUME NEW w \in Workers, \E a \in Attempts : Track(w, a)
      PROVE  Silent
  BY <1>3 DEF TypeOK, Track, Step, Goto, mail, Silent
<1>4. ASSUME NEW w \in Workers, Prepare(w) \/ PlaceOrder(w) \/ BindOrder(w) \/ Settle(w)
      PROVE  Silent
  BY <1>4 DEF TypeOK, Prepare, PlaceOrder, BindOrder, Settle, Step, Goto, mail, Silent
<1>5. ASSUME NEW w \in Workers, Submitted(w) \/ Scan(w) \/ Query(w)
      PROVE  Silent
  BY <1>2, <1>5 DEF TypeOK, Submitted, Scan, Query, Step, Goto, mail, Silent
<1>6. ASSUME NEW w \in Workers, Reread(w) \/ ClaimSlot(w)
      PROVE  Silent
  BY <1>2, <1>6 DEF TypeOK, Reread, ClaimSlot, Goto, mail, Silent
<1>7. ASSUME NEW w \in Workers, EndBatch(w) \/ EndCycle(w)
      PROVE  Silent
  BY <1>2, <1>7 DEF TypeOK, EndBatch, EndCycle, Step, Goto, mail, Silent
<1>8. ASSUME NEW w \in Workers, EndPublish(w) \/ Fault(w) \/ Expire(w)
      PROVE  Silent
  BY <1>2, <1>8 DEF EndPublish, Fault, Expire, mail, Silent
<1>9. ASSUME NEW w \in Workers, Publish(w)
      PROVE  Claims(w) \/ Silent
  <2>1. CASE DropRow(w) /\ UNCHANGED <<notice, fate, pc, subject, batch>>
    BY <1>9, <2>1 DEF TypeOK, Publish, At, DropRow, Silent
  <2>2. CASE Goto(w, "send")
    BY <1>9, <2>2 DEF TypeOK, Publish, At, Goto, Drop, Raise, DropRow, Claims
  <2>3. CASE Raise(w) /\ UNCHANGED notice
    BY <1>2, <1>9, <2>3 DEF Publish, mail
  <2> QED BY <1>9, <2>1, <2>2, <2>3 DEF Publish
<1> QED
  BY <1>1, <1>3, <1>4, <1>5, <1>6, <1>7, <1>8, <1>9 DEF Next, Work, Market

\* What was told stays true.
LEMMA MailStaysTrue ==
  ASSUME TypeOK, Locals, Submissions, TrueMail, [Next]_vars,
         NEW a \in Attempts, NEW n \in 1..Len(sent[a])
  PROVE  sent[a][n].status = "final" /\ Agrees(order'[a], sent[a][n])
<1>1. sent[a][n] \in Outcomes
  BY ElementOfSeq DEF TypeOK
<1>2. sent[a][n].status = "final" /\ Agrees(order[a], sent[a][n])
  BY DEF TrueMail
<1> QED BY <1>1, <1>2, AgreesForGood

\* Every step keeps one teller per notice, and what was told true.
LEMMA NoticesStep ==
  ASSUME TypeOK, Locals, Submissions, Truth, Notices, [Next]_vars
  PROVE  Notices'
<1>1. ASSUME NEW v \in Workers, rows'[v] = rows[v]
      PROVE  Publishing(v)' = Publishing(v) /\ RowsLeft(v)' = RowsLeft(v)
  BY <1>1 DEF Publishing, RowsLeft
<1>2. ASSUME sent' = sent
      PROVE  TrueMail'
  BY <1>2, MailStaysTrue DEF Notices, TrueMail
<1>3. CASE Silent
  <2>1. \A v \in Workers : Notifies(v)'
    BY <1>1, <1>3 DEF Silent, Notices, Notifies
  <2>2. \A v, u \in Workers :
          pc'[v] = "send" /\ pc'[u] = "send" /\ Publishing(v)' = Publishing(u)' => v = u
    BY <1>1, <1>3 DEF Silent, Notices
  <2> QED BY <1>2, <1>3, <2>1, <2>2 DEF Silent, Notices, ToldOnce
<1>4. ASSUME NEW w \in Workers, Claims(w)
      PROVE  Notices'
  <2> DEFINE a == Publishing(w)
  <2>1. a \in Attempts /\ notice[a] = "none" /\ sent[a] = <<>> /\ rows[w][a].status = "final"
    BY <1>4, PublishingType DEF Notices, Claims, Tellable, Untold
  <2>2. \A v \in Workers : Publishing(v)' = Publishing(v)
    BY <1>1, <1>4 DEF Claims
  <2>3. /\ notice'[a] = "attempted" /\ \A b \in Attempts \ {a} : notice'[b] = notice[b]
        /\ pc'[w] = "send" /\ \A v \in Workers \ {w} : pc'[v] = pc[v]
    BY <1>4, <2>1 DEF TypeOK, Claims, Goto
  <2>4. \A v \in Workers : pc[v] \in {"send", "receipt"} => Publishing(v) \in Attempts \ {a}
    BY <2>1, PublishingType DEF Locals, LocalsOf, Notices, Notifies
  <2> HIDE DEF a
  <2>5. \A v \in Workers : Notifies(v)'
    <3> SUFFICES ASSUME NEW v \in Workers PROVE Notifies(v)'
      OBVIOUS
    <3>1. CASE v = w
      BY <1>4, <2>1, <2>2, <2>3, <3>1 DEF Claims, Notifies, a
    <3>2. CASE v # w
      BY <1>4, <2>2, <2>3, <2>4, <3>2 DEF Claims, Notices, Notifies
    <3> QED BY <3>1, <3>2
  <2>6. \A v, u \in Workers :
          pc'[v] = "send" /\ pc'[u] = "send" /\ Publishing(v)' = Publishing(u)' => v = u
    BY <2>2, <2>3, <2>4 DEF Notices, a
  <2>7. \A b \in Attempts : notice'[b] = "none" => sent'[b] = <<>>
    BY <1>4, <2>3 DEF Claims, Notices
  <2> QED BY <1>2, <1>4, <2>5, <2>6, <2>7 DEF Claims, Notices, ToldOnce
<1>5. ASSUME NEW w \in Workers, Send(w)
      PROVE  Notices'
  <2> DEFINE a == Publishing(w)
             x == rows[w][a]
  <2>1. a \in Attempts /\ x \in Outcomes /\ x # None
    BY <1>5, PublishingType DEF Locals, LocalsOf, Send, Step, At
  <2>2. sent[a] = <<>> /\ x.status = "final" /\ notice[a] # "none"
    BY <1>5 DEF Notices, Notifies, Send, Step, At
  <2>3. Agrees(order[a], x) /\ UNCHANGED <<order, notice, rows>>
    BY <1>5, <2>1 DEF Truth, TrueRows, Send, broker
  <2>4. sent'[a] = Append(sent[a], x) /\ \A b \in Attempts \ {a} : sent'[b] = sent[b]
    BY <1>5, <2>1 DEF TypeOK, Send
  <2>5. Len(sent'[a]) = 1 /\ sent'[a][1] = x
    BY <2>2, <2>4
  <2>6. pc'[w] = "receipt" /\ \A v \in Workers \ {w} : pc'[v] = pc[v]
    BY <1>5 DEF TypeOK, Send, Step, Goto
  <2>7. \A v \in Workers : Publishing(v)' = Publishing(v)
    BY <1>1, <2>3
  <2>8. \A v \in Workers \ {w} : pc[v] = "send" => Publishing(v) \in Attempts \ {a}
    BY <1>5, PublishingType DEF Locals, LocalsOf, Notices, Send, Step, At
  <2>9. \A v \in Workers : Notifies(v)'
    <3> SUFFICES ASSUME NEW v \in Workers PROVE Notifies(v)'
      OBVIOUS
    <3>1. CASE v = w
      BY <2>2, <2>3, <2>6, <2>7, <3>1 DEF Notifies
    <3>2. CASE v # w
      BY <2>3, <2>4, <2>6, <2>7, <2>8, <3>2 DEF Notices, Notifies
    <3> QED BY <3>1, <3>2
  <2> HIDE DEF a, x
  <2>10. TrueMail'
    <3> SUFFICES ASSUME NEW b \in Attempts, NEW n \in 1..Len(sent'[b])
                 PROVE  sent'[b][n].status = "final" /\ Agrees(order'[b], sent'[b][n])
      BY DEF TrueMail
    <3>1. CASE b = a
      BY <2>2, <2>3, <2>5, <3>1
    <3>2. CASE b # a
      BY <2>4, <3>2, MailStaysTrue DEF Notices
    <3> QED BY <3>1, <3>2
  <2>11. ToldOnce'
    BY <2>4, <2>5 DEF Notices, ToldOnce
  <2>12. \A b \in Attempts : notice'[b] = "none" => sent'[b] = <<>>
    BY <2>2, <2>3, <2>4 DEF Notices
  <2> QED BY <2>6, <2>7, <2>9, <2>10, <2>11, <2>12 DEF Notices
<1>6. ASSUME NEW w \in Workers, Receipt(w)
      PROVE  Notices'
  <2>1. /\ sent' = sent /\ \A b \in Attempts : notice'[b] = "none" => notice[b] = "none"
        /\ pc'[w] = "publish"
        /\ \A v \in Workers \ {w} : pc'[v] = pc[v] /\ rows'[v] = rows[v]
    BY <1>6 DEF TypeOK, Receipt, Step, Goto, DropRow
  <2>2. \A v \in Workers \ {w} : Publishing(v)' = Publishing(v)
    BY <1>1, <2>1
  <2>3. \A v \in Workers : pc[v] \in {"send", "receipt"} => Publishing(v) \in Attempts
    BY PublishingType DEF Locals, LocalsOf
  <2>4. \A v \in Workers : Notifies(v)'
    BY <2>1, <2>2, <2>3 DEF Notices, Notifies
  <2>5. \A v, u \in Workers :
          pc'[v] = "send" /\ pc'[u] = "send" /\ Publishing(v)' = Publishing(u)' => v = u
    BY <2>1, <2>2 DEF Notices
  <2> QED BY <1>2, <2>1, <2>4, <2>5 DEF Notices, ToldOnce
<1> QED BY <1>3, <1>4, <1>5, <1>6, NoticeSteps

\* The strengthening of the safety properties that every step preserves.
IInv == Submissions /\ Truth /\ Notices

\* The inductive invariant holds whatever the interleaving: one worker submits
\* an attempt, what was observed stays true, one worker owns each notice.
THEOREM Invariance == Spec => []IInv
<1>1. Init => IInv
  <2>1. ASSUME Init
        PROVE  Submissions
    BY <2>1, Numbers DEF Init, Submissions, Submission, OrderHasRecord
  <2>2. ASSUME Init
        PROVE  Truth
    BY <2>2, EmptySeq DEF Init, Truth, TrueHistory, TrueAnswer, TrueRows, NoRows
  <2>3. ASSUME Init
        PROVE  Notices
    BY <2>3, EmptySeq DEF Init, Notices, Notifies, ToldOnce, TrueMail
  <2> QED BY <2>1, <2>2, <2>3 DEF IInv
<1>2. TypeOK /\ Locals /\ IInv /\ [Next]_vars => IInv'
  BY SubmissionsStep, TruthStep, NoticesStep DEF IInv
<1> QED BY <1>1, <1>2, TypeCorrectness, PTL DEF Spec

\* The user is told of the end of an order at most once, however many cycles
\* and /settle calls publish it at the same time, and whoever dies in between.
THEOREM OneNotice == Spec => []ToldOnce
<1>1. IInv => ToldOnce
  BY DEF IInv, Notices
<1> QED BY <1>1, Invariance, PTL

\* What the user is told is what the broker finally did: the row was read
\* before the claim of the notice, and final rows do not grow stale.
THEOREM TrueNotice == Spec => []ToldTruly
<1>1. TypeOK /\ IInv => ToldTruly
  <2> SUFFICES ASSUME TypeOK, IInv, NEW a \in Attempts, NEW n \in DOMAIN sent[a]
               PROVE  order[a] = [state |-> "final", filled |-> sent[a][n].filled]
    BY DEF ToldTruly
  <2>1. n \in 1..Len(sent[a])
    BY LenProperties DEF TypeOK
  <2> QED BY <2>1 DEF IInv, Notices, TrueMail, Agrees
<1> QED BY <1>1, TypeCorrectness, Invariance, PTL

(***************************************************************************)
(* The observations implement the settlement ledger.                       *)
(***************************************************************************)

\* A claim that wins is given an answer that is news: the record has no final
\* observation, and the answer does not take fills back.
Fresh(w) ==
  pc[w] = "claim" /\ slot[w] = Len(history[Querying(w)]) + 1 =>
    ~Settled(Querying(w)) /\ ~Regresses(Querying(w), answer[w])

News == \A w \in Workers : Fresh(w)

EntersClaim(w) ==
  /\ UNCHANGED <<history, todo, answer>>
  /\ ~Stale(Querying(w), answer[w]) /\ ~Regresses(Querying(w), answer[w])

\* A worker is about to claim a slot because it was, or because its re-read of
\* the record found the answer to be news.
LEMMA ClaimEntered ==
  ASSUME TypeOK, [Next]_vars, NEW v \in Workers, pc'[v] = "claim"
  PROVE  Rests(v) \/ EntersClaim(v)
<1>1. CASE Market \/ UNCHANGED vars
  BY <1>1 DEF Market, Fill, Close, vars, batch, Rests
<1>2. ASSUME NEW w \in Workers, Acts(w), v # w
      PROVE  Rests(v)
  BY <1>2, OthersRest
<1>3. ASSUME Drop(v) \/ Raise(v) \/ Observed(v)
      PROVE  FALSE
  BY <1>3 DEF TypeOK, Raise, Drop, Observed, Goto
<1>4. CASE Reread(v)
  BY <1>3, <1>4 DEF Reread, ledger, EntersClaim
<1>5. CASE Expire(v)
  BY <1>5 DEF Expire, Rests
<1>6. ASSUME \/ \E a \in Attempts : Track(v, a)
             \/ Prepare(v) \/ PlaceOrder(v) \/ BindOrder(v) \/ Settle(v) \/ EndCycle(v)
             \/ Query(v) \/ Send(v) \/ Receipt(v)
      PROVE  FALSE
  BY <1>6 DEF TypeOK, Track, Prepare, PlaceOrder, BindOrder, Settle, EndCycle, Query,
     Send, Receipt, Step, Goto
<1>7. ASSUME \/ Submitted(v) \/ Scan(v) \/ ClaimSlot(v) \/ EndBatch(v)
             \/ Publish(v) \/ EndPublish(v) \/ Fault(v)
      PROVE  FALSE
  BY <1>3, <1>7 DEF TypeOK, Submitted, Scan, ClaimSlot, EndBatch, Publish, EndPublish,
     Fault, At, Goto
<1>8. CASE Acts(v)
  BY <1>4, <1>5, <1>6, <1>7, <1>8 DEF Acts, Work
<1> QED BY <1>1, <1>2, <1>8, Actors

\* A lost race makes the claim late, never wrong: every step keeps News.
LEMMA NewsStep ==
  ASSUME TypeOK, Locals, News, [Next]_vars
  PROVE  News'
<1> SUFFICES ASSUME NEW v \in Workers, pc'[v] = "claim",
                    slot'[v] = Len(history'[Querying(v)']) + 1
             PROVE  (~Settled(Querying(v)) /\ ~Regresses(Querying(v), answer[v]))'
  BY DEF News, Fresh
<1>1. CASE EntersClaim(v)
  <2>1. Querying(v)' = Querying(v)
    BY <1>1 DEF EntersClaim, Querying
  <2>2. Latest(Querying(v))' = Latest(Querying(v)) /\ answer'[v] = answer[v]
    BY <1>1, <2>1 DEF EntersClaim, Latest
  <2> QED BY <1>1, <2>2 DEF EntersClaim, Stale, Stands, Settled, Regresses
<1>2. CASE Rests(v)
  <2>1. PICK a \in Attempts : a = Querying(v)
    BY <1>2, QueryingType DEF Rests, Locals, LocalsOf
  <2>2. /\ Querying(v)' = a /\ answer'[v] = answer[v]
        /\ slot'[v] = slot[v] /\ pc[v] = "claim"
    BY <1>2, <2>1 DEF Rests, Querying
  <2>3. slot[v] <= Len(history[a]) + 1 /\ slot[v] \in Nat
    BY <2>1, <2>2 DEF TypeOK, Locals, LocalsOf
  <2>4. CASE history'[a] = history[a]
    <3>1. Latest(Querying(v))' = Latest(a)
      BY <2>2, <2>4 DEF Latest
    <3>2. ~Settled(a) /\ ~Regresses(a, answer[v])
      BY <2>1, <2>2, <2>4 DEF News, Fresh
    <3> QED BY <2>2, <3>1, <3>2 DEF Settled, Regresses
  <2>5. ASSUME NEW w \in Workers, history'[a] = Append(history[a], answer[w])
        PROVE  FALSE
    <3>1. history[a] \in Seq(Outcomes) /\ answer[w] \in Outcomes
      BY DEF TypeOK
    <3>2. Len(history'[a]) = Len(history[a]) + 1 /\ Len(history[a]) \in Nat
      BY <2>5, <3>1, AppendProperties, LenProperties
    <3> QED BY <2>2, <2>3, <3>2
  <2>6. \/ history'[a] = history[a]
        \/ \E w \in Workers : history'[a] = Append(history[a], answer[w])
    <3>1. ASSUME NEW w \in Workers, Appends(w)
          PROVE  history'[a] = history[a] \/ history'[a] = Append(history[a], answer[w])
      BY <3>1 DEF TypeOK, Appends
    <3> QED BY <3>1, HistoryStep
  <2> QED BY <2>4, <2>5, <2>6
<1> QED BY <1>1, <1>2, ClaimEntered

\* What is known of an order is its latest observation.
LEMMA KnownFacts ==
  ASSUME TypeOK, NEW a \in Attempts
  PROVE  /\ Known(a).filled = Latest(a).filled
         /\ Known(a).state = "final" <=> Settled(a)
         /\ Known(a).filled \in Nat
<1>1. Latest(a).filled \in Nat
  BY LatestType, OutcomeType, Numbers
<1>2. CASE history[a] = <<>>
  <2>1. Latest(a) = Unknown
    BY <1>2 DEF Latest
  <2>2. ~Settled(a)
    BY <2>1 DEF Settled, Unknown
  <2>3. Known(a) = NoOrder
    BY <1>2, <2>2 DEF Known
  <2> QED BY <2>1, <2>2, <2>3 DEF NoOrder, Unknown
<1>3. CASE history[a] # <<>> /\ Settled(a)
  <2>1. Known(a) = [state |-> "final", filled |-> Latest(a).filled]
    BY <1>3 DEF Known
  <2> QED BY <1>1, <1>3, <2>1
<1>4. CASE history[a] # <<>> /\ ~Settled(a)
  <2>1. Known(a) = [state |-> "open", filled |-> Latest(a).filled]
    BY <1>4 DEF Known
  <2> QED BY <1>1, <1>4, <2>1
<1> QED BY <1>2, <1>3, <1>4

\* The answer that wins a slot is what is known from then on.
LEMMA Learning ==
  ASSUME TypeOK, NEW w \in Workers, NEW a \in Attempts, a = Querying(w), Appends(w)
  PROVE  /\ Known(a)' = [state |-> IF answer[w].status = "final" THEN "final" ELSE "open",
                         filled |-> answer[w].filled]
         /\ \A b \in Attempts \ {a} : Known(b)' = Known(b)
<1>1. history[a] \in Seq(Outcomes) /\ answer[w] \in Outcomes
  BY DEF TypeOK
<1>2. history'[a] = Append(history[a], answer[w])
  BY DEF TypeOK, Appends
<1>3. /\ history'[a] # <<>>
      /\ history'[a][Len(history'[a])] = answer[w]
  BY <1>1, <1>2, AppendProperties
<1>4. Latest(a)' = answer[w]
  BY <1>3 DEF Latest
<1>5. Settled(a)' <=> answer[w].status = "final"
  BY <1>4 DEF Settled
<1>6. Known(a)' = [state |-> IF answer[w].status = "final" THEN "final" ELSE "open",
                   filled |-> answer[w].filled]
  BY <1>3, <1>4, <1>5 DEF Known
<1>7. ASSUME NEW b \in Attempts \ {a}
      PROVE  Known(b)' = Known(b)
  <2>1. history'[b] = history[b]
    BY DEF TypeOK, Appends
  <2> QED BY <2>1 DEF Known, Settled, Latest
<1> QED BY <1>6, <1>7

\* A claim that wins is a step of the ledger that learns.
LEMMA LedgerLearns ==
  ASSUME TypeOK, Locals, IInv, News, [Next]_vars, NEW w \in Workers, Appends(w)
  PROVE  Ledger!Next
<1>1. PICK a \in Attempts : a = Querying(w)
  BY DEF Appends
<1> DEFINE k == [state |-> IF answer[w].status = "final" THEN "final" ELSE "open",
                 filled |-> answer[w].filled]
<1>2. answer[w] \in Outcomes /\ answer[w].filled \in Fills
  BY OutcomeType DEF TypeOK
<1>3. ~Settled(a) /\ ~(answer[w].filled < Latest(a).filled)
  BY <1>1 DEF News, Fresh, Appends, Regresses
<1>4. Agrees(order[a], answer[w])
  BY <1>1 DEF IInv, Truth, TrueAnswer, Appends
<1>5. Known(a).state # "final" /\ Known(a).filled <= k.filled
  <2>1. Known(a).filled = Latest(a).filled /\ Known(a).state # "final"
    BY <1>3, KnownFacts
  <2>2. Known(a).filled \in Nat /\ answer[w].filled \in Nat
    BY <1>2, KnownFacts, Numbers
  <2> QED BY <1>3, <2>1, <2>2
<1>6. k \in Ledger!Order /\ k.state # "none" /\ k.filled <= order[a].filled
  BY <1>2, <1>4 DEF Agrees, Fills, Ledger!Order, Ledger!Fills
<1>7. k.state = "final" => k = order[a]
  BY <1>4 DEF Agrees
<1>8. Knowledge' = [Knowledge EXCEPT ![a] = k]
  <2>1. \A b \in Attempts : Known(b)' = IF b = a THEN k ELSE Known(b)
    BY <1>1, Learning
  <2> QED BY <2>1 DEF Knowledge
<1>9. UNCHANGED order
  BY DEF Appends
<1>10. Knowledge[a] = Known(a)
  BY DEF Knowledge
<1> HIDE DEF k
<1>11. Ledger!Learn(a)
  BY <1>5, <1>6, <1>7, <1>8, <1>9, <1>10 DEF Ledger!Learn
<1> QED BY <1>11 DEF Ledger!Next

\* Any other step is a trade at the broker or nothing to the ledger.
LEMMA LedgerTrades ==
  ASSUME TypeOK, Locals, IInv, [Next]_vars, UNCHANGED history
  PROVE  Ledger!Next \/ UNCHANGED Ledger!vars
<1>1. Knowledge' = Knowledge
  BY DEF Knowledge, Known, Settled, Latest
<1>2. ASSUME NEW a \in Attempts, NEW o \in Ledger!Order, order[a].state # "final",
             o.state # "none", o.filled >= order[a].filled,
             order' = [order EXCEPT ![a] = o]
      PROVE  Ledger!Next
  BY <1>1, <1>2 DEF Ledger!Next, Ledger!Trade
<1>3. ASSUME NEW w \in Workers, PlaceOrder(w)
      PROVE  Ledger!Next \/ UNCHANGED order
  <2> DEFINE a == subject[w]
             o == [state |-> "open", filled |-> order[a].filled]
  <2>1. a \in Attempts /\ order[a] = NoOrder
    BY <1>3 DEF IInv, Locals, LocalsOf, Submissions, Submission, PlaceOrder, Step, At, Tracking
  <2>2. CASE order' = [order EXCEPT ![a].state = "open"]
    <3>1. order' = [order EXCEPT ![a] = o]
      <4>1. order[a] \in [state: {"none", "open", "final"}, filled: Fills]
        BY <2>1 DEF TypeOK
      <4>2. [order[a] EXCEPT !.state = "open"] = o
        BY <4>1
      <4>3. order' = [order EXCEPT ![a] = [order[a] EXCEPT !.state = "open"]]
        BY <2>2
      <4> QED BY <4>2, <4>3
    <3>2. o \in Ledger!Order /\ order[a].filled \in Nat
      BY <2>1, Numbers DEF TypeOK, Fills, Ledger!Order, Ledger!Fills
    <3>3. order[a].state # "final" /\ o.state # "none" /\ o.filled >= order[a].filled
      BY <2>1, <3>2 DEF NoOrder
    <3> HIDE DEF a, o
    <3> QED BY <1>2, <2>1, <3>1, <3>2, <3>3
  <2> QED BY <1>3, <2>2 DEF PlaceOrder
<1>4. ASSUME NEW a \in Attempts, Fill(a) \/ Close(a)
      PROVE  Ledger!Next
  <2>1. PICK f \in Fills, s \in {"open", "final"} :
          /\ order[a].filled <= f
          /\ order' = [order EXCEPT ![a] = [state |-> s, filled |-> f]]
    <3>1. CASE Fill(a)
      <4>1. PICK f \in Fills : order[a].filled < f
                               /\ order' = [order EXCEPT ![a].filled = f]
        BY <3>1 DEF Fill
      <4>2. order' = [order EXCEPT ![a] = [state |-> "open", filled |-> f]]
        <5>1. order[a] \in [state: {"none", "open", "final"}, filled: Fills]
          BY DEF TypeOK
        <5>2. [order[a] EXCEPT !.filled = f] = [state |-> "open", filled |-> f]
          BY <3>1, <5>1 DEF Fill
        <5>3. order' = [order EXCEPT ![a] = [order[a] EXCEPT !.filled = f]]
          BY <4>1
        <5> QED BY <5>2, <5>3
      <4>3. order[a].filled <= f
        BY <4>1, Numbers DEF TypeOK
      <4> QED BY <4>2, <4>3
    <3>2. CASE Close(a)
      BY <3>2 DEF Close
    <3> QED BY <1>4, <3>1, <3>2
  <2>2. order[a].state # "final"
    BY <1>4 DEF Fill, Close
  <2>3. order[a].filled \in Nat /\ f \in Nat
    BY Numbers DEF TypeOK
  <2>4. [state |-> s, filled |-> f] \in Ledger!Order
    BY DEF Fills, Ledger!Order, Ledger!Fills
  <2> QED BY <1>2, <2>1, <2>2, <2>3, <2>4
<1>5. \/ UNCHANGED order \/ Market \/ \E w \in Workers : PlaceOrder(w)
  BY SubmissionSteps DEF Track, Prepare, broker, Ends, Bystands
<1> QED BY <1>1, <1>3, <1>4, <1>5 DEF Market, Ledger!vars

\* Every interleaving of observers keeps the promise of the settlement ledger:
\* what is known of an order never exceeds what the broker did, never shrinks,
\* and is frozen once it is the broker's final state.
THEOREM Refinement == Spec => LedgerSpec
<1>1. Init => Ledger!Init
  <2> SUFFICES ASSUME Init
               PROVE  Ledger!Init
    OBVIOUS
  <2>1. \A a \in Attempts : history[a] = <<>> /\ ~Settled(a)
    BY DEF Init, Settled, Latest, Unknown
  <2>2. \A a \in Attempts : Known(a) = NoOrder
    BY <2>1 DEF Known
  <2> QED BY <2>2 DEF Init, Ledger!Init, Ledger!Nothing, NoOrder, Knowledge
<1>2. Init => News
  BY DEF Init, News, Fresh
<1>3. TypeOK /\ Locals /\ News /\ [Next]_vars => News'
  BY NewsStep
<1>4. TypeOK /\ Locals /\ IInv /\ News /\ [Next]_vars => [Ledger!Next]_(Ledger!vars)
  BY HistoryStep, LedgerLearns, LedgerTrades
<1> QED
  BY <1>1, <1>2, <1>3, <1>4, TypeCorrectness, Invariance, PTL DEF Spec, LedgerSpec, Ledger!Spec
=============================================================================
