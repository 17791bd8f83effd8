----------------------------- MODULE Flex_proofs -----------------------------
(***************************************************************************)
(* Theorems about the two jobs of the Flex collector, FlexForward and      *)
(* FlexWatch, for every value of their constants.                          *)
(***************************************************************************)
EXTENDS FlexForward, FlexWatch, TLAPS

(***************************************************************************)
(* FlexForward: anchors, evidence and slots.                               *)
(***************************************************************************)

\* The prior anchor is an earlier day that has evidence.
LEMMA PriorType ==
  ASSUME NEW d \in Days, Prior(d) # None
  PROVE  Prior(d) \in Days /\ Prior(d) < d /\ coverage[Prior(d)].evidence # None
<1>1. PICK p \in Days : Latest(d, p)
  BY DEF Prior
<1>2. Prior(d) \in Days /\ Latest(d, Prior(d))
  BY <1>1 DEF Prior
<1> QED BY <1>2 DEF Latest, Anchors

\* Evidence is well formed and selects only what lies in its interval.
LEMMA QualifiedType ==
  ASSUME TypeOK, NEW d \in Days, NEW report \in Reports
  PROVE  /\ Qualified(d, report) \in Evidence
         /\ Qualified(d, report).prior = Prior(d)
         /\ Prior(d) # None => Qualified(d, report).source = coverage[Prior(d)].raw
         /\ \A e \in Qualified(d, report).selected : Within(e, Prior(d), d)
<1> DEFINE p        == Prior(d)
           before   == IF p = None THEN {} ELSE coverage[p].evidence.seen
           selected == {e \in report.rows \ before : report.anchors /\ Within(e, p, d)}
           source   == IF p = None THEN None ELSE coverage[p].raw
<1>1. p \in Days \cup {None}
  BY PriorType
<1>2. p # None => coverage[p] \in Slots /\ coverage[p].evidence \in Evidence
  BY PriorType DEF TypeOK, Slots
<1>3. before \subseteq Events
  BY <1>2 DEF Evidence
<1>4. source \in Reports \cup {None}
  BY <1>2 DEF Slots
<1>5. report.anchors \in BOOLEAN /\ report.rows \subseteq Events
  BY DEF Reports
<1>6. Qualified(d, report) =
        [anchors |-> report.anchors, prior |-> p, source |-> source,
         selected |-> selected, seen |-> before \cup selected]
  BY DEF Qualified
<1> HIDE DEF p, before, source
<1>7. selected \subseteq Events /\ \A e \in selected : Within(e, p, d)
  BY <1>5
<1> HIDE DEF selected
<1>8. Qualified(d, report) \in Evidence
  BY <1>1, <1>3, <1>4, <1>5, <1>6, <1>7 DEF Evidence
<1> QED BY <1>6, <1>7, <1>8 DEF p, source

\* The slot of a received report is well formed; it is validated only if the
\* evidence starts at an anchor.
LEMMA OutcomeType ==
  ASSUME TypeOK, NEW d \in Days, NEW report \in Reports
  PROVE  /\ Outcome(d, report) \in Slots
         /\ SlotOK(Outcome(d, report))
         /\ Outcome(d, report).raw = report
         /\ Outcome(d, report).status # "none"
         /\ Outcome(d, report).evidence = Qualified(d, report)
         /\ Outcome(d, report).validated => Prior(d) # None
<1> DEFINE ev == Qualified(d, report)
<1>1. ev \in Evidence /\ ev.prior = Prior(d)
  BY QualifiedType
<1>2. Complete(report, ev) => Prior(d) # None
  BY <1>1 DEF Complete
<1>3. ev # None /\ report # None
  BY <1>1, NoneAssumption
<1>4. Outcome(d, report) \in
        {[raw |-> report, status |-> "complete", evidence |-> ev,
          validated |-> TRUE, failed |-> FALSE],
         [raw |-> report, status |-> "received", evidence |-> ev,
          validated |-> FALSE, failed |-> TRUE]}
  BY DEF Outcome
<1>5. Outcome(d, report).validated => Complete(report, ev)
  BY DEF Outcome
<1> HIDE DEF ev
<1>6. Outcome(d, report) \in Slots
  <2>1. /\ report \in Reports \cup {None} /\ ev \in Evidence \cup {None}
        /\ TRUE \in BOOLEAN /\ FALSE \in BOOLEAN
    BY <1>1
  <2>2. [raw |-> report, status |-> "complete", evidence |-> ev,
         validated |-> TRUE, failed |-> FALSE] \in Slots
    BY <2>1, Zenon DEF Slots
  <2>3. [raw |-> report, status |-> "received", evidence |-> ev,
         validated |-> FALSE, failed |-> TRUE] \in Slots
    BY <2>1, Zenon DEF Slots
  <2> QED BY <1>4, <2>2, <2>3, Zenon
<1>7. SlotOK(Outcome(d, report))
  BY <1>3, <1>4 DEF SlotOK
<1>8. /\ Outcome(d, report).raw = report
      /\ Outcome(d, report).status # "none"
      /\ Outcome(d, report).evidence = ev
  BY <1>4
<1> QED BY <1>2, <1>5, <1>6, <1>7, <1>8 DEF ev

(***************************************************************************)
(* The slots, one at a time.                                               *)
(***************************************************************************)

\* What the invariant says of the slot of one day.
Sound(d, slot) ==
  /\ slot \in Slots
  /\ SlotOK(slot)
  /\ slot.evidence # None => InInterval(d, slot.evidence)
  /\ IF slot.status = "none" THEN slot = NoSlot ELSE d <= target

\* The slots of a coverage that satisfies the invariant are sound.
LEMMA SoundSlots ==
  ASSUME IInv, NEW d \in Days
  PROVE  Sound(d, coverage[d])
BY DEF IInv, TypeOK, Known, Sound

\* A slot without evidence is sound once it is marked as missing or pending.
LEMMA ClearedSound ==
  ASSUME NEW d \in Days, NEW slot \in Slots, NEW st \in {"missing", "pending"}, d <= target
  PROVE  /\ Sound(d, Cleared(slot, st))
         /\ ~Cleared(slot, st).validated
         /\ Cleared(slot, st).raw = slot.raw
<1>1. slot.raw \in Reports \cup {None} /\ slot.failed \in BOOLEAN
  BY Zenon DEF Slots
<1>2. Cleared(slot, st) \in Slots
  <2>1. FALSE \in BOOLEAN /\ None \in Evidence \cup {None}
        /\ st \in {"none", "missing", "pending", "received", "complete"}
    OBVIOUS
  <2> QED BY <1>1, <2>1, Zenon DEF Cleared, Slots
<1>3. SlotOK(Cleared(slot, st))
  BY DEF Cleared, SlotOK
<1>4. /\ Cleared(slot, st).evidence = None /\ Cleared(slot, st).status = st
      /\ ~Cleared(slot, st).validated /\ Cleared(slot, st).raw = slot.raw
  BY DEF Cleared
<1> QED BY <1>2, <1>3, <1>4 DEF Sound

\* The outcome of a received report is sound.
LEMMA OutcomeSound ==
  ASSUME IInv, NEW d \in Days, NEW report \in Reports, d <= target
  PROVE  Sound(d, Outcome(d, report))
<1>1. TypeOK
  BY DEF IInv
<1>2. InInterval(d, Qualified(d, report))
  BY <1>1, QualifiedType DEF InInterval
<1> QED BY <1>1, <1>2, OutcomeType DEF Sound

\* A revocation keeps the reports and the slots sound, and validates nothing.
LEMMA RevokedSound ==
  ASSUME IInv, NEW w \in Days, NEW d \in Days
  PROVE  /\ Sound(d, Revoked(w)[d])
         /\ Revoked(w)[d].raw = coverage[d].raw
         /\ Revoked(w)[d].validated => d \notin Following(w) /\ Revoked(w)[d] = coverage[d]
<1>1. Sound(d, coverage[d]) /\ coverage[d] \in Slots
  BY SoundSlots DEF Sound
<1>2. CASE d \in Following(w)
  <2>1. d <= target
    BY <1>2 DEF Following
  <2>2. Revoked(w)[d] = Cleared(coverage[d], "pending")
    BY <1>2 DEF Revoked
  <2> QED BY <1>1, <2>1, <2>2, ClearedSound
<1>3. CASE d \notin Following(w)
  BY <1>1, <1>3 DEF Revoked
<1> QED BY <1>2, <1>3

(***************************************************************************)
(* The invariant.                                                          *)
(***************************************************************************)

\* Initially no day is known.
LEMMA InitInv == Init => IInv
<1> SUFFICES ASSUME Init PROVE IInv
  OBVIOUS
<1>1. \A d \in Days : coverage[d] = NoSlot
  BY DEF Init
<1>2. NoSlot \in Slots /\ SlotOK(NoSlot) /\ NoSlot.evidence = None /\ NoSlot.status = "none"
      /\ ~NoSlot.validated
  <2>1. NoSlot \in Slots
    BY Zenon DEF NoSlot, Blank, Slots
  <2> QED BY <2>1 DEF NoSlot, Blank, SlotOK
<1>3. \A d \in Days : Sound(d, coverage[d])
  BY <1>1, <1>2 DEF Sound
<1>4. AnchorNotRevised
  BY <1>1, <1>2 DEF AnchorNotRevised, Valid
<1>5. target \in 0..LastDay /\ coverage \in [Days -> Slots]
  BY <1>2, ForwardAssumption DEF Init
<1>6. TypeOK
  BY <1>3, <1>5 DEF TypeOK, Sound, Init
<1> QED BY <1>3, <1>4, <1>6 DEF IInv, Known, Sound, Init

\* Any step that stutters.
LEMMA StutterInv == IInv /\ UNCHANGED vars => IInv'
BY DEF IInv, TypeOK, AnchorNotRevised, Known, InInterval, Valid, Within, SlotOK, vars

\* The invariant of the next state, from slots that are sound.
LEMMA NextInv ==
  ASSUME IInv, coverage' \in [Days -> Slots], \A d \in Days : Sound(d, coverage'[d]),
         target' \in target..LastDay, windows' \subseteq 1..target',
         pc' \in {"idle", "next", "fetch"},
         window' \in (IF pc' = "fetch" THEN 1..target' ELSE {None}),
         AnchorNotRevised', pc' = "fetch" => coverage'[window'].status # "none"
  PROVE  IInv'
<1>1. target \in Nat
  BY ForwardAssumption DEF IInv, TypeOK
<1>2. TypeOK'
  BY <1>1, ForwardAssumption DEF TypeOK, Sound
<1>3. Known'
  BY <1>1, ForwardAssumption DEF Known, Sound, NoSlot, Blank, Days
<1> QED BY <1>2, <1>3 DEF IInv, Sound, InInterval, Within

\* An interval stays anchored in a step that changes no report and validates
\* nothing.
LEMMA ReportsKept ==
  ASSUME IInv,
         \A d \in Days : /\ coverage'[d].raw = coverage[d].raw
                         /\ coverage'[d].validated =>
                              coverage[d].validated /\ coverage'[d].evidence = coverage[d].evidence
  PROVE  AnchorNotRevised'
<1> SUFFICES ASSUME NEW d \in Days, coverage'[d].validated
             PROVE  LET ev == coverage'[d].evidence
                    IN  /\ ev.prior \in 1..(d - 1) /\ ev.source # None
                        /\ coverage'[ev.prior].raw = ev.source
  BY DEF AnchorNotRevised, Valid
<1>1. LET ev == coverage[d].evidence
      IN  /\ ev.prior \in 1..(d - 1) /\ ev.source # None
          /\ coverage[ev.prior].raw = ev.source
  BY DEF IInv, AnchorNotRevised, Valid
<1>2. coverage[d].evidence.prior \in Days
  BY <1>1, ForwardAssumption DEF Days
<1> QED BY <1>1, <1>2

\* Seeding adds days without report.
LEMMA StartInv == IInv /\ Start => IInv'
<1> SUFFICES ASSUME IInv, Start PROVE IInv'
  OBVIOUS
<1> DEFINE new == Blank("missing")
<1>1. /\ new = [raw |-> None, status |-> "missing", evidence |-> None, validated |-> FALSE,
                failed |-> FALSE]
  BY DEF Blank
<1>2. new \in Slots /\ SlotOK(new) /\ new.evidence = None /\ new.status = "missing"
      /\ ~new.validated
  <2>1. new \in Slots
    BY Zenon DEF Blank, Slots
  <2> HIDE DEF new
  <2> QED BY <1>1, <2>1 DEF SlotOK
<1> HIDE DEF new
<1>3. \A d \in Days : coverage'[d] = IF d <= target /\ coverage[d].status = "none"
                                       THEN new ELSE coverage[d]
  BY DEF Start, Seeded, new
<1>4. \A d \in Days : Sound(d, coverage'[d])
  BY <1>2, <1>3, SoundSlots DEF Sound
<1>5. coverage' \in [Days -> Slots]
  BY <1>4 DEF Start, Seeded, Sound
<1>6. AnchorNotRevised'
  <2>1. \A d \in Days : coverage[d].status = "none" => coverage[d].raw = None
    BY DEF IInv, Known, NoSlot, Blank
  <2>2. new.raw = None
    BY <1>1
  <2> QED BY <1>2, <1>3, <2>1, <2>2, ReportsKept
<1>7. windows' \subseteq 1..target
  BY ForwardAssumption DEF Start, Selected, Due, Days
<1> QED BY <1>4, <1>5, <1>6, <1>7, NextInv, ForwardAssumption DEF Start, IInv, TypeOK

\* A revocation of one slot leaves every report in place.
LEMMA RevokeInv == IInv /\ Revoke => IInv'
<1> SUFFICES ASSUME IInv, NEW d \in windows,
                    window' = d, windows' = windows \ {d}, pc' = "fetch", target' = target,
                    coverage' = [coverage EXCEPT ![d] = Cleared(coverage[d], "missing")]
             PROVE  IInv'
  BY DEF Revoke
<1>1. d \in 1..target /\ target \in 0..LastDay /\ windows \subseteq 1..target
      /\ coverage \in [Days -> Slots]
  BY DEF IInv, TypeOK
<1>2. d \in Days /\ d <= target
  BY <1>1, ForwardAssumption DEF Days
<1>3. \A f \in Days : coverage'[f] = IF f = d THEN Cleared(coverage[d], "missing")
                                              ELSE coverage[f]
  BY <1>1
<1>4. /\ Sound(d, Cleared(coverage[d], "missing"))
      /\ ~Cleared(coverage[d], "missing").validated
      /\ Cleared(coverage[d], "missing").raw = coverage[d].raw
  BY <1>1, <1>2, ClearedSound
<1>5. \A f \in Days : Sound(f, coverage'[f])
  BY <1>3, <1>4, SoundSlots
<1>6. coverage' \in [Days -> Slots]
  BY <1>1, <1>4 DEF Sound
<1>7. AnchorNotRevised'
  BY <1>3, <1>4, ReportsKept
<1>8. coverage'[window'].status # "none"
  BY <1>2, <1>3 DEF Cleared
<1>9. /\ target' \in target..LastDay /\ windows' \subseteq 1..target'
      /\ window' \in 1..target'
  BY <1>1, ForwardAssumption
<1> QED BY <1>5, <1>6, <1>7, <1>8, <1>9, NextInv

\* A slot whose next attempt is put off is sound if it was.
LEMMA FailedSound ==
  ASSUME NEW d \in Days, NEW slot, Sound(d, slot), slot.status # "none"
  PROVE  LET put == [slot EXCEPT !.failed = TRUE]
         IN  /\ Sound(d, put)
             /\ put.raw = slot.raw /\ put.validated = slot.validated
             /\ put.evidence = slot.evidence
<1> DEFINE put == [slot EXCEPT !.failed = TRUE]
<1>1. slot \in Slots
  BY DEF Sound
<1>2. put.raw = slot.raw /\ put.validated = slot.validated /\ put.evidence = slot.evidence
      /\ put.status = slot.status
  BY <1>1 DEF Slots
<1>3. put \in Slots
  BY <1>1 DEF Slots
<1> HIDE DEF put
<1>4. SlotOK(put)
  BY <1>2 DEF Sound, SlotOK
<1>5. Sound(d, put)
  BY <1>2, <1>3, <1>4 DEF Sound
<1> QED BY <1>2, <1>5 DEF put

\* A failure revokes what was measured from the day's report.
LEMMA FailInv == IInv /\ Fail => IInv'
<1> SUFFICES ASSUME IInv, Fail PROVE IInv'
  OBVIOUS
<1> DEFINE base == IF coverage[window].raw # None THEN Revoked(window) ELSE coverage
<1>1. window \in 1..target /\ target \in 0..LastDay /\ windows \subseteq 1..target
  BY DEF IInv, TypeOK, Fail
<1>2. window \in Days
  BY <1>1, ForwardAssumption DEF Days
<1>3. base \in [Days -> Slots] /\ \A d \in Days : Sound(d, base[d]) /\ base[d].raw = coverage[d].raw
                                  /\ (base[d].validated => base[d] = coverage[d])
  <2>1. CASE coverage[window].raw # None
    BY <1>2, <2>1, RevokedSound DEF Revoked, Sound
  <2>2. CASE coverage[window].raw = None
    BY <2>2, SoundSlots DEF IInv, TypeOK
  <2> QED BY <2>1, <2>2
<1>4. coverage' = [base EXCEPT ![window].failed = TRUE]
  BY DEF Fail
<1>5. \A d \in Days : coverage'[d] = IF d = window THEN [base[d] EXCEPT !.failed = TRUE]
                                                   ELSE base[d]
  BY <1>3, <1>4
<1>6. base[window].status # "none"
  <2>1. coverage[window].status # "none"
    BY DEF IInv, Fail
  <2> QED BY <1>2, <2>1 DEF base, Revoked, Cleared
<1> HIDE DEF base
<1>7. ASSUME NEW d \in Days
      PROVE  /\ Sound(d, coverage'[d])
             /\ coverage'[d].raw = base[d].raw
             /\ coverage'[d].validated = base[d].validated
             /\ coverage'[d].evidence = base[d].evidence
  <2>1. CASE d = window
    <3>1. coverage'[d] = [base[d] EXCEPT !.failed = TRUE]
      BY <1>5, <2>1
    <3> QED BY <1>3, <1>6, <2>1, <3>1, FailedSound
  <2>2. CASE d # window
    BY <1>3, <1>5, <2>2
  <2> QED BY <2>1, <2>2
<1>8. coverage' \in [Days -> Slots]
  BY <1>3, <1>4, <1>7 DEF Sound
<1>9. AnchorNotRevised'
  BY <1>3, <1>7, ReportsKept
<1>10. /\ target' = target /\ target \in target..LastDay /\ windows' \subseteq 1..target
       /\ pc' \in {"next", "idle"} /\ window' = None
  BY <1>1, ForwardAssumption DEF Fail
<1> QED BY <1>7, <1>8, <1>9, <1>10, NextInv

\* A report that revises another revokes the days qualified against it.
LEMMA ReceiveInv == IInv /\ Receive => IInv'
<1> SUFFICES ASSUME IInv, Receive PROVE IInv'
  OBVIOUS
<1>1. PICK report \in Reports :
        coverage' = [(IF Revises(window, report) THEN Revoked(window) ELSE coverage)
                       EXCEPT ![window] = Outcome(window, report)]
  BY DEF Receive
<1> DEFINE base == IF Revises(window, report) THEN Revoked(window) ELSE coverage
           out  == Outcome(window, report)
<1>2. /\ window \in 1..target /\ target \in 0..LastDay /\ windows \subseteq 1..target
      /\ coverage \in [Days -> Slots] /\ TypeOK
  BY DEF IInv, TypeOK, Receive
<1>3. window \in Days /\ window <= target
  BY <1>2, ForwardAssumption DEF Days
<1>4. base \in [Days -> Slots] /\ \A d \in Days : /\ Sound(d, base[d])
                                                  /\ base[d].raw = coverage[d].raw
                                                  /\ base[d].validated => base[d] = coverage[d]
  <2>1. CASE Revises(window, report)
    BY <1>3, <2>1, RevokedSound DEF Revoked, Sound
  <2>2. CASE ~Revises(window, report)
    BY <1>2, <2>2, SoundSlots
  <2> QED BY <2>1, <2>2
<1>5. \A d \in Days : base[d].validated /\ d \in Following(window) => ~Revises(window, report)
  BY <1>3, RevokedSound
<1>6. coverage' = [base EXCEPT ![window] = out]
  BY <1>1
<1>7. /\ Sound(window, out) /\ out.raw = report /\ out.evidence = Qualified(window, report)
      /\ out.validated => Prior(window) # None
  BY <1>2, <1>3, OutcomeSound, OutcomeType
<1> HIDE DEF base, out
<1>8. \A d \in Days : coverage'[d] = IF d = window THEN out ELSE base[d]
  BY <1>4, <1>6
<1>9. \A d \in Days : Sound(d, coverage'[d])
  BY <1>4, <1>7, <1>8
<1>10. coverage' \in [Days -> Slots]
  BY <1>3, <1>4, <1>6, <1>7 DEF Sound
<1>11. AnchorNotRevised'
  <2> SUFFICES ASSUME NEW d \in Days, coverage'[d].validated
               PROVE  LET ev == coverage'[d].evidence
                      IN  /\ ev.prior \in 1..(d - 1) /\ ev.source # None
                          /\ coverage'[ev.prior].raw = ev.source
    BY DEF AnchorNotRevised, Valid
  <2>1. CASE d = window
    <3>1. Prior(window) # None /\ coverage'[d].evidence = Qualified(window, report)
      BY <1>3, <1>7, <1>8, <2>1
    <3>2. /\ Prior(window) \in Days /\ Prior(window) < window
          /\ coverage[Prior(window)].evidence # None
      BY <1>3, <3>1, PriorType
    <3>3. /\ Qualified(window, report).prior = Prior(window)
          /\ Qualified(window, report).source = coverage[Prior(window)].raw
      BY <1>2, <1>3, <3>1, QualifiedType
    <3>4. coverage[Prior(window)].raw # None
      BY <3>2, SoundSlots DEF Sound, SlotOK
    <3>5. coverage'[Prior(window)].raw = coverage[Prior(window)].raw
      BY <1>2, <1>4, <1>8, <3>2, ForwardAssumption DEF Days
    <3> QED BY <1>2, <2>1, <3>1, <3>2, <3>3, <3>4, <3>5, ForwardAssumption DEF Days
  <2>2. CASE d # window
    <3>1. coverage'[d] = base[d] /\ base[d] = coverage[d] /\ base[d].validated
      BY <1>4, <1>8, <2>2
    <3>2. LET ev == coverage[d].evidence
          IN  /\ ev.prior \in 1..(d - 1) /\ ev.source # None
              /\ coverage[ev.prior].raw = ev.source
      BY <3>1 DEF IInv, AnchorNotRevised, Valid
    <3>3. coverage[d].evidence.prior \in Days
      BY <3>2, ForwardAssumption DEF Days
    <3>4. CASE coverage[d].evidence.prior # window
      BY <1>4, <1>8, <3>1, <3>2, <3>3, <3>4
    <3>5. CASE coverage[d].evidence.prior = window
      <4>1. d <= target
        <5>1. coverage[d].status # "none"
          BY <3>1 DEF IInv, Known, NoSlot, Blank
        <5> QED BY <5>1 DEF IInv, Known
      <4>2. d \in Following(window)
        BY <1>2, <3>2, <3>5, <4>1, ForwardAssumption DEF Following, Days
      <4>3. coverage[window].raw = report
        BY <1>5, <3>1, <3>2, <3>5, <4>2 DEF Revises
      <4> QED BY <1>3, <1>7, <1>8, <3>1, <3>2, <3>5, <4>3
    <3> QED BY <3>4, <3>5
  <2> QED BY <2>1, <2>2
<1>12. /\ target' = target /\ target \in target..LastDay /\ windows' \subseteq 1..target
       /\ pc' = "next" /\ window' = None
  BY <1>2, ForwardAssumption DEF Receive
<1> QED BY <1>9, <1>10, <1>11, <1>12, NextInv

\* The end of a run and the passing of a day change no slot.
LEMMA QuietInv == IInv /\ (Stop \/ DayTick) => IInv'
<1> SUFFICES ASSUME IInv, Stop \/ DayTick PROVE IInv'
  OBVIOUS
<1>1. coverage' = coverage /\ TypeOK
  BY DEF Stop, DayTick, IInv
<1>2. \A d \in Days : Sound(d, coverage'[d])
  BY <1>1, SoundSlots
<1>3. AnchorNotRevised'
  BY <1>1, ReportsKept
<1>4. /\ target' \in target..LastDay /\ windows' \subseteq 1..target' /\ window' = None
      /\ pc' = "idle" /\ coverage' \in [Days -> Slots]
  <2>1. CASE Stop
    BY <1>1, <2>1, ForwardAssumption DEF Stop, TypeOK
  <2>2. CASE DayTick
    BY <1>1, <2>2, ForwardAssumption DEF DayTick, TypeOK
  <2> QED BY <2>1, <2>2
<1> QED BY <1>2, <1>3, <1>4, NextInv

(***************************************************************************)
(* The theorems about FlexForward.                                         *)
(***************************************************************************)

\* The inductive invariant holds in every state.
THEOREM Invariance == Spec => []IInv
<1>1. Init => IInv
  BY InitInv
<1>2. IInv /\ [Next]_vars => IInv'
  BY StartInv, RevokeInv, ReceiveInv, FailInv, QuietInv, StutterInv DEF Next
<1> QED BY <1>1, <1>2, PTL DEF Spec

\* The coverage, the queue and the run keep their types (collect, state.seed).
THEOREM TypeCorrectness == Spec => []TypeOK
<1>1. IInv => TypeOK
  BY DEF IInv
<1> QED BY <1>1, Invariance, PTL

\* Whatever is revised, fails or is killed, a validated interval starts at an
\* anchor that still stands (invalidate_following).
THEOREM AnchorsStand == Spec => []AnchorNotRevised
<1>1. IInv => AnchorNotRevised
  BY DEF IInv
<1> QED BY <1>1, Invariance, PTL

\* Consecutive intervals share no instant, so days without a skipped anchor
\* between them never select the same event (qualify).
THEOREM CountedOnceAlong == Spec => []CountedOnceAlongAnchors
<1>1. IInv => CountedOnceAlongAnchors
  <2> SUFFICES ASSUME IInv, NEW d \in Days, NEW f \in Days, Valid(d), Valid(f),
                      d <= coverage[f].evidence.prior,
                      NEW e \in coverage[d].evidence.selected, e \in coverage[f].evidence.selected
               PROVE  FALSE
    BY DEF CountedOnceAlongAnchors
  <2>1. /\ coverage[d].evidence # None /\ coverage[d].evidence \in Evidence
        /\ coverage[f].evidence # None /\ coverage[f].evidence \in Evidence
    BY SoundSlots DEF Sound, SlotOK, Slots, Valid
  <2>2. e \in Events /\ When[e] \in Nat
    BY <2>1, ForwardAssumption DEF Evidence
  <2>3. When[e] <= d
    BY <2>1 DEF IInv, InInterval, Within
  <2>4. coverage[f].evidence.prior # None /\ coverage[f].evidence.prior < When[e]
    BY <2>1 DEF IInv, InInterval, Within
  <2>5. coverage[f].evidence.prior \in Days
    BY <2>1, <2>4 DEF Evidence
  <2> QED BY <2>2, <2>3, <2>4, <2>5, ForwardAssumption DEF Days
<1> QED BY <1>1, Invariance, PTL

(***************************************************************************)
(* FlexWatch: the types.                                                   *)
(***************************************************************************)

\* What an execution stores has the type of the note.
LEMMA NoteType ==
  ASSUME WatchTypeOK, NEW w \in Workers
  PROVE  Claimed(w) \in Notes /\ Stored(w) \in Notes
<1>1. /\ reasons[w] \in SUBSET Reasons /\ started[w] \in Nat /\ answer[w] \in Answers
      /\ started[w] + RetryAfter \in Nat
  BY WatchAssumption DEF WatchTypeOK
<1>2. Claimed(w) \in Notes
  BY <1>1 DEF Claimed, Notes
<1>3. Stored(w) \in Notes
  BY <1>1, <1>2 DEF Stored, Claimed, Notes, Answers
<1> QED BY <1>2, <1>3

\* What is remembered of a message has its type.
LEMMA MessageType ==
  ASSUME WatchTypeOK, NEW w \in Workers
  PROVE  /\ Crossed(w) \in {Unset} \cup Messages
         /\ last # Unset => [last EXCEPT !.kept = TRUE] \in Messages
         /\ \A outcome \in Answers :
              [reasons |-> reasons[w], started |-> started[w], at |-> now,
               answer |-> outcome, crossed |-> FALSE, kept |-> FALSE] \in Messages
<1>1. /\ reasons[w] \in SUBSET Reasons /\ started[w] \in Nat /\ now \in Nat
      /\ last \in {Unset} \cup Messages /\ TRUE \in BOOLEAN /\ FALSE \in BOOLEAN
  BY DEF WatchTypeOK
<1>2. ASSUME NEW m \in Messages
      PROVE  [m EXCEPT !.kept = TRUE] \in Messages /\ [m EXCEPT !.crossed = TRUE] \in Messages
  BY DEF Messages
<1>3. ASSUME NEW outcome \in Answers
      PROVE  [reasons |-> reasons[w], started |-> started[w], at |-> now,
              answer |-> outcome, crossed |-> FALSE, kept |-> FALSE] \in Messages
  BY <1>1, Zenon DEF Messages
<1> QED BY <1>1, <1>2, <1>3 DEF Crossed

\* Every step of an execution keeps the types.
LEMMA TypeStep ==
  ASSUME WatchTypeOK, NEW w \in Workers, Step(w), Decided
  PROVE  WatchTypeOK'
<1> USE DEF WatchTypeOK
<1>1. /\ Claimed(w) \in Notes /\ Stored(w) \in Notes
      /\ Crossed(w) \in {Unset} \cup Messages
  BY NoteType, MessageType
<1>2. CASE Begin(w)
  BY <1>2, WatchAssumption DEF Begin, Places, Inside
<1>3. CASE ReadLease(w)
  BY <1>3 DEF ReadLease, Exit, Goto, Places, Inside, Answers
<1>4. CASE TakeLease(w)
  BY <1>4, WatchAssumption DEF TakeLease, Exit, Goto, Places, Inside, Answers
<1>5. CASE Release(w)
  BY <1>5 DEF Release, Exit, Places, Inside, Answers
<1>6. CASE ReadNote(w)
  BY <1>6 DEF ReadNote, Places, Inside
<1>7. CASE Claim(w)
  BY <1>1, <1>7 DEF Claim, Goto, Places, Inside
<1>8. CASE Check(w)
  BY <1>8 DEF Check, Goto, Places, Inside
<1>9. CASE Send(w)
  <2>1. last' \in Messages
    BY <1>9, MessageType DEF Send
  <2> QED BY <1>9, <2>1 DEF Send, Places, Inside
<1>10. CASE Recheck(w)
  BY <1>10 DEF Recheck, Goto, Places, Inside
<1>11. CASE Store(w)
  <2>1. last' \in {Unset} \cup Messages
    BY <1>11, MessageType DEF Store, Decided
  <2> QED BY <1>1, <1>11, <2>1 DEF Store, Goto, Places, Inside
<1>12. CASE Raise(w)
  BY <1>12 DEF Raise, Goto, Places, Inside
<1>13. CASE RaiseLate(w)
  <2>1. last' \in {Unset} \cup Messages
    BY <1>1, <1>13, MessageType DEF RaiseLate, Decided
  <2> QED BY <1>1, <1>13, <2>1, WatchAssumption DEF RaiseLate, Exit, Goto, Places, Inside, Answers
<1>14. CASE Kill(w)
  BY <1>14 DEF Kill, Exit, Places, Inside, Answers
<1> QED BY <1>2, <1>3, <1>4, <1>5, <1>6, <1>7, <1>8, <1>9, <1>10, <1>11, <1>12, <1>13, <1>14
        DEF Step

(***************************************************************************)
(* The lease.                                                              *)
(***************************************************************************)

\* The owner of the lease is unique, and until it ends the lease is not free.
LEMMA Exclusion ==
  ASSUME WatchTypeOK, Leased
  PROVE  /\ OneInside
         /\ \A w \in Workers : stage[w] \in Inside =>
              /\ lease.expires > now
              /\ \A v \in Workers : stage[v] # "idle" => ~Free(v)
              /\ \A v \in Workers : stage[v] = "take" => v \notin leaseKnown
<1>1. OneInside
  BY DEF OneInside, Leased
<1>2. ASSUME NEW w \in Workers, stage[w] \in Inside
      PROVE  lease.expires > now /\ lease.owner = w /\ w # Unset
  <2>1. stage[w] # "idle"
    BY <1>2 DEF Inside
  <2>2. started[w] \in Nat /\ now \in Nat /\ now - started[w] <= KillAfter
    BY <2>1 DEF WatchTypeOK
  <2>3. lease.owner = w /\ lease.expires = started[w] + LeaseTime
    BY <1>2 DEF Leased
  <2> QED BY <2>2, <2>3, WatchAssumption
<1>3. ASSUME NEW w \in Workers, stage[w] \in Inside, NEW v \in Workers, stage[v] # "idle"
      PROVE  ~Free(v)
  <2>1. started[v] <= now /\ started[v] \in Nat /\ now \in Nat /\ lease.expires \in Nat
    BY <1>3 DEF WatchTypeOK
  <2>2. lease.expires > now /\ lease.owner # Unset
    BY <1>2, <1>3
  <2> QED BY <2>1, <2>2 DEF Free
<1>4. ASSUME NEW w \in Workers, stage[w] \in Inside, NEW v \in Workers, stage[v] = "take"
      PROVE  v \notin leaseKnown
  BY <1>3, <1>4 DEF Leased
<1> QED BY <1>1, <1>2, <1>3, <1>4

\* A step changes the place of one execution only, and the start of none that
\* goes on.
LEMMA OneMoves ==
  ASSUME WatchTypeOK, NEW w \in Workers, Step(w)
  PROVE  /\ \A v \in Workers : v # w => /\ stage'[v] = stage[v] /\ started'[v] = started[v]
                                         /\ reasons'[v] = reasons[v] /\ answer'[v] = answer[v]
         /\ stage'[w] \notin {"idle", "lease"} => started'[w] = started[w]
         /\ stage'[w] \in Inside => stage[w] \in Inside \/ TakeLease(w)
         /\ now' = now
BY DEF WatchTypeOK, Step, Begin, ReadLease, TakeLease, Release, ReadNote, Claim, Check, Send, Recheck,
       Store, Raise, RaiseLate, Kill, Exit, Goto, Inside

\* Every step of an execution keeps the lease exclusive.
LEMMA LeasedStep ==
  ASSUME WatchTypeOK, Leased, NEW w \in Workers, Step(w)
  PROVE  Leased'
<1>1. CASE TakeLease(w) /\ w \in leaseKnown
  BY <1>1, Exclusion DEF WatchTypeOK, Leased, TakeLease, Goto, Inside, Free
<1>2. CASE RaiseLate(w) /\ stage[w] = "take"
  BY <1>2, Exclusion DEF WatchTypeOK, Leased, RaiseLate, Exit, Inside, Free
<1>3. CASE Release(w)
  BY <1>3, Exclusion DEF WatchTypeOK, Leased, Release, Exit, Inside, Free, OneInside
<1>4. CASE Begin(w) \/ ReadLease(w) \/ Kill(w) \/ (TakeLease(w) /\ w \notin leaseKnown)
  BY <1>4 DEF WatchTypeOK, Leased, Begin, ReadLease, Kill, TakeLease, Exit, Goto, Inside, Free
<1>5. CASE \/ ReadNote(w) \/ Claim(w) \/ Check(w) \/ Send(w) \/ Recheck(w) \/ Store(w)
           \/ Raise(w) \/ (RaiseLate(w) /\ stage[w] # "take")
  BY <1>5 DEF WatchTypeOK, Leased, ReadNote, Claim, Check, Send, Recheck, Store, Raise, RaiseLate,
              Goto, Inside, Free
<1> QED BY <1>1, <1>2, <1>3, <1>4, <1>5 DEF Step

\* Every step of an execution keeps the claims in order.
LEMMA OrderedStep ==
  ASSUME WatchTypeOK, Leased, Ordered, NEW w \in Workers, Step(w)
  PROVE  Ordered'
<1>1. CASE TakeLease(w) /\ w \in leaseKnown
  BY <1>1, Exclusion, WatchAssumption
     DEF WatchTypeOK, Notes, Leased, Ordered, TakeLease, Goto, Inside, Free
<1>2. CASE RaiseLate(w) /\ stage[w] = "take"
  BY <1>2, Exclusion, WatchAssumption
     DEF WatchTypeOK, Notes, Leased, Ordered, RaiseLate, Exit, Inside, Free
<1>3. CASE Release(w)
  <2>1. /\ stage[w] \in Inside /\ started[w] <= now /\ note' = note /\ lease'.owner = lease.owner
        /\ lease'.expires \in {lease.expires, now}
    BY <1>3 DEF WatchTypeOK, Release, Inside
  <2>2. \A v \in Workers : stage'[v] \notin Inside
    BY <1>3, <2>1, Exclusion DEF WatchTypeOK, Release, Exit, Inside, OneInside
  <2>3. note.attempted_at # Unset => note.attempted_at \in Nat /\ note.attempted_at <= started[w]
                                    /\ started[w] \in Nat /\ now \in Nat
    BY <2>1 DEF WatchTypeOK, Notes, Ordered
  <2> QED BY <2>1, <2>2, <2>3 DEF Ordered
<1>4. CASE Begin(w) \/ ReadLease(w) \/ Kill(w) \/ (TakeLease(w) /\ w \notin leaseKnown)
  BY <1>4 DEF WatchTypeOK, Ordered, Begin, ReadLease, Kill, TakeLease, Exit, Goto, Inside
<1>5. CASE ReadNote(w) \/ Check(w) \/ Send(w) \/ Recheck(w) \/ Raise(w)
  BY <1>5 DEF WatchTypeOK, Ordered, ReadNote, Check, Send, Recheck, Raise, Goto, Inside
<1>6. CASE Claim(w) \/ Store(w) \/ (RaiseLate(w) /\ stage[w] # "take")
  <2>1. /\ stage[w] \in Inside /\ lease' = lease /\ started' = started
        /\ \A v \in Workers : v # w => stage'[v] = stage[v]
        /\ note' = note \/ note'.attempted_at = started[w]
    <3>1. /\ stage[w] \in Inside /\ lease' = lease /\ started' = started
          /\ \A v \in Workers : v # w => stage'[v] = stage[v]
      BY <1>6 DEF WatchTypeOK, Claim, Store, RaiseLate, Goto, Inside
    <3>2. note' \in {note, Claimed(w), Stored(w)}
      BY <1>6 DEF Claim, Store, RaiseLate
    <3>3. Claimed(w).attempted_at = started[w] /\ Stored(w).attempted_at = started[w]
      BY DEF Claimed, Stored
    <3> QED BY <3>1, <3>2, <3>3
  <2>2. lease.owner # Unset /\ started[w] <= lease.expires
    BY <2>1, WatchAssumption DEF Leased, WatchTypeOK
  <2>3. \A v \in Workers : stage'[v] \in Inside => v = w
    BY <2>1, Exclusion DEF WatchTypeOK, OneInside
  <2>4. CASE note' = note
    BY <2>1, <2>3, <2>4 DEF Ordered
  <2>5. CASE note'.attempted_at = started[w]
    <3>1. started[w] \in Nat
      BY DEF WatchTypeOK
    <3> QED BY <2>1, <2>2, <2>3, <2>5, <3>1 DEF Ordered
  <2> QED BY <2>1, <2>4, <2>5
<1> QED BY <1>1, <1>2, <1>3, <1>4, <1>5, <1>6 DEF Step

(***************************************************************************)
(* The note and the latest message.                                        *)
(***************************************************************************)

\* An execution that may tell the incident of the latest message again keeps
\* the distance from it.
LEMMA Spaced ==
  ASSUME WatchTypeOK, Ordered, Remembered, NEW w \in Workers, stage[w] = "claim",
         ~Quiet(reasons[w], started[w]), last # Unset, ~last.crossed, last.answer # "rate_limited",
         last.reasons = reasons[w]
  PROVE  /\ last.started <= started[w]
         /\ ~TooEarly(reasons[w], last.started, started[w])
<1>1. /\ note.incident = reasons[w] /\ note.attempted_at # Unset
      /\ last.started <= note.attempted_at
  BY DEF Remembered
<1>2. note.attempted_at \in Nat /\ last.started \in Nat /\ started[w] \in Nat
  BY <1>1 DEF WatchTypeOK, Notes, Messages
<1>3. note.attempted_at <= started[w]
  BY <1>1 DEF Ordered, Inside
<1>4. ~TooEarly(reasons[w], note.attempted_at, started[w])
  BY <1>1 DEF Quiet, Reminded
<1>5. CASE reasons[w] # {}
  BY <1>1, <1>2, <1>3, <1>4, <1>5, WatchAssumption DEF TooEarly
<1>6. CASE reasons[w] = {}
  <2>1. PICK m \in Midnights : note.attempted_at < m /\ m <= started[w]
    BY <1>4, <1>6 DEF TooEarly, SameDate
  <2>2. m \in Nat
    BY WatchAssumption
  <2> QED BY <1>1, <1>2, <1>3, <1>6, <2>1, <2>2 DEF TooEarly, SameDate
<1> QED BY <1>5, <1>6

\* What is remembered after a claim.
LEMMA RememberedClaim ==
  ASSUME WatchTypeOK, Ordered, Remembered, Decided, NEW w \in Workers, stage[w] = "claim",
         note' = Claimed(w), last' = Crossed(w), now' = now
  PROVE  Remembered'
<1>1. ~Quiet(reasons[w], started[w])
  BY DEF Decided
<1>2. started[w] \in Nat /\ started[w] # Unset /\ started[w] <= now /\ now \in Nat
  BY WatchAssumption DEF WatchTypeOK
<1> SUFFICES ASSUME last' # Unset
             PROVE  /\ last'.at <= now'
                    /\ ~last'.crossed /\ last'.answer # "rate_limited" =>
                         /\ note'.incident = last'.reasons
                         /\ note'.attempted_at # Unset /\ last'.started <= note'.attempted_at
                    /\ last'.answer = "rate_limited" /\ last'.kept =>
                         \/ note'.retry_at # Unset /\ note'.retry_at >= last'.at + RetryAfter - KillAfter
                         \/ now' >= last'.at + RetryAfter - KillAfter
                    /\ last'.answer = "blocked" /\ last'.kept => note'.delivery = "blocked"
  BY DEF Remembered
<1>3. /\ last # Unset /\ last \in Messages
      /\ last'.at = last.at /\ last'.answer = last.answer /\ last'.kept = last.kept
      /\ last'.reasons = last.reasons /\ last'.started = last.started
  BY DEF Crossed, WatchTypeOK, Messages
<1>4. ~last'.crossed => ~last.crossed /\ last.reasons = reasons[w]
  BY <1>3 DEF Crossed, Messages
<1>5. last'.at <= now'
  BY <1>3 DEF Remembered
<1>6. ~last'.crossed /\ last'.answer # "rate_limited" =>
        note'.incident = last'.reasons /\ note'.attempted_at # Unset
        /\ last'.started <= note'.attempted_at
  BY <1>1, <1>2, <1>3, <1>4, Spaced DEF Claimed
<1>7. last.answer = "rate_limited" /\ last.kept => now >= last.at + RetryAfter - KillAfter
  <2>1. last.at \in Nat /\ (note.retry_at # Unset => note.retry_at \in Nat)
    BY <1>3 DEF WatchTypeOK, Messages, Notes
  <2> QED BY <1>1, <1>2, <1>3, <2>1, WatchAssumption DEF Remembered, Quiet, Deferred
<1>8. ~(last.answer = "blocked" /\ last.kept)
  BY <1>1, <1>3 DEF Remembered, Quiet, Blocked
<1> QED BY <1>3, <1>5, <1>6, <1>7, <1>8

\* What is remembered after the outcome of a message is stored.
LEMMA RememberedStore ==
  ASSUME WatchTypeOK, Remembered, Decided, NEW w \in Workers, stage[w] = "store",
         note' = Stored(w), last' = [last EXCEPT !.kept = TRUE], now' = now
  PROVE  Remembered'
<1>1. /\ last # Unset /\ last \in Messages /\ ~last.crossed
      /\ last.reasons = reasons[w] /\ last.started = started[w] /\ last.answer = answer[w]
  BY DEF Decided, WatchTypeOK
<1>2. /\ started[w] \in Nat /\ started[w] # Unset /\ started[w] + RetryAfter # Unset
      /\ now - started[w] <= KillAfter /\ now \in Nat /\ last.at \in Nat /\ last.at <= now
  BY <1>1, WatchAssumption DEF WatchTypeOK, Messages, Remembered
<1>3. /\ last'.at = last.at /\ last'.answer = last.answer
      /\ last'.reasons = last.reasons /\ last'.started = last.started
  BY <1>1 DEF Messages
<1>4. CASE answer[w] = "rate_limited"
  <2>1. note'.retry_at = started[w] + RetryAfter
    BY <1>4 DEF Stored, Claimed
  <2>2. note'.retry_at # Unset /\ note'.retry_at >= last.at + RetryAfter - KillAfter
    BY <1>2, <2>1, WatchAssumption
  <2> QED BY <1>1, <1>2, <1>3, <1>4, <2>2 DEF Remembered
<1>5. CASE answer[w] # "rate_limited"
  BY <1>1, <1>2, <1>3, <1>5 DEF Remembered, Stored, Claimed
<1> QED BY <1>4, <1>5

\* Every step of an execution keeps what is remembered.
LEMMA RememberedStep ==
  ASSUME WatchTypeOK, Ordered, Remembered, Decided, NEW w \in Workers, Step(w)
  PROVE  Remembered'
<1>1. now' = now
  BY OneMoves
<1>2. CASE note' = note /\ last' = last
  BY <1>1, <1>2 DEF Remembered
<1>3. CASE Claim(w) \/ (RaiseLate(w) /\ stage[w] = "claim")
  BY <1>1, <1>2, <1>3, RememberedClaim DEF Claim, RaiseLate
<1>4. CASE Store(w) \/ (RaiseLate(w) /\ stage[w] = "store")
  BY <1>1, <1>2, <1>4, RememberedStore DEF Store, RaiseLate
<1>5. CASE Send(w)
  <2>1. PICK outcome \in Answers :
          last' = [reasons |-> reasons[w], started |-> started[w], at |-> now,
                   answer |-> outcome, crossed |-> FALSE, kept |-> FALSE]
    BY <1>5 DEF Send
  <2>2. note' = Claimed(w) /\ started[w] \in Nat /\ now \in Nat /\ started[w] # Unset
    BY <1>5, WatchAssumption DEF Send, Decided, WatchTypeOK
  <2> QED BY <1>1, <2>1, <2>2 DEF Remembered, Claimed
<1>6. CASE \/ Begin(w) \/ ReadLease(w) \/ TakeLease(w) \/ Release(w) \/ ReadNote(w) \/ Check(w)
           \/ Recheck(w) \/ Raise(w) \/ Kill(w) \/ (RaiseLate(w) /\ stage[w] = "take")
  BY <1>2, <1>6 DEF Begin, ReadLease, TakeLease, Release, ReadNote, Check, Recheck, Raise, Kill, RaiseLate
<1> QED BY <1>3, <1>4, <1>5, <1>6 DEF Step, RaiseLate

\* The decision of the execution in the lease stands; nobody else has one.
LEMMA DecidedStep ==
  ASSUME WatchTypeOK, Leased, Ordered, Remembered, Decided, NEW w \in Workers, Step(w)
  PROVE  Decided'
<1> DEFINE Acting == {"claim", "check", "send", "recheck", "store"}
<1>1. SUFFICES ASSUME NEW v \in Workers, stage'[v] \in Acting
               PROVE  /\ stage'[v] = "claim" => ~Quiet(reasons[v], started[v])'
                      /\ stage'[v] \in {"check", "send", "recheck", "store"} => note' = Claimed(v)'
                      /\ stage'[v] \in {"check", "send"} /\ last' # Unset /\ ~last'.crossed
                           /\ last'.reasons = reasons'[v] /\ last'.answer # "rate_limited" =>
                             ~TooEarly(reasons'[v], last'.started, started'[v])
                      /\ stage'[v] \in {"recheck", "store"} =>
                           /\ last' # Unset /\ ~last'.crossed /\ ~last'.kept
                           /\ last'.reasons = reasons'[v] /\ last'.started = started'[v]
                           /\ last'.answer = answer'[v]
  BY DEF Decided
<1>2. CASE v # w
  <2>1. /\ stage'[v] = stage[v] /\ started'[v] = started[v] /\ reasons'[v] = reasons[v]
        /\ answer'[v] = answer[v]
    BY <1>2, OneMoves
  <2>2. stage[w] \notin Inside
    BY <1>1, <1>2, <2>1, Exclusion DEF OneInside, Inside
  <2>3. note' = note /\ last' = last
    BY <2>2 DEF Step, Inside, Begin, ReadLease, TakeLease, Release, ReadNote, Claim, Check, Send,
                Recheck, Store, Raise, RaiseLate, Kill
  <2> QED BY <1>1, <2>1, <2>3 DEF Decided, Claimed, Quiet, Blocked, Deferred, Reminded
<1>3. CASE v = w
  <2>1. CASE ReadNote(w)
    BY <1>1, <1>3, <2>1 DEF WatchTypeOK, ReadNote, Quiet, Blocked, Deferred, Reminded
  <2>2. CASE Claim(w)
    <3>1. /\ stage[w] = "claim" /\ stage'[w] = "check" /\ note' = Claimed(w) /\ last' = Crossed(w)
          /\ started' = started /\ reasons' = reasons
      BY <1>1, <1>3, <2>2 DEF WatchTypeOK, Claim, Goto
    <3>2. ~Quiet(reasons[w], started[w])
      BY <3>1 DEF Decided
    <3>3. ASSUME last' # Unset, ~last'.crossed, last'.reasons = reasons[w],
                 last'.answer # "rate_limited"
          PROVE  ~TooEarly(reasons[w], last'.started, started[w])
      <4>1. last' = last
        BY <3>1, <3>3 DEF Crossed, WatchTypeOK, Messages
      <4> QED BY <3>1, <3>2, <3>3, <4>1, Spaced
    <3> QED BY <1>3, <3>1, <3>3 DEF Claimed
  <2>3. CASE Check(w)
    BY <1>1, <1>3, <2>3 DEF WatchTypeOK, Check, Goto, Decided, Claimed
  <2>4. CASE Send(w)
    <3>1. /\ stage'[w] = "recheck" /\ note' = note /\ started' = started /\ reasons' = reasons
      BY <2>4 DEF WatchTypeOK, Send
    <3>2. note' = Claimed(w)
      BY <2>4, <3>1 DEF Send, Decided
    <3>3. Claimed(w)' = Claimed(w)
      BY <3>1 DEF Claimed
    <3>4. PICK outcome \in Answers :
            /\ answer'[w] = outcome
            /\ last' = [reasons |-> reasons[w], started |-> started[w], at |-> now,
                        answer |-> outcome, crossed |-> FALSE, kept |-> FALSE]
      BY <2>4 DEF Send, WatchTypeOK
    <3>5. last' # Unset
      BY <3>4, MessageType, UnsetAssumption
    <3> QED BY <1>3, <3>1, <3>2, <3>3, <3>4, <3>5
  <2>5. CASE Recheck(w)
    BY <1>1, <1>3, <2>5 DEF WatchTypeOK, Recheck, Goto, Decided, Claimed
  <2>6. CASE \/ Begin(w) \/ ReadLease(w) \/ TakeLease(w) \/ Release(w) \/ Store(w) \/ Raise(w)
             \/ RaiseLate(w) \/ Kill(w)
    BY <1>1, <1>3, <2>6 DEF WatchTypeOK, Begin, ReadLease, TakeLease, Release, Store, Raise, RaiseLate, Kill,
                            Exit, Goto
  <2> QED BY <2>1, <2>2, <2>3, <2>4, <2>5, <2>6 DEF Step
<1> QED BY <1>2, <1>3

(***************************************************************************)
(* The invariant.                                                          *)
(***************************************************************************)

\* Initially nobody runs and nothing was told.
LEMMA WatchInitInv == WatchInit => WatchIInv
<1> SUFFICES ASSUME WatchInit PROVE WatchIInv
  OBVIOUS
<1>1. WatchTypeOK
  BY DEF WatchInit, WatchTypeOK, Notes, Places, Answers
<1>2. Leased /\ Ordered /\ Remembered /\ Decided
  BY DEF WatchInit, Leased, Ordered, Remembered, Decided, Inside
<1> QED BY <1>1, <1>2 DEF WatchIInv

\* Time disturbs nothing that an execution relies on.
LEMMA TickInv == WatchIInv /\ Tick => WatchIInv'
<1> SUFFICES ASSUME WatchIInv, Tick PROVE WatchIInv'
  OBVIOUS
<1> USE DEF WatchIInv
<1>1. WatchTypeOK'
  BY DEF Tick, InTime, WatchTypeOK
<1>2. Leased'
  BY DEF Tick, Leased, Free
<1>3. Ordered'
  BY DEF Tick, Ordered
<1>4. Remembered'
  <2>1. last # Unset => last.at \in Nat /\ now \in Nat
    BY DEF WatchTypeOK, Messages
  <2> QED BY <2>1, WatchAssumption DEF Tick, Remembered
<1>5. Decided'
  BY DEF Tick, Decided, Claimed, Quiet, Blocked, Deferred, Reminded
<1> QED BY <1>1, <1>2, <1>3, <1>4, <1>5

\* A stuttering step keeps the invariant.
LEMMA WatchStutterInv == WatchIInv /\ UNCHANGED watchVars => WatchIInv'
<1> SUFFICES ASSUME WatchIInv, UNCHANGED watchVars PROVE WatchIInv'
  OBVIOUS
<1> USE DEF WatchIInv, watchVars
<1>1. WatchTypeOK'
  BY DEF WatchTypeOK
<1>2. Leased' /\ Ordered' /\ Remembered'
  BY DEF Leased, Free, Ordered, Remembered
<1>3. Decided'
  BY DEF Decided, Claimed, Quiet, Blocked, Deferred, Reminded
<1> QED BY <1>1, <1>2, <1>3

(***************************************************************************)
(* The theorems about FlexWatch.                                           *)
(***************************************************************************)

\* The inductive invariant holds in every state.
THEOREM WatchInvariance == WatchSpec => []WatchIInv
<1>1. WatchInit => WatchIInv
  BY WatchInitInv
<1>2. WatchIInv /\ [WatchNext]_watchVars => WatchIInv'
  <2>1. ASSUME WatchIInv, NEW w \in Workers, Step(w) PROVE WatchIInv'
    BY <2>1, TypeStep, LeasedStep, OrderedStep, RememberedStep, DecidedStep DEF WatchIInv
  <2> QED BY <2>1, TickInv, WatchStutterInv DEF WatchNext
<1> QED BY <1>1, <1>2, PTL DEF WatchSpec

\* Stores and executions keep their types (watch, Lease).
THEOREM WatchTypeCorrectness == WatchSpec => []WatchTypeOK
<1>1. WatchIInv => WatchTypeOK
  BY DEF WatchIInv
<1> QED BY <1>1, WatchInvariance, PTL

\* Since the lease outlives every execution, one of them is inside it (Lease).
THEOREM MutualExclusion == WatchSpec => []OneInside
<1>1. WatchIInv => OneInside
  BY Exclusion DEF WatchIInv
<1> QED BY <1>1, WatchInvariance, PTL

\* A crash, a lost answer or an overlapping execution never makes an incident be
\* told again early (watch).
THEOREM Reminders == WatchSpec => NoEarlyReminder
<1>1. WatchIInv => \A w \in Workers :
        SendsNow(w) /\ last # Unset /\ ~last.crossed /\ last.reasons = reasons[w]
                    /\ last.answer # "rate_limited" =>
          ~TooEarly(reasons[w], last.started, started[w])
  BY DEF WatchIInv, Decided, SendsNow
<1> QED BY <1>1, WatchInvariance, PTL DEF NoEarlyReminder

\* The delay of a rate limit is honored up to the timeout of an execution (watch).
THEOREM RateLimits == WatchSpec => RetryAfterNearlyHonored
<1>1. WatchIInv => \A w \in Workers :
        SendsNow(w) /\ last # Unset /\ last.answer = "rate_limited" /\ last.kept =>
          now >= last.at + RetryAfter - KillAfter
  <2> SUFFICES ASSUME WatchIInv, NEW w \in Workers, stage[w] = "send",
                      last # Unset, last.answer = "rate_limited", last.kept
               PROVE  now >= last.at + RetryAfter - KillAfter
    BY DEF SendsNow
  <2>1. note.retry_at = Unset
    BY DEF WatchIInv, Decided, Claimed
  <2> QED BY <2>1 DEF WatchIInv, Remembered
<1> QED BY <1>1, WatchInvariance, PTL DEF RetryAfterNearlyHonored

\* After a stored block nothing is sent (watch).
THEOREM Blocks == WatchSpec => BlockIsFinal
<1>1. WatchIInv => \A w \in Workers :
        SendsNow(w) => ~(last # Unset /\ last.answer = "blocked" /\ last.kept)
  BY DEF WatchIInv, Decided, Claimed, Remembered, SendsNow
<1> QED BY <1>1, WatchInvariance, PTL DEF BlockIsFinal
==============================================================================
