--------------------------- MODULE Programs_proofs ---------------------------
(***************************************************************************)
(* Proofs about MCPrograms.  A behaviour of it is one of the program that  *)
(* was chosen; so what holds of every program's own steps holds of it.     *)
(***************************************************************************)
EXTENDS MCPrograms, ScheduledPrograms_proofs, MorePrograms_proofs, WellFoundedInduction

----------------------------------------------------------------------------
(* What the receipts rest on: the least of some numbers.                   *)

\* Of some natural numbers one is the least.
LEMMA Least == ASSUME NEW few \in SUBSET Nat, NEW one \in few PROVE \E x \in few : \A y \in few : x <= y
<1>1. \E less : IsWellFoundedOn(less, Nat) /\ \A y, x \in Nat : y < x => <<y, x>> \in less
  <2> DEFINE less == OpToRel(<, Nat)
  <2>1. IsWellFoundedOn(less, Nat)
    BY NatLessThanWellFounded
  <2>2. \A y, x \in Nat : y < x => <<y, x>> \in less
    BY DEF OpToRel
  <2> HIDE DEF less
  <2> QED BY <2>1, <2>2
<1>2. PICK less : IsWellFoundedOn(less, Nat) /\ \A y, x \in Nat : y < x => <<y, x>> \in less
  BY <1>1
<1>3. \E x \in few : \A y \in few : ~(<<y, x>> \in less)
  <2>1. few \subseteq Nat /\ few # {}
    OBVIOUS
  <2>2. IsWellFoundedOn(less, Nat)
    BY <1>2
  <2>3. \A rel, dom, sub : IsWellFoundedOn(rel, dom) /\ sub \subseteq dom /\ sub # {} => \E x \in sub : \A y \in sub : ~(<<y, x>> \in rel)
    <3> TAKE rel, dom, sub
    <3> HAVE IsWellFoundedOn(rel, dom) /\ sub \subseteq dom /\ sub # {}
    <3> HIDE DEF IsWellFoundedOn
    <3> QED BY WFMin, Zenon
  <2> QED BY <2>1, <2>2, <2>3, Zenon
<1>4. PICK x \in few : \A y \in few : ~(<<y, x>> \in less)
  BY <1>3
<1>5. \A y \in few : ~(y < x)
  BY <1>2, <1>4
<1>6. \A y \in few : x <= y
  BY <1>5
<1> QED BY <1>6

----------------------------------------------------------------------------
(* A digest of reports.                                                    *)

\* The newest of a day's reports is one of them.
LEMMA NewestIsOne ==
  ASSUME NEW day \in SUBSET Y!R, day # {}
  PROVE  Y!Newest(day) \in day
<1>1. day \subseteq 1..Times /\ Times \in Nat
  BY TimesCount DEF Y!R
<1> DEFINE ago == {Times - r : r \in day}
<1>2. ago \subseteq Nat /\ \E x \in ago : TRUE
  <2>1. \A r \in day : Times - r \in Nat
    BY <1>1
  <2> QED BY <2>1
<1>3. PICK x \in ago : \A y \in ago : x <= y
  BY <1>2, Least
<1>4. PICK r \in day : x = Times - r
  OBVIOUS
<1>5. \A q \in day : q <= r
  BY <1>1, <1>3, <1>4
<1> QED BY <1>5 DEF Y!Newest

LEMMA RefusedHolds == ASSUME Y!IInv PROVE Y!RefusedIsTrue
<1> SUFFICES ASSUME NEW day \in Y!Days, Y!Row(day).refused
             PROVE  v3[Y!Newest(day)] = "none"
  BY DEF Y!RefusedIsTrue
<1>1. Y!Newest(day) \in day
  <2>1. day \in SUBSET Y!R /\ day # {}
    <3>1. \A r \in Y!Kept : r \in Y!R
      BY DEF Y!Kept
    <3>2. day \in SUBSET Y!Kept /\ day # {}
      BY DEF Y!Days
    <3> QED BY <3>1, <3>2
  <2> QED BY <2>1, NewestIsOne
<1>2. Y!Newest(day) \in Y!R /\ v6[Y!Newest(day)] # Y!NoReport
  BY <1>1 DEF Y!Days, Y!Kept
<1>3. v6[Y!Newest(day)].outcome = "risk_blocked" /\ ~v6[Y!Newest(day)].sum.brake
  BY DEF Y!Row, Y!NewestRefused, Y!SubmittedNone
<1> QED BY <1>2, <1>3 DEF Y!IInv, Y!Along, Y!Sound

----------------------------------------------------------------------------
(* A green heartbeat.                                                      *)

LEMMA SameCardH == \A s : H!Cardinality(s) = Cardinality(s)
BY DEF H!Cardinality, Cardinality

\* The newest of some of the objects.
LEMMA MaxIsOne ==
  ASSUME NEW some \in SUBSET (1..(Times + 1)), some # {}
  PROVE  H!Max(some) \in some /\ \A q \in some : q <= H!Max(some)
<1>1. some \subseteq 1..(Times + 1) /\ Times \in Nat
  BY TimesCount
<1> DEFINE ago == {(Times + 1) - o : o \in some}
<1>2. ago \subseteq Nat /\ \E x \in ago : TRUE
  <2>1. \A o \in some : (Times + 1) - o \in Nat
    BY <1>1
  <2> QED BY <2>1
<1>3. PICK x \in ago : \A y \in ago : x <= y
  BY <1>2, Least
<1>4. PICK o \in some : x = (Times + 1) - o
  OBVIOUS
<1>5. \A q \in some : q <= o
  BY <1>1, <1>3, <1>4
<1>6. \A p \in some, q \in some : p >= q <=> q <= p
  BY <1>1
<1> QED BY <1>5, <1>6 DEF H!Max

\* Whatever is newer than an object that was opened is opened.
LEMMA OpenedUpwards ==
  ASSUME NEW limit, NEW o \in H!Opened(1..(Times + 1), limit), NEW q \in 1..(Times + 1), q >= o,
         limit \in Nat
  PROVE  q \in H!Opened(1..(Times + 1), limit)
<1> DEFINE above(x) == {p \in 1..(Times + 1) : p > x}
<1>1. o \in 1..(Times + 1) /\ Cardinality(above(o)) < limit
  BY SameCardH DEF H!Opened
<1>2. IsFiniteSet(above(o))
  <2>1. IsFiniteSet(1..(Times + 1))
    BY TimesCount, FS_Interval
  <2> QED BY <2>1, FS_Subset
<1>3. above(q) \in SUBSET above(o)
  BY <1>1
<1>4. Cardinality(above(q)) <= Cardinality(above(o)) /\ Cardinality(above(q)) \in Nat /\ Cardinality(above(o)) \in Nat
  BY <1>2, <1>3, FS_Subset, FS_CardinalityType
<1>5. Cardinality(above(q)) < limit
  BY <1>1, <1>4
<1> QED BY <1>5, SameCardH DEF H!Opened

\* Reports that are healthy are the newest of their targets.
LEMMA HealthyIsNewest ==
  ASSUME v1 \in [1..(Times + 1) -> Reports], v3 \in [{"t1", "t2"} -> 0..1], NEW limit \in {Times, Times + 1},
         NEW read \in SUBSET H!Opened(1..(Times + 1), limit),
         H!Healthy(read, H!Opened(1..(Times + 1), limit) \ read), NEW t \in v6
  PROVE  LET own == {o \in 1..(Times + 1) : v1[o].of = t} IN
         /\ own # {} /\ v1[H!Max(own)].as \in {"quiet", "loud"}
         /\ v4 => H!Max(own) > v3[t]
<1> DEFINE opened == H!Opened(1..(Times + 1), limit)
           own == {o \in 1..(Times + 1) : v1[o].of = t}
           ours == H!Matching(read, t)
           old == H!Max(ours)
           new == H!Max(own)
<1>1. read \subseteq opened /\ opened \subseteq 1..(Times + 1) /\ limit \in Nat
  <2>1. limit \in Nat
    BY TimesCount
  <2>2. opened \subseteq 1..(Times + 1)
    BY DEF H!Opened
  <2> QED BY <2>1, <2>2
<1>2. H!Accepted(read, t) /\ ~H!Issue(read, t) /\ ~H!Incomplete(read, opened \ read)
  BY DEF H!Healthy
<1>3. \A o \in 1..(Times + 1) : v1[o] \in Reports
  OBVIOUS
<1>4. \A o \in ours : o \in read /\ v1[o].of = t /\ v1[o].as # "conflict" /\ (v4 => o > v3[t])
  BY DEF H!Matching
<1>5. ours # {} /\ v1[old].as \in {"quiet", "loud"}
  BY <1>2 DEF H!Accepted, H!Says
<1>6. ours \in SUBSET (1..(Times + 1)) /\ ours \subseteq own
  BY <1>1, <1>4
<1>7. old \in ours /\ \A q \in ours : q <= old
  BY <1>5, <1>6, MaxIsOne
<1>8. own \in SUBSET (1..(Times + 1)) /\ own # {}
  BY <1>5, <1>6
<1>9. new \in own /\ \A q \in own : q <= new
  BY <1>8, MaxIsOne
<1> HIDE DEF own, ours, old, new, opened
<1>10. old \in 1..(Times + 1) /\ new \in 1..(Times + 1) /\ old <= new /\ v1[new].of = t /\ old \in opened
  <2>1. own \subseteq 1..(Times + 1) /\ \A o \in own : v1[o].of = t
    BY DEF own
  <2> QED BY <1>1, <1>4, <1>6, <1>7, <1>9, <2>1
<1>11. new \in opened
  BY <1>1, <1>10, OpenedUpwards DEF opened
<1>12. new \in read
  <2> SUFFICES ASSUME new \notin read PROVE FALSE
    OBVIOUS
  <2>1. new \in opened \ read /\ new # old
    BY <1>4, <1>7, <1>11
  <2>2. new > old
    BY <1>10, <2>1
  <2>3. H!MayBeNewer(new, read)
    BY <2>2 DEF H!MayBeNewer, old, ours
  <2> QED BY <1>2, <2>1, <2>3 DEF H!Incomplete
<1>13. v1[new].as # "conflict"
  <2> SUFFICES ASSUME v1[new].as = "conflict" PROVE FALSE
    OBVIOUS
  <2>1. v1[new] = [of |-> t, as |-> "conflict"]
    BY <1>3, <1>10 DEF Reports
  <2>2. \A p \in ours : p < new
    BY <1>4, <1>6, <1>7, <1>9, <1>10
  <2> QED BY <1>2, <1>12, <2>1, <2>2 DEF H!Issue, ours
<1>14. v4 => new > v3[t]
  <2>1. t \in {"t1", "t2"}
    BY <1>3, <1>10 DEF Reports
  <2>2. v3[t] \in Int
    BY <2>1
  <2>3. v4 => old > v3[t]
    BY <1>4, <1>7
  <2> QED BY <1>10, <2>2, <2>3
<1>15. new \in ours
  <2>1. v1[new] \in [of: {t}, as: H!As \ {"conflict"}]
    BY <1>3, <1>10, <1>13 DEF Reports, H!As
  <2> QED BY <1>12, <1>14, <2>1 DEF ours, H!Matching
<1>16. new = old
  BY <1>7, <1>10, <1>15
<1> QED BY <1>5, <1>8, <1>14, <1>16 DEF own, new

LEMMA GreenInit == ASSUME H!Init PROVE H!Green
BY DEF H!Init, H!Green, H!None, H!GreenIsHealthy

LEMMA GreenStep == ASSUME H!IInv, H!Green, H!Next \/ UNCHANGED vars PROVE H!Green'
<1>1. CASE UNCHANGED vars
  BY <1>1 DEF vars, H!Green, H!GreenIsHealthy
<1>2. CASE H!Hydrate \/ H!Resolve
  <2>1. UNCHANGED H!world /\ v5 # "over" /\ (v7' = v7 \/ (v5' = "over" /\ v7'.is # "ok"))
    BY <1>2 DEF H!Hydrate, H!Resolve, H!Alert, H!Skip
  <2>2. v7.is # "ok"
    BY <2>1 DEF H!Green, H!None
  <2>3. v7' = v7 \/ (v5' = "over" /\ v7'.is # "ok")
    BY <2>1
  <2>4. v7'.is # "ok"
    BY <2>2, <2>3
  <2> QED BY <2>1, <2>4 DEF H!world, H!Green, H!GreenIsHealthy
<1>3. CASE H!Judge
  <2>1. UNCHANGED <<v1, v2, v3, v4, v6>> /\ v5' = "over"
    BY <1>3 DEF H!Judge, H!Alert, H!world
  <2>2. v1 \in [1..(Times + 1) -> Reports] /\ v3 \in [{"t1", "t2"} -> 0..1]
    BY DEF H!Green
  <2>3. CASE v7'.is # "ok"
    BY <2>1, <2>2, <2>3 DEF H!Green, H!GreenIsHealthy
  <2>4. CASE v7'.is = "ok"
    <3>1. PICK listed \in H!Listings, limit \in {Times, Times + 1} : \E read \in SUBSET H!Opened(listed, limit) :
            IF listed = 1..(Times + 1) /\ H!Healthy(read, H!Opened(listed, limit) \ read)
              THEN v5' = "over" ELSE H!Alert
      BY <1>3 DEF H!Judge
    <3>2. PICK read \in SUBSET H!Opened(listed, limit) :
            IF listed = 1..(Times + 1) /\ H!Healthy(read, H!Opened(listed, limit) \ read)
              THEN v5' = "over" ELSE H!Alert
      BY <3>1
    <3>3. ~H!Alert
      BY <2>4 DEF H!Alert
    <3>4. listed = 1..(Times + 1) /\ H!Healthy(read, H!Opened(listed, limit) \ read)
      BY <3>2, <3>3
    <3>5. ASSUME NEW t \in v6
          PROVE  LET own == {o \in 1..(Times + 1) : v1[o].of = t} IN
                 /\ own # {} /\ v1[H!Max(own)].as \in {"quiet", "loud"}
                 /\ v4 => H!Max(own) > v3[t]
      BY <2>2, <3>2, <3>4, <3>5, HealthyIsNewest
    <3> QED BY <2>1, <2>2, <3>5 DEF H!Green, H!GreenIsHealthy
  <2> QED BY <2>3, <2>4
<1> QED BY <1>1, <1>2, <1>3 DEF H!Next

----------------------------------------------------------------------------
(* A net flow.                                                             *)

LEMMA CountedOnceHolds == U!CountedOnce
<1> SUFFICES ASSUME v5.scope # {}
             PROVE  U!CountedOnce
  BY DEF U!CountedOnce
<1> DEFINE s == v5.of[U!Primary]
<1>1. U!Trades(s).ok => U!Trades(s).rows = U!Rows(s.trades) /\ ~\E r \in U!Rows(s.trades) : r.corrects
  BY DEF U!Trades, U!Nothing
<1>2. ASSUME U!NetFlow(s).ok, \A i \in U!Lines(s) : s.funds[i].id # ""
      PROVE  LET kept == U!CountedLines(s).rows IN
             /\ kept \subseteq U!Lines(s)
             /\ \A i, j \in kept : s.funds[i].id = s.funds[j].id => i = j
             /\ \A i \in U!Lines(s) : \E j \in kept : s.funds[j].id = s.funds[i].id /\ s.funds[j].amt = s.funds[i].amt
             /\ U!NetFlow(s).sum = U!Total(s, kept)
  <2>1. U!CountedLines(s).ok /\ U!NetFlow(s).sum = U!Total(s, U!CountedLines(s).rows)
    BY <1>2 DEF U!NetFlow
  <2>2. U!Lines(s) \subseteq Nat
    BY DEF U!Lines
  <2>3. CASE ~U!Repeated(s)
    <3>1. U!CountedLines(s).rows = U!Lines(s)
      BY <2>3 DEF U!CountedLines, U!EveryLine
    <3>2. \A i, j \in U!Lines(s) : s.funds[i].id = s.funds[j].id => i = j
      <4> SUFFICES ASSUME NEW i \in U!Lines(s), NEW j \in U!Lines(s), s.funds[i].id = s.funds[j].id
                   PROVE  ~(i < j) /\ ~(j < i)
        BY <2>2
      <4>1. s.funds[i].id # "" /\ s.funds[j].id # ""
        BY <1>2
      <4> QED BY <4>1, <2>3 DEF U!Repeated
    <3> QED BY <2>1, <3>1, <3>2
  <2>4. CASE U!Repeated(s)
    <3>1. /\ U!Flows(s).ok /\ \A i \in U!Lines(s) : s.funds[i].code \in U!Deposits
          /\ U!CountedLines(s).rows = {i \in U!Lines(s) : \A j \in U!Lines(s) : s.funds[j] = s.funds[i] => i <= j}
      BY <2>1, <2>4 DEF U!CountedLines, U!Nothing
    <3>2. U!OneEach({r \in {s.funds[i] : i \in U!Lines(s)} : r.code \in U!Deposits})
      BY <3>1 DEF U!Flows, U!Nothing
    <3>3. \A i, j \in U!Lines(s) : s.funds[i].id = s.funds[j].id => s.funds[i] = s.funds[j]
      BY <3>1, <3>2 DEF U!OneEach
    <3>4. \A i, j \in U!CountedLines(s).rows : s.funds[i].id = s.funds[j].id => i = j
      BY <2>2, <3>1, <3>3
    <3>5. ASSUME NEW i \in U!Lines(s)
          PROVE  \E j \in U!CountedLines(s).rows : s.funds[j] = s.funds[i]
      <4> DEFINE alike == {j \in U!Lines(s) : s.funds[j] = s.funds[i]}
      <4>1. alike \subseteq Nat /\ i \in alike
        BY <2>2
      <4>2. PICK x \in alike : \A y \in alike : x <= y
        BY <4>1, Least
      <4> QED BY <3>1, <4>2
    <3> QED BY <2>1, <3>1, <3>4, <3>5
  <2> QED BY <2>3, <2>4
<1> QED BY <1>1, <1>2 DEF U!CountedOnce

----------------------------------------------------------------------------
(* The receipt of a job.                                                   *)

LEMMA RanInit == ASSUME J!Init PROVE J!Ran
BY TimesCount DEF J!Init, J!Ran, J!Ids, J!Blank, J!Working, J!Cleaning, J!DeletedIsGone, J!NothingHidden

LEMMA RanDispatch == ASSUME J!IInv, J!Ran, J!Dispatch PROVE J!Ran'
<1>1. v5' \in 0..Times /\ v5' = v5 + 1 /\ v5' \in J!Ids /\ v2' = v2 /\ v2[v5'] = "none" /\ v9' = J!Blank /\ v6' = "prepare"
  BY TimesCount DEF J!Ran, J!Dispatch, J!Ids, J!cloudState
<1> QED BY <1>1 DEF J!Ran, J!Ids, J!Blank, J!Working, J!Cleaning, J!DeletedIsGone, J!NothingHidden

LEMMA RanElsewhere == ASSUME J!IInv, J!Ran, J!Elsewhere PROVE J!Ran'
<1>1. v5' = v5 /\ v6' = v6 /\ v7' = v7 /\ v9' = v9 /\ v1' \subseteq v1
  BY DEF J!Elsewhere, J!fixed
<1>2. DOMAIN v2' = J!Ids
  BY DEF J!Ran, J!Elsewhere
<1>3. \A i \in J!Ids : v2'[i] # v2[i] => v2[i] = "active" /\ v2'[i] \in {"ok", "bad"}
  BY DEF J!Ran, J!Elsewhere
<1>4. v5 = 0 \/ v5 \in J!Ids
  BY TimesCount DEF J!Ran, J!Ids
<1> QED BY <1>1, <1>2, <1>3, <1>4 DEF J!Ran, J!Ids, J!Blank, J!Working, J!Cleaning, J!DeletedIsGone, J!NothingHidden

LEMMA RanGoing == ASSUME J!IInv, J!Ran, J!Going PROVE J!Ran'
<1>0. v5 = 0 \/ v5 \in J!Ids
  BY TimesCount DEF J!Ran, J!Ids
<1>1. CASE J!Admit
  BY <1>0, <1>1 DEF J!Admit, J!IInv, J!Ran, J!Ids, J!Blank, J!cloudState, J!fixed, J!NothingLeft, J!TaskSucceeded, J!NeverRun, J!Ended, J!Gone, J!Working, J!Cleaning, J!DeletedIsGone, J!NothingHidden
<1>2. CASE J!Create
  BY <1>0, <1>2 DEF J!Create, J!IInv, J!Ran, J!Ids, J!Blank, J!cloudState, J!fixed, J!NothingLeft, J!TaskSucceeded, J!NeverRun, J!Ended, J!Gone, J!Working, J!Cleaning, J!DeletedIsGone, J!NothingHidden
<1>3. CASE J!Ready
  BY <1>0, <1>3 DEF J!Ready, J!IInv, J!Ran, J!Ids, J!Blank, J!cloudState, J!fixed, J!NothingLeft, J!TaskSucceeded, J!NeverRun, J!Ended, J!Gone, J!Working, J!Cleaning, J!DeletedIsGone, J!NothingHidden
<1>4. CASE J!Unexecuted
  BY <1>0, <1>4 DEF J!Unexecuted, J!IInv, J!Ran, J!Ids, J!Blank, J!cloudState, J!fixed, J!NothingLeft, J!TaskSucceeded, J!NeverRun, J!Ended, J!Gone, J!Working, J!Cleaning, J!DeletedIsGone, J!NothingHidden
<1>5. CASE J!Run
  <2>1. v6 = "run" /\ v6' \in {"await", "read"} /\ v5' = v5 /\ v7' = v7 /\ v1' = v1 /\ v5 \in J!Ids
    BY <1>0, <1>5 DEF J!Run, J!Ran, J!fixed
  <2>2. DOMAIN v9' = DOMAIN J!Blank /\ v9'.executed /\ v9'.status = v9.status /\ v9'.measured = v9.measured
        /\ v9'.deleted = v9.deleted
    BY <1>5 DEF J!Run, J!Ran, J!Blank
  <2>3. DOMAIN v2' = J!Ids /\ \A i \in J!Ids : i # v5 => v2'[i] = v2[i]
    BY <1>5 DEF J!Run, J!Ran
  <2>4. v9.status = "unavailable" /\ ~v9.measured /\ ~v9.deleted
    BY <2>1 DEF J!Ran, J!Working
  <2> QED BY <2>1, <2>2, <2>3, <2>4 DEF J!Ran, J!Ids, J!Working, J!Cleaning, J!DeletedIsGone, J!NothingHidden
<1>6. CASE J!Await
  BY <1>0, <1>6 DEF J!Await, J!IInv, J!Ran, J!Ids, J!Blank, J!cloudState, J!fixed, J!NothingLeft, J!TaskSucceeded, J!NeverRun, J!Ended, J!Gone, J!Working, J!Cleaning, J!DeletedIsGone, J!NothingHidden
<1>7. CASE J!Measure
  BY <1>0, <1>7 DEF J!Measure, J!IInv, J!Ran, J!Ids, J!Blank, J!cloudState, J!fixed, J!NothingLeft, J!TaskSucceeded, J!NeverRun, J!Ended, J!Gone, J!Working, J!Cleaning, J!DeletedIsGone, J!NothingHidden
<1>8. CASE J!Raise
  BY <1>0, <1>8 DEF J!Raise, J!IInv, J!Ran, J!Ids, J!Blank, J!cloudState, J!fixed, J!NothingLeft, J!TaskSucceeded, J!NeverRun, J!Ended, J!Gone, J!Working, J!Cleaning, J!DeletedIsGone, J!NothingHidden
<1>9. CASE J!Read
  BY <1>0, <1>9 DEF J!Read, J!IInv, J!Ran, J!Ids, J!Blank, J!cloudState, J!fixed, J!NothingLeft, J!TaskSucceeded, J!NeverRun, J!Ended, J!Gone, J!Working, J!Cleaning, J!DeletedIsGone, J!NothingHidden
<1>10. CASE J!Cancel
  BY <1>0, <1>10 DEF J!Cancel, J!IInv, J!Ran, J!Ids, J!Blank, J!cloudState, J!fixed, J!NothingLeft, J!TaskSucceeded, J!NeverRun, J!Ended, J!Gone, J!Working, J!Cleaning, J!DeletedIsGone, J!NothingHidden
<1>11. CASE J!Stopped
  BY <1>0, <1>11 DEF J!Stopped, J!IInv, J!Ran, J!Ids, J!Blank, J!cloudState, J!fixed, J!NothingLeft, J!TaskSucceeded, J!NeverRun, J!Ended, J!Gone, J!Working, J!Cleaning, J!DeletedIsGone, J!NothingHidden
<1>12. CASE J!Delete
  BY <1>0, <1>12 DEF J!Delete, J!IInv, J!Ran, J!Ids, J!Blank, J!cloudState, J!fixed, J!NothingLeft, J!TaskSucceeded, J!NeverRun, J!Ended, J!Gone, J!Working, J!Cleaning, J!DeletedIsGone, J!NothingHidden
<1>13. CASE J!Deleted
  BY <1>0, <1>13 DEF J!Deleted, J!IInv, J!Ran, J!Ids, J!Blank, J!cloudState, J!fixed, J!NothingLeft, J!TaskSucceeded, J!NeverRun, J!Ended, J!Gone, J!Working, J!Cleaning, J!DeletedIsGone, J!NothingHidden
<1>14. CASE J!Fail
  BY <1>0, <1>14 DEF J!Fail, J!IInv, J!Ran, J!Ids, J!Blank, J!cloudState, J!fixed, J!NothingLeft, J!TaskSucceeded, J!NeverRun, J!Ended, J!Gone, J!Working, J!Cleaning, J!DeletedIsGone, J!NothingHidden
<1>15. CASE J!Final
  BY <1>0, <1>15 DEF J!Final, J!IInv, J!Ran, J!Ids, J!Blank, J!cloudState, J!fixed, J!NothingLeft, J!TaskSucceeded, J!NeverRun, J!Ended, J!Gone, J!Working, J!Cleaning, J!DeletedIsGone, J!NothingHidden
<1>16. CASE J!Diagnose
  BY <1>0, <1>16 DEF J!Diagnose, J!IInv, J!Ran, J!Ids, J!Blank, J!cloudState, J!fixed, J!NothingLeft, J!TaskSucceeded, J!NeverRun, J!Ended, J!Gone, J!Working, J!Cleaning, J!DeletedIsGone, J!NothingHidden
<1> QED BY <1>1, <1>2, <1>3, <1>4, <1>5, <1>6, <1>7, <1>8, <1>9, <1>10, <1>11, <1>12, <1>13, <1>14, <1>15, <1>16 DEF J!Going

LEMMA RanStep ==
  ASSUME J!IInv, J!Ran, J!Next \/ UNCHANGED vars
  PROVE  J!Ran'
<1>1. CASE J!Kill
  BY <1>1 DEF J!Kill, J!Ran, J!Ids, J!Blank, J!cloudState, J!fixed, J!Working, J!Cleaning, J!DeletedIsGone, J!NothingHidden
<1>2. CASE UNCHANGED vars
  BY <1>2 DEF vars, J!Ran, J!Ids, J!Blank, J!Working, J!Cleaning, J!DeletedIsGone, J!NothingHidden
<1> QED BY <1>1, <1>2, RanDispatch, RanElsewhere, RanGoing DEF J!Next

LEMMA RanHolds == ASSUME J!Ran PROVE J!SuccessRan /\ J!DeletedIsGone /\ J!NothingHidden
BY DEF J!Ran, J!SuccessRan, J!Success

----------------------------------------------------------------------------
(* The receipt of a revision.                                              *)

LEMMA LeftInit == ASSUME R!Init PROVE R!Left
BY DEF R!Init, R!Left, R!Blank

LEMMA LeftStep ==
  ASSUME R!IInv, R!Left, R!Next \/ UNCHANGED vars
  PROVE  R!Left'
<1>1. CASE R!Start \/ R!StartCleanup \/ R!Kill \/ UNCHANGED vars
  BY <1>1 DEF R!Start, R!StartCleanup, R!Kill, vars, R!cloudState, R!Left, R!Blank
<1>2. CASE R!Prepare \/ R!Deploy \/ R!Wait \/ R!Measure \/ R!Raise
  BY <1>2 DEF R!Prepare, R!Deploy, R!Wait, R!Measure, R!Raise, R!cloudState, R!Left, R!Blank, R!Working
<1>3. CASE R!Restore \/ R!Put \/ R!Readback \/ R!Fail
  BY <1>3 DEF R!Restore, R!Put, R!Readback, R!Fail, R!cloudState, R!Left, R!Blank, R!Cleaning
<1>4. CASE R!Delete
  BY <1>4 DEF R!Delete, R!DeleteFrom, R!IInv, R!Unused, R!Left, R!Blank
<1>5. CASE R!Remove
  BY <1>5 DEF R!Remove, R!DeleteFrom, R!IInv, R!Unused, R!Left, R!Blank
<1>6. CASE R!Tidy \/ R!Recheck \/ R!GiveUpTidying
  BY <1>6 DEF R!Tidy, R!Recheck, R!GiveUpTidying, R!Tidying, R!cloudState, R!Left, R!Blank
<1>7. CASE R!Others
  <2>1. v1'.route = v1.route /\ (v1.template # "probe" => v1'.template # "probe")
    BY <1>7 DEF R!Others, R!IInv, R!Versioned, R!Fresh
  <2> QED BY <1>7, <2>1 DEF R!Others, R!Left
<1>8. CASE R!Provider
  BY <1>8 DEF R!Provider, R!Left
<1> QED BY <1>1, <1>2, <1>3, <1>4, <1>5, <1>6, <1>7, <1>8 DEF R!Next, R!Going

LEMMA LeftHolds == ASSUME R!Left PROVE R!NothingHidden
BY DEF R!Left, R!NothingHidden

----------------------------------------------------------------------------
(* The result of a switch.                                                 *)

LEMMA DoneInit == ASSUME O!Init PROVE O!Done
BY DEF O!Init, O!Done, O!ResultTrue

LEMMA DoneDispatch == ASSUME O!IInv, O!Done, O!Dispatch PROVE O!Done'
BY DEF O!IInv, O!Done, O!ResultTrue, O!Dispatch, O!At, O!Go

LEMMA DoneRuns == ASSUME O!IInv, O!Done, O!Read \/ O!Check \/ O!Stop \/ O!Pause \/ O!Paused \/ O!Again \/ O!Update \/ O!Route \/ O!Shift
               \/ O!Verify \/ O!Sched \/ O!Unchanged \/ O!SetJob \/ O!Readback \/ O!SyncMain \/ O!SyncPre \/ O!Synced \/ O!Fail PROVE O!Done'
<1>1. CASE O!Read
  BY <1>1 DEF O!Read, O!IInv, O!Done, O!ServesPlan, O!ResultTrue, O!Standard, O!At, O!Go
<1>2. CASE O!Check
  BY <1>2 DEF O!Check, O!IInv, O!Done, O!ServesPlan, O!ResultTrue, O!Standard, O!At, O!Go, O!StopFirst
<1>3. CASE O!Stop
  BY <1>3 DEF O!Stop, O!IInv, O!Done, O!ServesPlan, O!ResultTrue, O!Standard, O!At, O!Go
<1>4. CASE O!Pause
  BY <1>4 DEF O!Pause, O!IInv, O!Done, O!ServesPlan, O!ResultTrue, O!Standard, O!At, O!Go
<1>5. CASE O!Paused
  BY <1>5 DEF O!Paused, O!IInv, O!Done, O!ServesPlan, O!ResultTrue, O!Standard, O!At, O!Go
<1>6. CASE O!Again
  BY <1>6 DEF O!Again, O!IInv, O!Done, O!ServesPlan, O!ResultTrue, O!Standard, O!At, O!Go
<1>7. CASE O!Update
  BY <1>7 DEF O!Update, O!IInv, O!Done, O!ServesPlan, O!ResultTrue, O!Standard, O!At, O!Go, O!Updated, O!Applied, O!Set, O!Whole
<1>8. CASE O!Route
  BY <1>8 DEF O!Route, O!IInv, O!Done, O!ServesPlan, O!ResultTrue, O!Standard, O!At, O!Go
<1>9. CASE O!Shift
  BY <1>9 DEF O!Shift, O!IInv, O!Done, O!ServesPlan, O!ResultTrue, O!Standard, O!At, O!Go, O!Whole
<1>10. CASE O!Verify
  BY <1>10 DEF O!Verify, O!IInv, O!Done, O!ServesPlan, O!ResultTrue, O!Standard, O!At, O!Go
<1>11. CASE O!Sched
  BY <1>11 DEF O!Sched, O!IInv, O!Done, O!ServesPlan, O!ResultTrue, O!Standard, O!At, O!Go, O!ServesWanted
<1>12. CASE O!Unchanged
  BY <1>12 DEF O!Unchanged, O!IInv, O!Done, O!ServesPlan, O!ResultTrue, O!Standard, O!At, O!Go
<1>13. CASE O!SetJob
  BY <1>13 DEF O!SetJob, O!IInv, O!Done, O!ServesPlan, O!ResultTrue, O!Standard, O!At, O!Go
<1>14. CASE O!Readback
  BY <1>14 DEF O!Readback, O!IInv, O!Done, O!ServesPlan, O!ResultTrue, O!Standard, O!At, O!Go
<1>15. CASE O!SyncMain
  BY <1>15 DEF O!SyncMain, O!IInv, O!Done, O!ServesPlan, O!ResultTrue, O!Standard, O!At, O!Go, O!ApprovedJob
<1>16. CASE O!SyncPre
  BY <1>16 DEF O!SyncPre, O!IInv, O!Done, O!ServesPlan, O!ResultTrue, O!Standard, O!At, O!Go, O!ApprovedJob
<1>17. CASE O!Synced
  BY <1>17 DEF O!Synced, O!IInv, O!Done, O!ServesPlan, O!ResultTrue, O!Standard, O!At, O!Go
<1>18. CASE O!Fail
  BY <1>18 DEF O!Fail, O!IInv, O!Done, O!ServesPlan, O!ResultTrue, O!Standard, O!At, O!Go
<1> QED BY <1>1, <1>2, <1>3, <1>4, <1>5, <1>6, <1>7, <1>8, <1>9, <1>10, <1>11, <1>12, <1>13, <1>14, <1>15, <1>16, <1>17, <1>18

LEMMA DoneStep ==
  ASSUME O!IInv, O!Done, O!Next \/ UNCHANGED vars
  PROVE  O!Done'
<1>1. CASE O!Other
  BY <1>1 DEF O!Other, O!Done, O!ServesPlan, O!ResultTrue
<1>2. CASE UNCHANGED vars
  BY <1>2 DEF vars, O!Done, O!ServesPlan, O!ResultTrue, O!Standard, O!Enabled, O!Permits, O!Layered
<1> QED BY <1>1, <1>2, DoneDispatch, DoneRuns DEF O!Next

LEMMA NoDriftTrue == ASSUME O!IInv PROVE O!NoDriftIsTrue
<1> SUFFICES ASSUME O!Drift(v6, v3) = {} PROVE O!ServesPlan(v6.serving)
  BY DEF O!NoDriftIsTrue, O!ServesPlan
<1>1. DOMAIN v6.serving = {"on", "target", "force", "opt", "extra"}
  BY DEF O!IInv, O!Whole
<1>2. \A k \in DOMAIN v6.serving : O!Applied(v6.serving, v3)[k] = v6.serving[k]
  BY DEF O!Drift
<1>3. O!Applied(v6.serving, v3).on = v6.serving.on /\ O!Applied(v6.serving, v3).target = v6.serving.target
      /\ O!Applied(v6.serving, v3).force = v6.serving.force /\ O!Applied(v6.serving, v3).opt = v6.serving.opt
  BY <1>1, <1>2
<1> QED BY <1>1, <1>3 DEF O!Applied, O!Set, O!ServesPlan

LEMMA ResultHolds == ASSUME O!Done PROVE O!ResultTrue
BY DEF O!Done

----------------------------------------------------------------------------
(* A command that is filled.                                               *)

LEMMA ReconciledInit == ASSUME A!Init PROVE A!Reconciled
<1>1. \A s \in A!Held : v2[s] = 2
  BY DEF A!Init
<1>2. v3 = v2 \/ v3 = [v2 EXCEPT !.a = IF v1.a = v1.b THEN 3 ELSE 2]
  BY DEF A!Init
<1>3. DOMAIN v3 = A!Held /\ \A s \in A!Held : v3[s] \in Int
  BY <1>1, <1>2 DEF A!Init
<1>4. DOMAIN v10.value = A!Held /\ v8 = "idle"
  BY DEF A!Init, A!NoSnap
<1> QED BY <1>3, <1>4 DEF A!Reconciled

LEMMA ReconciledMarket ==
  ASSUME A!IInv, A!Reconciled, NEW s \in A!Held, A!Move(s) \/ A!Remark(s) \/ A!Trade(s)
  PROVE  A!Reconciled'
<1>1. UNCHANGED A!request
  BY DEF A!Move, A!Remark, A!Trade
<1>2. A!Held' = A!Held
  BY DEF A!Move, A!Remark, A!Trade, A!Held
<1>3. v3' = v3 \/ v3' = [v3 EXCEPT ![s] = v2[s]]
  BY DEF A!Move, A!Remark, A!Trade
<1>4. DOMAIN v3' = A!Held' /\ \A t \in A!Held' : v3'[t] \in Int
  BY <1>2, <1>3 DEF A!Reconciled, A!IInv, A!Sound
<1> QED BY <1>1, <1>2, <1>4 DEF A!request, A!Reconciled, A!Explained, A!Open, A!Proposed, A!Current

\* Steps of the consumer that leave the market alone, and nothing to reconcile.
LEMMA ReconciledApart ==
  ASSUME A!IInv, A!Reconciled, UNCHANGED A!market, DOMAIN v10'.value = A!Held, v8' \notin {"value", "propose", "decide"}
  PROVE  A!Reconciled'
BY DEF A!Reconciled, A!market, A!Held

LEMMA ReconciledLoad == ASSUME A!IInv, A!Reconciled, A!Load PROVE A!Reconciled'
<1>1. /\ v8' = "value" /\ UNCHANGED <<A!market, v11>>
      /\ v10' = [quantity |-> v1, value |-> [s \in A!Held |-> v1[s] * v3[s]]] /\ v12' = (v1[A!Foreign] # 0)
  BY DEF A!Load
<1>2. A!Held' = A!Held /\ DOMAIN v10'.value = A!Held
  BY <1>1 DEF A!market, A!Held
<1>3. \A s \in A!Syms : s \in A!Held /\ v1[s] \in Int /\ v3[s] \in Int
  BY DEF A!IInv, A!Sound, A!Reconciled, A!Held
<1>4. \A s \in A!Syms \ A!Open' : v1[s] = 0
  BY <1>1 DEF A!Open
<1>5. \A s \in A!Syms \ A!Open' : v10'.value[s] = 0
  BY <1>1, <1>3, <1>4
<1> QED BY <1>1, <1>2, <1>5 DEF A!Reconciled, A!market

LEMMA ReconciledValue == ASSUME A!IInv, A!Reconciled, A!Value PROVE A!Reconciled'
<1>1. v8 = "value" /\ v8' \in {"value", "propose"} /\ UNCHANGED <<A!market, v5, v9, v13>>
  BY DEF A!Value
<1>2. A!Held' = A!Held
  BY <1>1 DEF A!market, A!Held
<1>3. CASE A!Open \subseteq DOMAIN v11
  <2>1. /\ v8' = "propose" /\ UNCHANGED <<v11, v10>>
        /\ v12' = (v12 \/ ~A!Balanced \/ \E s \in A!Open : ~A!ValuesAgree(s))
    BY <1>3 DEF A!Value
  <2>2. ~v12' => ~v12 /\ \A s \in A!Open : A!ValuesAgree(s)
    BY <2>1
  <2>3. ASSUME ~v12', NEW s \in A!Syms PROVE A!Explained(s)'
    BY <1>1, <1>3, <2>1, <2>2, <2>3 DEF A!Reconciled, A!Explained, A!Open, A!ValuesAgree, A!Quoted
  <2> QED BY <1>1, <1>2, <2>1, <2>2, <2>3 DEF A!Reconciled, A!Open, A!market
<1>4. CASE ~(A!Open \subseteq DOMAIN v11)
  <2>1. \E s \in A!Open \ DOMAIN v11 :
           \/ v11' = A!Cached(s) /\ UNCHANGED <<v8, v12, v10>>
           \/ v10' = [v10 EXCEPT !.quantity[s] = 0] /\ v12' = TRUE /\ UNCHANGED <<v8, v11>>
    BY <1>4 DEF A!Value
  <2>2. CASE UNCHANGED <<v8, v12, v10>>
    BY <1>1, <1>2, <2>2 DEF A!Reconciled, A!Open, A!market
  <2>3. CASE \E s \in A!Open : v10' = [v10 EXCEPT !.quantity[s] = 0] /\ v12' = TRUE /\ UNCHANGED <<v8, v11>>
    BY <1>1, <1>2, <2>3 DEF A!Reconciled, A!IInv, A!Read, A!NoSnap, A!market
  <2> QED BY <2>1, <2>2, <2>3
<1> QED BY <1>3, <1>4

LEMMA ReconciledPropose == ASSUME A!IInv, A!Reconciled, A!Propose PROVE A!Reconciled'
<1> DEFINE off == {s \in A!Syms : A!Proposed(s)}
<1>1. PICK failed \in SUBSET (off \ DOMAIN v11) :
        /\ v11' = [t \in DOMAIN v11 \cup (off \ failed) |-> A!Quoted(t)]
        /\ v12' = (v12 \/ failed # {})
        /\ v13' = [s \in off \ failed |-> A!Effect(A!Current(s), v5[v9].targets[s])]
  BY DEF A!Propose
<1>2. v8 = "propose" /\ v8' = "decide" /\ UNCHANGED <<A!market, v5, v9, v10>>
  BY DEF A!Propose
<1>3. A!Held' = A!Held /\ A!Open' = A!Open
  BY <1>2 DEF A!market, A!Held, A!Open
<1>4. SUFFICES ASSUME ~v12'
               PROVE  /\ v10.quantity[A!Foreign] = 0 /\ \A s \in A!Syms \ A!Open : v10.value[s] = 0
                      /\ \A s \in A!Syms : A!Explained(s)'
                      /\ v13' = [s \in {t \in A!Syms : A!Proposed(t)'} |-> A!Effect(A!Current(s)', v5[v9].targets[s])]
  BY <1>2, <1>3 DEF A!Reconciled, A!market
<1>5. failed = {} /\ ~v12
  BY <1>1, <1>4
<1>6. \A t \in DOMAIN v11 : t \in DOMAIN v11' /\ v11'[t] = v11[t]
  BY <1>1 DEF A!Quoted
<1>7. \A s \in A!Syms : A!Explained(s)
  BY <1>2, <1>5 DEF A!Reconciled
<1>8. \A s \in A!Open : s \in A!Syms /\ s \in DOMAIN v11
  BY <1>7 DEF A!Open, A!Explained
<1>9. \A s \in A!Syms : A!Current(s)' = A!Current(s)
  BY <1>2, <1>3, <1>6, <1>8 DEF A!Current
<1>10. \A s \in A!Syms : A!Proposed(s)' = A!Proposed(s)
  BY <1>2, <1>9 DEF A!Proposed
<1>11. off \ failed = {t \in A!Syms : A!Proposed(t)'}
  BY <1>5, <1>10
<1>12. v13' = [s \in {t \in A!Syms : A!Proposed(t)'} |-> A!Effect(A!Current(s)', v5[v9].targets[s])]
  BY <1>1, <1>9, <1>11
<1>13. \A s \in A!Syms : A!Explained(s)'
  BY <1>2, <1>3, <1>6, <1>7 DEF A!Explained
<1> QED BY <1>2, <1>5, <1>12, <1>13 DEF A!Reconciled

LEMMA ReconciledStep ==
  ASSUME A!IInv, A!Reconciled, A!Next \/ UNCHANGED vars
  PROVE  A!Reconciled'
<1>0. A!IInv /\ DOMAIN v10.value = A!Held
  BY DEF A!Reconciled
<1>1. CASE A!Start
  BY <1>0, <1>1, ReconciledApart DEF A!Start
<1>2. CASE A!Claim
  BY <1>0, <1>2, ReconciledApart DEF A!Claim
<1>3. CASE A!Unavailable \/ A!Decide \/ A!Kill
  <2>1. A!Forgotten /\ UNCHANGED A!market /\ v8' \in {"claim", "killed"}
    BY <1>3 DEF A!Unavailable, A!Decide, A!Kill, A!Ended
  <2>2. DOMAIN v10'.value = A!Held
    BY <2>1 DEF A!Forgotten, A!NoSnap, A!market, A!Held
  <2> QED BY <2>1, <2>2, ReconciledApart
<1>4. CASE \E sound \in BOOLEAN : A!Plan(sound)
  <2>1. UNCHANGED A!market /\ v8' = "admit" /\ v10' = [quantity |-> v1, value |-> [s \in A!Held |-> v1[s] * v2[s]]]
    BY <1>4 DEF A!Plan
  <2>2. DOMAIN v10'.value = A!Held
    BY <2>1
  <2> QED BY <2>1, <2>2, ReconciledApart
<1>5. CASE A!Admit \/ A!Rebalance \/ A!Submit
  BY <1>0, <1>5, ReconciledApart DEF A!Admit, A!Rebalance, A!Submit
<1>6. CASE A!Liquidate
  <2>1. UNCHANGED A!market /\ v8' = "order" /\ v10' = [A!NoSnap EXCEPT !.quantity = v1]
    BY <1>6 DEF A!Liquidate
  <2>2. DOMAIN v10'.value = A!Held
    BY <2>1 DEF A!NoSnap
  <2> QED BY <2>1, <2>2, ReconciledApart
<1>7. CASE UNCHANGED vars
  BY <1>7 DEF vars, A!Reconciled, A!Explained, A!Open, A!Held, A!Proposed, A!Current
<1> QED BY <1>1, <1>2, <1>3, <1>4, <1>5, <1>6, <1>7, ReconciledMarket, ReconciledLoad, ReconciledValue, ReconciledPropose
        DEF A!Next

LEMMA ReconciledHolds == ASSUME A!IInv, A!Reconciled PROVE A!FilledReconciled
<1> SUFFICES ASSUME A!Settled PROVE /\ v10.quantity[A!Foreign] = 0
                                    /\ \A s \in A!Syms :
                                         IF s \in DOMAIN v13
                                           THEN v13[s] = A!Effect(v10.value[s], v5[v9].targets[s])
                                           ELSE v5[v9].targets[s] = v10.value[s]
  BY DEF A!FilledReconciled
<1>1. v8 = "decide" /\ ~v12
  BY DEF A!Settled, A!All
<1>2. \A s \in A!Syms : A!Current(s) = v10.value[s]
  BY <1>1 DEF A!Reconciled, A!Explained, A!Current
<1>3. v13 = [s \in {t \in A!Syms : A!Proposed(t)} |-> A!Effect(A!Current(s), v5[v9].targets[s])]
  BY <1>1 DEF A!Reconciled
<1>4. v10.quantity[A!Foreign] = 0
  BY <1>1 DEF A!Reconciled
<1>5. ASSUME NEW s \in A!Syms
      PROVE IF s \in DOMAIN v13 THEN v13[s] = A!Effect(v10.value[s], v5[v9].targets[s])
                                ELSE v5[v9].targets[s] = v10.value[s]
  BY <1>2, <1>3, <1>5 DEF A!Proposed
<1> QED BY <1>4, <1>5

----------------------------------------------------------------------------
(* The outcome of a warm recovery.                                         *)

LEMMA FatedInit == ASSUME W!Init PROVE W!Fated
BY DEF W!Init, W!Fated, W!Late, W!None

LEMMA FatedGoes ==
  ASSUME W!IInv, W!Overtaken, W!Fated,
         W!Start \/ W!Check \/ W!Read \/ W!Watch \/ W!Prove \/ W!Raise \/ W!Recover \/ W!HealthChanges \/ W!Expire \/ W!Kill \/ UNCHANGED vars
  PROVE  W!Fated'
<1>1. v1' = v1 /\ UNCHANGED <<v3, v4>>
  BY DEF W!Start, W!Check, W!Read, W!Watch, W!Prove, W!Raise, W!Recover, W!HealthChanges, W!Expire, W!Kill, W!cloud, W!process, vars
<1>2. CASE W!Start
  BY <1>1, <1>2 DEF W!Start, W!FirstAttempt, W!Fated, W!Late
<1>3. CASE W!Check
  BY <1>1, <1>3 DEF W!Check, W!IInv, W!Fated, W!Late
<1>4. CASE W!Read
  BY <1>1, <1>4 DEF W!Read, W!IInv, W!Kinds, W!Intent, W!Fated, W!Late
<1>5. CASE W!Watch
  BY <1>1, <1>5 DEF W!Watch, W!IInv, W!Fated, W!Late
<1>6. CASE W!Prove
  BY <1>1, <1>6 DEF W!Prove, W!Fated, W!Late
<1>7. CASE W!Raise
  BY <1>1, <1>7 DEF W!Raise, W!Fated, W!Late
<1>8. CASE W!Recover
  BY <1>1, <1>8 DEF W!Recover, W!Fated, W!Late
<1>9. CASE W!HealthChanges \/ W!Expire \/ UNCHANGED vars
  BY <1>1, <1>9 DEF W!HealthChanges, W!Expire, W!cloud, W!process, vars, W!Fated, W!Late
<1>10. CASE W!Kill
  BY <1>1, <1>10 DEF W!Kill, W!Fated, W!Late
<1> QED BY <1>2, <1>3, <1>4, <1>5, <1>6, <1>7, <1>8, <1>9, <1>10

LEMMA FatedPut == ASSUME W!IInv, W!Overtaken, W!Fated, W!Put PROVE W!Fated'
<1> DEFINE p == [before |-> v9, to |-> W!Goal(v6)]
           w == [kind |-> v6, rv |-> v9.rv, to |-> W!Goal(v6)]
<1>1. /\ v10' = p /\ v4' = v4 \cup {w} /\ v5 = "put" /\ v5' = "wait"
      /\ UNCHANGED <<v1, v3, v6, v7, v8, v9, v11>>
  BY DEF W!Put, W!cloud
<1>2. p # W!None /\ p.to = W!Goal(v6) /\ w.rv = v9.rv /\ w.kind = v6 /\ w.to = W!Goal(v6)
  BY DEF W!None
<1>3. W!Goal(v6).want = W!Asks[v6]
  BY DEF W!Goal
<1>4. v6 # "restore" => v4 = {}
  BY <1>1 DEF W!Fated
<1>5. v7 \notin {"none", "SUCCEEDED", "FAILED_WARM_RESTORED"}
  BY <1>1 DEF W!Fated, W!IInv
<1>6. ~v11 => v6 = "create" /\ W!Asks[v6] = "warm"
  <2>1. v11 = (v6 # "create")
    BY <1>1 DEF W!Overtaken
  <2>2. W!Asks["create"] = "warm"
    BY DEF W!Asks
  <2> QED BY <2>1, <2>2
<1> HIDE DEF p, w
<1>7. /\ \A v \in v4' : v.kind = v6 => v.rv = v9.rv
      /\ v6 # "restore" => \A x, v \in v4' : x = v /\ x.kind = v6
  BY <1>1, <1>2, <1>4 DEF W!Fated
<1>8. v6 # "restore" => \A v \in v4' : v.kind # "restore"
  BY <1>1, <1>2, <1>4
<1>9. ~v3 /\ ~v11 => v1.want = "warm" /\ \A v \in v4' : v.to.want = "warm"
  BY <1>1, <1>2, <1>3, <1>6 DEF W!Fated
<1> QED BY <1>1, <1>2, <1>3, <1>5, <1>7, <1>8, <1>9 DEF W!Fated

LEMMA FatedSettle == ASSUME W!IInv, W!Overtaken, W!Fated, W!Settle PROVE W!Fated'
<1>1. /\ v5 = "settle" /\ v10' = W!None /\ UNCHANGED <<v1, v3, v4, v9>>
      /\ v1.want = v10.to.want
  BY DEF W!Settle, W!SpecOf, W!cloud
<1>2. v1.want = W!Asks[v6] /\ v6 \in W!Kinds
  BY <1>1 DEF W!Fated, W!IInv
<1>3. CASE v6 = "create"
  BY <1>1, <1>2, <1>3 DEF W!Settle, W!IInv, W!Fated
<1>4. CASE v6 = "activate"
  BY <1>1, <1>2, <1>4 DEF W!Settle, W!Fated
<1>5. CASE v6 = "promote"
  BY <1>1, <1>2, <1>5 DEF W!Settle, W!Fated, W!Asks
<1>6. CASE v6 = "restore"
  BY <1>1, <1>2, <1>6 DEF W!Settle, W!Fated, W!Asks, W!Overtaken, W!Late
<1> QED BY <1>2, <1>3, <1>4, <1>5, <1>6 DEF W!Kinds

LEMMA FatedRollback == ASSUME W!IInv, W!Overtaken, W!Fated, W!Rollback PROVE W!Fated'
<1>1. /\ v5 = "read" /\ v6 = "restore" /\ UNCHANGED <<v1, v3, v4, v6, v10, v11>>
  BY DEF W!Rollback, W!cloud
<1>2. CASE W!AlreadyWarm
  <2>1. v4 = {} /\ v1.want = "warm" /\ v5' = "over" /\ v7' = "FAILED_WARM_RESTORED"
    BY <1>1, <1>2 DEF W!AlreadyWarm, W!Fated, W!Rollback
  <2> QED BY <1>1, <2>1 DEF W!Fated, W!Late
<1>3. CASE ~W!AlreadyWarm
  BY <1>1, <1>3 DEF W!Rollback, W!Fated
<1> QED BY <1>2, <1>3

LEMMA FatedArrive == ASSUME W!IInv, W!Overtaken, W!Fated, NEW w \in v4, W!Arrive(w) PROVE W!Fated'
<1>1. v4' = v4 \ {w} /\ UNCHANGED <<v3, v6, v7, v8, v9, v10, v11>>
  BY DEF W!Arrive
<1>2. v1.rv \in Nat /\ \A v \in v4 : v.rv \in Nat /\ v.rv <= v1.rv
  BY DEF W!Overtaken, W!Past
<1>3. CASE v1.rv # w.rv
  <2>1. v1' = v1 /\ v5' = IF v5 = "wait" /\ w.kind = v6 THEN "recover" ELSE v5
    BY <1>3 DEF W!Arrive, W!Current
  <2> QED BY <1>1, <2>1 DEF W!Fated, W!Late
<1>4. CASE v1.rv = w.rv
  <2>1. v1'.rv = v1.rv + 1 /\ v1'.want = w.to.want
    BY <1>4 DEF W!Arrive, W!Current, W!Updated, W!Overtaken
  <2>2. IF v5 = "wait" /\ w.kind = v6 THEN v5' \in {"recover", "settle"} ELSE v5' = v5
    BY <1>4 DEF W!Arrive, W!Current
  <2>3. \A v \in v4' : v.rv < v1'.rv
    BY <1>1, <1>2, <2>1
  <2>4. ~(~v3 /\ (v5 \in {"settle", "prove"} \/ v7 \in {"SUCCEEDED", "FAILED_WARM_RESTORED"}))
    BY <1>2, <1>4 DEF W!Fated, W!Late
  <2>5. v5' = "settle" /\ v5 # "settle" => v5 = "wait" /\ w.kind = v6
    BY <2>2
  <2>6. v5' = "settle" /\ v6 # "restore" => v4' = {}
    BY <1>1, <2>5 DEF W!Fated
  <2>7. ~v3 /\ ~v11 => v1'.want = "warm" /\ \A v \in v4' : v.to.want = "warm"
    BY <1>1, <2>1 DEF W!Fated
  <2> QED BY <1>1, <2>1, <2>2, <2>3, <2>4, <2>5, <2>6, <2>7 DEF W!Fated, W!Late
<1> QED BY <1>3, <1>4

LEMMA FatedMoves == ASSUME W!IInv, W!Overtaken, W!Fated, W!Reconcile \/ W!Foreign PROVE W!Fated'
<1>1. UNCHANGED <<v5, v6, v7, v8, v9, v10, v11, v4>> /\ (v3 => v3')
  BY DEF W!Reconcile, W!Foreign, W!process
<1>2. CASE W!Reconcile
  <2>1. v1'.rv = v1.rv + 1 /\ v1'.want = v1.want /\ v3' = v3
    BY <1>2 DEF W!Reconcile, W!Overtaken
  <2>2. v1.rv \in Nat /\ \A v \in v4 : v.rv \in Nat
    BY DEF W!Overtaken
  <2>3. W!Late => W!Late'
    BY <1>1, <2>1, <2>2 DEF W!Late
  <2> QED BY <1>1, <2>1, <2>3 DEF W!Fated
<1>3. CASE W!Foreign
  <2>1. v3' = TRUE
    BY <1>3 DEF W!Foreign
  <2> QED BY <1>1, <2>1 DEF W!Fated
<1> QED BY <1>2, <1>3

LEMMA FatedStep ==
  ASSUME W!IInv, W!Overtaken, W!Fated, W!Next \/ UNCHANGED vars
  PROVE  W!Fated'
BY FatedGoes, FatedPut, FatedSettle, FatedRollback, FatedArrive, FatedMoves DEF W!Next, W!Forward, W!Backward, W!Around

LEMMA FatedHolds == ASSUME W!Fated PROVE W!OutcomeIsTrue
<1>1. v7 = "FAILED" /\ ~v11 /\ ~v3 => v1.want = "warm"
  BY DEF W!Fated
<1> QED BY <1>1 DEF W!Fated, W!OutcomeIsTrue

----------------------------------------------------------------------------
(* A reading of cash.                                                      *)

LEMMA CashStarts == ASSUME B!Init PROVE B!IInv
BY TimesCount DEF B!Init, B!Runs, B!Finished, B!Steps, B!Cleaning, B!Blank, B!IInv, B!Made, B!Took, B!Way, B!Tells

LEMMA CashCloud ==
  ASSUME B!IInv, B!Deploy \/ \E r \in B!Runs : B!Fire(r) \/ B!Ends(r)
  PROVE  B!IInv'
<1>1. UNCHANGED <<v1, v3, v4, B!program>>
  BY DEF B!Deploy, B!Fire, B!Ends
<1>2. CASE UNCHANGED <<v5, v6>>
  BY <1>1, <1>2 DEF B!program, B!IInv, B!Made, B!Took, B!Way, B!Tells, B!Finished
<1>3. CASE \E r \in B!Runs : B!Fire(r)
  <2>1. PICK r \in B!Runs : B!Fire(r)
    BY <1>3
  <2>2. /\ v1 = "tag" /\ r <= v7 /\ v5[r] = "none" /\ v6' = v6
        /\ v5' = [v5 EXCEPT ![r] = "active"]
    BY <2>1, TimesCount DEF B!Fire, B!IInv, B!Made
  <2>3. \A s \in B!Runs : s # r => v5'[s] = v5[s]
    BY <2>2 DEF B!IInv, B!Made
  <2>4. B!Finished' = B!Finished /\ v5'[r] = "active" /\ DOMAIN v5' = B!Runs
    BY <2>2 DEF B!Finished, B!IInv, B!Made
  <2> QED BY <1>1, <2>2, <2>3, <2>4 DEF B!program, B!IInv, B!Made, B!Took, B!Way, B!Tells, B!Finished
<1>4. CASE \E r \in B!Runs : B!Ends(r)
  <2>1. PICK r \in B!Runs : B!Ends(r)
    BY <1>4
  <2>2. /\ v5[r] = "active" /\ v6' = [v6 EXCEPT ![r] = v7]
        /\ \E w \in {"whole", "part", "failed"} : v5' = [v5 EXCEPT ![r] = w] /\ (v1 = "job" => w # "part")
    BY <2>1 DEF B!Ends, B!Complete
  <2>3. PICK w \in {"whole", "part", "failed"} : v5' = [v5 EXCEPT ![r] = w] /\ (v1 = "job" => w # "part")
    BY <2>2
  <2>4. /\ \A s \in B!Runs : s # r => v5'[s] = v5[s] /\ v6'[s] = v6[s]
        /\ v5'[r] = w /\ v6'[r] = v7 /\ DOMAIN v5' = B!Runs /\ DOMAIN v6' = B!Runs
    BY <2>2, <2>3 DEF B!IInv, B!Made
  <2>5. B!Finished' = B!Finished \cup {r} /\ r \notin B!Finished
    BY <2>2, <2>4 DEF B!Finished
  <2>6. /\ v12' # 0 => v12' \in B!Finished' /\ v6'[v12'] = v7' /\ v12 # r
        /\ v13'.observed => v12' # 0 /\ v5'[v12'] = "whole"
    BY <1>1, <2>4, <2>5 DEF B!program, B!IInv, B!Took, B!Finished
  <2>7. B!Made'
    BY <1>1, <2>2, <2>4, <2>5 DEF B!program, B!IInv, B!Made
  <2>8. v1 = "job" /\ v8 \in {"create", "verify", "execute"} => v5'[v7] = "none"
    <3>1. v8 # "idle" => v7 \in B!Runs
      BY TimesCount DEF B!IInv, B!Way, B!Made, B!Runs
    <3> QED BY <2>2, <2>4, <3>1 DEF B!IInv, B!Way
  <2>9. v1 = "job" /\ v8 = "delete" => v5'[v7] # "active"
    <3>1. v8 # "idle" => v7 \in B!Runs
      BY TimesCount DEF B!IInv, B!Way, B!Made, B!Runs
    <3>2. w # "active"
      OBVIOUS
    <3> QED BY <2>2, <2>4, <3>1, <3>2 DEF B!IInv, B!Way
  <2> QED BY <1>1, <2>6, <2>7, <2>8, <2>9 DEF B!program, B!IInv, B!Took, B!Way, B!Tells
<1> QED BY <1>2, <1>3, <1>4 DEF B!Deploy

LEMMA CashDispatch == ASSUME B!IInv, B!Dispatch PROVE B!IInv'
<1>1. /\ v7' = v7 + 1 /\ v7' \in 1..Times /\ UNCHANGED <<v1, B!cloud>> /\ v10' = {} /\ v12' = 0 /\ v13' = B!Blank
      /\ v8' = (IF v1 = "tag" THEN "compare" ELSE "create") /\ v7 \in Nat
  BY TimesCount DEF B!Dispatch, B!Goto, B!IInv, B!Made
<1>2. v7' \notin v4 \cup v3 /\ v4 \cup v3 \subseteq 1..v7'
  BY <1>1 DEF B!IInv, B!Made
<1>3. v5[v7'] = "none" /\ v7' \notin B!Finished /\ \A r \in B!Runs : r = v7' => v5[r] = "none"
  BY <1>1, TimesCount DEF B!IInv, B!Made, B!Runs, B!Finished
<1>4. \A r \in B!Runs : v5[r] # "none" => r <= v7'
  BY <1>1, TimesCount DEF B!IInv, B!Made, B!Runs
<1>5. B!Finished' = B!Finished
  BY <1>1 DEF B!cloud, B!Finished
<1>6. B!Made'
  BY <1>1, <1>2, <1>3, <1>4, <1>5 DEF B!cloud, B!IInv, B!Made
<1>7. B!Took' /\ B!Way' /\ B!Tells'
  <2>1. v13'.observed = FALSE /\ v13'.jobClean = FALSE /\ v13'.restored = FALSE /\ DOMAIN v13' = DOMAIN B!Blank
    BY <1>1 DEF B!Blank
  <2>2. v8' \in {"compare", "create"} /\ (v8' = "compare" => v1 = "tag") /\ v7' > 0 /\ (v8' = "create" => v1 # "tag")
    BY <1>1
  <2> QED BY <1>1, <1>3, <2>1, <2>2 DEF B!cloud, B!IInv, B!Took, B!Way, B!Tells, B!Steps
<1> QED BY <1>6, <1>7 DEF B!IInv

\* A step of the program that takes nothing, or raises: what may have been
\* created of this dispatch is known.
LEMMA CashRaises ==
  ASSUME B!IInv, B!Raised, UNCHANGED <<v1, v5, v6, v7>>, v13 = B!Blank, v7 > 0,
         v4' \cup v3' \subseteq 1..v7, v4 \subseteq v4', "job" \notin v10' => v7 \notin v4',
         "tag" \notin v10' => v7 \notin v3', v12' # 0 => v12' \in B!Finished /\ v6[v12'] = v7
  PROVE  B!IInv'
<1>1. /\ v13' = [B!Clean EXCEPT !.observed = FALSE] /\ v8' \in {"owned", "untag", "baseline"}
      /\ v8' = "owned" <=> "job" \in v10'
  BY DEF B!Raised, B!Cleanup
<1>2. /\ DOMAIN v13' = DOMAIN B!Blank /\ ~v13'.observed /\ ~v13'.restored
      /\ v13'.jobClean => "job" \notin v10'
  BY <1>1 DEF B!Clean, B!Blank
<1>3. B!Made'
  BY DEF B!IInv, B!Made, B!Finished
<1>4. B!Finished' = B!Finished
  BY DEF B!Finished
<1> QED BY <1>1, <1>2, <1>3, <1>4 DEF B!IInv, B!Took, B!Way, B!Tells, B!Steps

\* A step of the program that goes on.
LEMMA CashGoes ==
  ASSUME B!IInv, UNCHANGED <<v1, v5, v6, v7, v13>>, v13 = B!Blank, v7 > 0,
         v4' \cup v3' \subseteq 1..v7, v4 \subseteq v4', "job" \notin v10' => v7 \notin v4',
         "tag" \notin v10' => v7 \notin v3', v12' # 0 => v12' \in B!Finished /\ v6[v12'] = v7,
         v8' \in B!Steps, v8' = "collect" => v12' # 0, v8' \in {"verify", "execute"} => v7 \in v4',
         v1 = "job" /\ v8' \in {"create", "verify", "execute"} => v5[v7] = "none",
         v8' = "execute" => v1 = "job", v8' \in {"compare", "tag", "tagged"} => v1 = "tag"
  PROVE  B!IInv'
<1>1. B!Made'
  BY DEF B!IInv, B!Made, B!Finished
<1>2. B!Finished' = B!Finished
  BY DEF B!Finished
<1> QED BY <1>1, <1>2 DEF B!IInv, B!Took, B!Way, B!Tells, B!Steps, B!Cleaning, B!Blank

LEMMA CashSteps ==
  ASSUME B!IInv, B!Compare \/ B!Tag \/ B!Tagged \/ B!Create \/ B!Verify \/ B!Await \/ B!Collect \/ B!Raise
  PROVE  B!IInv'
<1>1. v8 \in B!Steps /\ UNCHANGED <<v1, v5, v6, v7>> /\ v10 \subseteq v10'
  BY DEF B!Compare, B!Tag, B!Tagged, B!Create, B!Verify, B!Await, B!Collect, B!Raise, B!Steps, B!cloud, B!Attempts
<1>2. v13 = B!Blank /\ v7 > 0 /\ v7 \in 1..v7
  BY <1>1, TimesCount DEF B!IInv, B!Way, B!Made, B!Steps
<1>3. /\ v4' \cup v3' \subseteq 1..v7 /\ v4 \subseteq v4'
      /\ "job" \notin v10' => v7 \notin v4' 
      /\ "tag" \notin v10' => v7 \notin v3'
  <2>1. v4 \cup v3 \subseteq 1..v7 /\ ("job" \notin v10 => v7 \notin v4) /\ ("tag" \notin v10 => v7 \notin v3)
    BY DEF B!IInv, B!Made
  <2>2. CASE B!Tag
    BY <1>2, <2>1, <2>2 DEF B!Tag
  <2>3. CASE B!Create
    BY <1>2, <2>1, <2>3 DEF B!Create, B!Attempts
  <2>4. CASE UNCHANGED <<v4, v3>>
    BY <1>1, <2>1, <2>4
  <2> QED BY <2>2, <2>3, <2>4 DEF B!Compare, B!Tagged, B!Verify, B!Await, B!Collect, B!Raise, B!cloud
<1>4. v12' # 0 => v12' \in B!Finished /\ v6[v12'] = v7
  <2>1. CASE B!Await
    <3>1. v12' \in B!Reported
      BY <2>1 DEF B!Await
    <3>2. v7 \in B!Finished => v6[v7] = v7
      BY DEF B!IInv, B!Made
    <3> QED BY <3>1, <3>2 DEF B!Reported
  <2>2. CASE v12' = v12
    BY <2>2 DEF B!IInv, B!Took
  <2> QED BY <2>1, <2>2 DEF B!Compare, B!Tag, B!Tagged, B!Create, B!Verify, B!Collect, B!Raise
<1>5. v1 \in {"tag", "job"}
  BY DEF B!IInv, B!Made
<1>6. CASE B!Raised
  BY <1>1, <1>2, <1>3, <1>4, <1>6, CashRaises
<1>7. CASE B!Collect
  <2>1. /\ v8 = "collect" /\ UNCHANGED <<v4, v3, v12>> /\ v8' = B!Cleanup /\ v13' = [B!Clean EXCEPT !.observed = B!Projected]
        /\ v10' = v10
    BY <1>7 DEF B!Collect, B!cloud
  <2>2. v12 # 0 /\ v12 \in B!Finished /\ v6[v12] = v7 /\ v12 \in B!Runs
    BY <2>1 DEF B!IInv, B!Took, B!Way, B!Finished
  <2>3. B!Projected => v5[v12] = "whole"
    BY <1>5, <2>2 DEF B!Projected, B!IInv, B!Made
  <2>4. /\ v8' \in {"owned", "untag", "baseline"}
        /\ v8' = "owned" <=> "job" \in v10'
    BY <2>1 DEF B!Cleanup
  <2>5. /\ DOMAIN v13' = DOMAIN B!Blank /\ v13'.observed = B!Projected /\ ~v13'.restored
        /\ v13'.jobClean <=> "job" \notin v10'
    BY <1>2, <2>1 DEF B!Clean, B!Blank
  <2>6. B!Made' /\ B!Finished' = B!Finished
    BY <1>1, <2>1 DEF B!IInv, B!Made, B!Finished
  <2> QED BY <1>1, <1>2, <1>3, <2>1, <2>2, <2>3, <2>4, <2>5, <2>6 DEF B!IInv, B!Took, B!Way, B!Tells, B!Steps
<1>8. CASE v8' \in B!Steps /\ v13' = v13
  <2>1. v8' = "collect" => v12' # 0
    <3>1. v8' = "collect" => B!Await
      BY <1>8 DEF B!Compare, B!Tag, B!Tagged, B!Create, B!Verify, B!Await, B!Collect, B!Raise, B!Raised, B!Cleanup, B!Goto, B!Steps
    <3>2. B!Await => v12' # 0
      BY TimesCount DEF B!Await, B!Reported, B!Finished, B!Runs
    <3> QED BY <3>1, <3>2
  <2>2. v8' \in {"verify", "execute"} => v7 \in v4'
    BY <1>8 DEF B!Compare, B!Tag, B!Tagged, B!Create, B!Verify, B!Await, B!Collect, B!Raise, B!Raised, B!Cleanup, B!Goto, B!cloud, B!IInv, B!Way
  <2>3. v1 = "job" /\ v8' \in {"create", "verify", "execute"} => v5[v7] = "none"
    BY <1>5, <1>8 DEF B!Compare, B!Tag, B!Tagged, B!Create, B!Verify, B!Await, B!Collect, B!Raise, B!Raised, B!Cleanup, B!Goto, B!cloud, B!IInv, B!Way
  <2>4. v8' = "execute" => v1 = "job"
    BY <1>8 DEF B!Compare, B!Tag, B!Tagged, B!Create, B!Verify, B!Await, B!Collect, B!Raise, B!Raised, B!Cleanup, B!Goto
  <2>5. v8' \in {"compare", "tag", "tagged"} => v1 = "tag"
    BY <1>8 DEF B!Compare, B!Tag, B!Tagged, B!Create, B!Verify, B!Await, B!Collect, B!Raise, B!Raised, B!Cleanup, B!Goto, B!IInv, B!Way
  <2> QED BY <1>1, <1>2, <1>3, <1>4, <1>8, <2>1, <2>2, <2>3, <2>4, <2>5, CashGoes
<1> QED BY <1>6, <1>7, <1>8 DEF B!Compare, B!Tag, B!Tagged, B!Create, B!Verify, B!Await, B!Raise, B!Goto, B!Steps

LEMMA CashExecute == ASSUME B!IInv, B!Execute PROVE B!IInv'
<1>1. /\ v8 = "execute" /\ UNCHANGED <<v1, v2, v3, v4, v6, v7, v9, v12, v10>>
      /\ v1 = "job" /\ v7 \in v4 /\ v7 \in B!Runs /\ v7 > 0 /\ v13 = B!Blank /\ v5[v7] = "none" /\ v12 = v12'
  BY TimesCount DEF B!Execute, B!IInv, B!Way, B!Made, B!Runs, B!Steps
<1>2. "job" \in v10
  BY <1>1 DEF B!IInv, B!Made
<1>3. /\ (v8' = "await" /\ v13' = v13) \/ (v8' = "owned" /\ v13' = [v13 EXCEPT !.observed = FALSE])
      /\ v5' = v5 \/ v5' = [v5 EXCEPT ![v7] = "active"]
  BY <1>1, <1>2 DEF B!Execute, B!Goto, B!Raised, B!Cleanup, B!Clean
<1>4. v13' = B!Blank
  BY <1>1, <1>3 DEF B!Blank
<1>5. /\ DOMAIN v5' = B!Runs /\ \A r \in B!Runs : r # v7 => v5'[r] = v5[r]
      /\ v5'[v7] \in {"none", "active"}
  BY <1>1, <1>3 DEF B!IInv, B!Made
<1>6. B!Finished' = B!Finished /\ v7 \notin B!Finished
  BY <1>1, <1>5 DEF B!Finished
<1>7. B!Made'
  BY <1>1, <1>5, <1>6 DEF B!IInv, B!Made
<1>8. B!Took'
  BY <1>1, <1>4, <1>5, <1>6 DEF B!IInv, B!Took, B!Blank
<1>9. B!Way' /\ B!Tells'
  BY <1>1, <1>3, <1>4 DEF B!Way, B!Tells, B!Blank, B!Steps
<1> QED BY <1>7, <1>8, <1>9 DEF B!IInv

\* The cleanup: a reading is cancelled at most, and nothing is made.
LEMMA CashCancel == ASSUME B!IInv, B!Cancel PROVE B!IInv'
<1>1. /\ v8 = "cancel" /\ UNCHANGED <<v1, v2, v3, v4, v7, v9, v10, v11, v12, v13>> /\ v7 > 0
      /\ v8' \in {"cancel", "delete"} /\ v7 \in B!Runs
  BY TimesCount DEF B!Cancel, B!Goto, B!IInv, B!Way, B!Made, B!Runs
<1>2. CASE UNCHANGED <<v5, v6>>
  <2>1. v8' = "delete" => v5'[v7] # "active"
    BY <1>2, <1>1 DEF B!Cancel, B!Stopped, B!Goto, B!IInv, B!Way
  <2> QED BY <1>1, <1>2, <2>1 DEF B!IInv, B!Made, B!Took, B!Way, B!Tells, B!Finished, B!Steps
<1>3. CASE v5[v7] = "active" /\ v5' = [v5 EXCEPT ![v7] = "failed"] /\ v6' = [v6 EXCEPT ![v7] = v7]
  <2>1. /\ DOMAIN v5' = B!Runs /\ DOMAIN v6' = B!Runs /\ v5'[v7] = "failed" /\ v6'[v7] = v7
        /\ \A r \in B!Runs : r # v7 => v5'[r] = v5[r] /\ v6'[r] = v6[r]
    BY <1>1, <1>3 DEF B!IInv, B!Made
  <2>2. B!Finished' = B!Finished \cup {v7} /\ v7 \notin B!Finished
    BY <1>1, <1>3, <2>1 DEF B!Finished
  <2>3. B!Made'
    BY <1>1, <1>3, <2>1, <2>2 DEF B!IInv, B!Made
  <2>4. B!Took'
    BY <1>1, <2>1, <2>2 DEF B!IInv, B!Took, B!Finished
  <2>5. B!Way' /\ B!Tells'
    BY <1>1, <2>1 DEF B!IInv, B!Way, B!Tells, B!Steps
  <2> QED BY <2>3, <2>4, <2>5 DEF B!IInv
<1> QED BY <1>2, <1>3 DEF B!Cancel

LEMMA CashCleans ==
  ASSUME B!IInv, B!Owned \/ B!Delete \/ B!Listed \/ B!Untag \/ B!Baseline \/ B!Fail \/ B!Kill
  PROVE  B!IInv'
<1>1. UNCHANGED <<v1, v5, v6, v7, v10, v12>> /\ v8 \in B!Steps \cup B!Cleaning /\ v7 > 0
  BY DEF B!Owned, B!Delete, B!Listed, B!Untag, B!Baseline, B!Fail, B!Kill, B!cleaned, B!cloud, B!IInv, B!Way, B!Steps, B!Cleaning
<1>2. v4' \subseteq v4 /\ v3' \subseteq v3
  BY DEF B!Owned, B!Delete, B!Listed, B!Untag, B!Baseline, B!Fail, B!Kill, B!cleaned, B!cloud
<1>3. v7 \in B!Runs /\ v1 \in {"tag", "job"}
  BY <1>1, TimesCount DEF B!IInv, B!Made, B!Runs
<1>4. v1 = "job" => \A r \in B!Runs : r = v7 /\ v5[r] = "active" => r \in v4'
  <2>1. CASE B!Delete
    BY <2>1 DEF B!Delete, B!IInv, B!Way
  <2>2. CASE v4' = v4
    BY <2>2 DEF B!IInv, B!Made
  <2> QED BY <2>1, <2>2 DEF B!Owned, B!Listed, B!Untag, B!Baseline, B!Fail, B!Kill, B!cleaned, B!cloud
<1>5. B!Made' /\ B!Finished' = B!Finished
  <2>1. v4' \cup v3' \subseteq 1..v7
    BY <1>2 DEF B!IInv, B!Made
  <2>2. ("job" \notin v10 => v7 \notin v4') /\ ("tag" \notin v10 => v7 \notin v3')
    BY <1>2 DEF B!IInv, B!Made
  <2> QED BY <1>1, <1>4, <2>1, <2>2 DEF B!IInv, B!Made, B!Finished
<1>6. DOMAIN v13 = DOMAIN B!Blank
  BY DEF B!IInv, B!Tells
<1>7. CASE B!Owned \/ B!Delete
  <2>1. v13' = v13 /\ v8' \in {"listed", "cancel", "delete"} /\ v8 \in {"owned", "delete"}
    BY <1>7 DEF B!Owned, B!Delete, B!Goto
  <2>2. v1 = "job" /\ v8' = "delete" => v5[v7] # "active"
    BY <1>7 DEF B!Owned, B!Delete, B!Goto
  <2>3. ~v13.restored /\ (v13.jobClean => v7 \notin v4')
    BY <1>2, <2>1 DEF B!IInv, B!Tells
  <2> QED BY <1>1, <1>5, <1>6, <2>1, <2>2, <2>3 DEF B!IInv, B!Took, B!Way, B!Tells, B!Steps
<1>8. CASE B!Listed
  <2>1. /\ v8 = "listed" /\ v8' \in {"untag", "baseline"} /\ v4' = v4
        /\ v13' = IF v7 \in v4 THEN [v13 EXCEPT !.failed = TRUE, !.observed = FALSE]
                               ELSE [v13 EXCEPT !.jobClean = TRUE]
    BY <1>8 DEF B!Listed, B!Goto, B!AfterJob
  <2>2. ~v13.restored /\ (v13.jobClean => v7 \notin v4)
    BY <2>1 DEF B!IInv, B!Tells
  <2>3. DOMAIN v13' = DOMAIN B!Blank /\ ~v13'.restored /\ (v13'.jobClean => v7 \notin v4)
        /\ (v13'.observed => v13.observed /\ v13'.jobClean)
    BY <1>6, <2>1, <2>2 DEF B!Blank
  <2> QED BY <1>1, <1>5, <2>1, <2>3 DEF B!IInv, B!Took, B!Way, B!Tells, B!Steps
<1>9. CASE B!Untag
  <2>1. v8 = "untag" /\ v8' = "baseline" /\ UNCHANGED <<v4, v13>>
    BY <1>9 DEF B!Untag, B!Goto
  <2> QED BY <1>1, <1>5, <2>1 DEF B!IInv, B!Took, B!Way, B!Tells, B!Steps
<1>10. CASE B!Baseline
  <2>1. /\ v8 = "baseline" /\ v8' = "over" /\ UNCHANGED <<v4, v3>>
        /\ v13' = IF B!AsBefore THEN [v13 EXCEPT !.restored = TRUE]
                                ELSE [v13 EXCEPT !.failed = TRUE, !.observed = FALSE]
    BY <1>10 DEF B!Baseline, B!Goto
  <2>2. ~v13.restored /\ (v13.jobClean => v7 \notin v4) /\ (v13.observed => v13.jobClean)
    BY <2>1 DEF B!IInv, B!Tells
  <2>3. DOMAIN v13' = DOMAIN B!Blank /\ (v13'.restored => B!AsBefore) /\ v13'.jobClean = v13.jobClean
        /\ (v13'.observed => v13.observed /\ v13'.restored)
    BY <1>6, <2>1, <2>2 DEF B!Blank
  <2>4. v13'.restored => v7 \notin v3
    BY <2>3 DEF B!AsBefore
  <2> QED BY <1>1, <1>5, <2>1, <2>2, <2>3, <2>4 DEF B!IInv, B!Took, B!Way, B!Tells, B!Steps
<1>11. CASE B!Fail
  <2>1. /\ v8 \in B!Cleaning /\ v8' \in {"untag", "baseline", "over"} /\ UNCHANGED <<v4, v3>>
        /\ v13' = [v13 EXCEPT !.failed = TRUE, !.observed = FALSE]
    BY <1>11 DEF B!Fail, B!Goto, B!AfterJob
  <2>2. ~v13.restored /\ (v13.jobClean => v7 \notin v4)
    BY <2>1 DEF B!IInv, B!Tells, B!Cleaning
  <2>3. DOMAIN v13' = DOMAIN B!Blank /\ ~v13'.restored /\ v13'.jobClean = v13.jobClean /\ ~v13'.observed
    BY <1>6, <2>1, <2>2 DEF B!Blank
  <2> QED BY <1>1, <1>5, <2>1, <2>2, <2>3 DEF B!IInv, B!Took, B!Way, B!Tells, B!Steps
<1>12. CASE B!Kill
  <2>1. v8' = "killed" /\ UNCHANGED <<v4, v3, v13>> /\ v8 # "over"
    BY <1>12 DEF B!Kill, B!Goto, B!cloud, B!Steps, B!Cleaning
  <2>2. ~v13.restored
    BY <2>1 DEF B!IInv, B!Tells
  <2> QED BY <1>1, <1>5, <2>1, <2>2 DEF B!IInv, B!Took, B!Way, B!Tells, B!Steps
<1> QED BY <1>7, <1>8, <1>9, <1>10, <1>11, <1>12

LEMMA CashStep == ASSUME B!IInv, B!Next \/ UNCHANGED vars PROVE B!IInv'
<1>1. CASE UNCHANGED vars
  BY <1>1 DEF vars, B!IInv, B!Made, B!Took, B!Way, B!Tells, B!Finished
<1>2. CASE B!Next
  BY <1>2, CashCloud, CashDispatch, CashSteps, CashExecute, CashCancel, CashCleans DEF B!Next
<1> QED BY <1>1, <1>2

LEMMA CashHolds == ASSUME B!IInv PROVE B!CleanIsGone /\ B!ObservedNow /\ B!SuccessLeavesNothing
<1>1. v8 = "over" => v7 \in B!Runs
  BY TimesCount DEF B!IInv, B!Way, B!Made, B!Runs
<1> QED BY <1>1 DEF B!IInv, B!Made, B!Took, B!Way, B!Tells, B!CleanIsGone, B!ObservedNow, B!SuccessLeavesNothing

----------------------------------------------------------------------------
(* The program that runs.                                                  *)

Inv ==
  /\ part = "flex" => U!IInv
  /\ part = "probe" => L!IInv
  /\ part = "warm" => W!IInv
  /\ part = "candidate" => C!IInv
  /\ part = "job" => J!IInv
  /\ part = "incident" => I!IInv
  /\ part = "worker" => Q!IInv
  /\ part = "gateway" => X!IInv
  /\ part = "pass" => PS!IInv
  /\ part = "risk" => V!IInv
  /\ part = "paper" => A!IInv
  /\ part = "strategy" => E!IInv
  /\ part = "digest" => D!IInv
  /\ part = "heartbeat" => H!IInv
  /\ part = "guard" => G!IInv
  /\ part = "facts" => F!IInv
  /\ part = "report" => Y!IInv
  /\ part = "pinned" => P!IInv
  /\ part = "route" => T!IInv
  /\ part = "baseline" => K!IInv
  /\ part = "revision" => R!IInv
  /\ part = "switch" => O!IInv
  /\ part = "candidate" => C!Accounted
  /\ part = "probe" => L!Attested
  /\ part = "flex" => U!Informed
  /\ part = "risk" => V!LookedAt
  /\ part = "warm" => W!Overtaken
  /\ part = "guard" => G!FileIsWhole
  /\ part = "incident" => I!ReadInTime
  /\ part = "job" => J!Ran
  /\ part = "revision" => R!Left
  /\ part = "switch" => O!Done
  /\ part = "warm" => W!Fated
  /\ part = "paper" => A!Reconciled
  /\ part = "cash" => B!IInv
  /\ part = "heartbeat" => H!Green

LEMMA PartStays == ASSUME [Next]_vars PROVE part' = part
<1>1. CASE Next
  BY <1>1 DEF Next, Keep5, Keep6, Keep7, Keep8, Keep9, Keep10, Keep11, Keep13, Keep14
<1>2. CASE UNCHANGED vars
  BY <1>2 DEF vars
<1> QED BY <1>1, <1>2

LEMMA InvInit == ASSUME Init PROVE Inv
<1>1. part = "flex" => U!IInv
  BY FlexInit DEF Init
<1>2. part = "probe" => L!IInv
  BY ProbeInit DEF Init
<1>3. part = "warm" => W!IInv
  BY WarmInit DEF Init
<1>4. part = "candidate" => C!IInv
  BY CandidateInit DEF Init
<1>5. part = "job" => J!IInv
  BY JobInit DEF Init
<1>6. part = "incident" => I!IInv
  BY NoticeInit DEF Init
<1>7. part = "worker" => Q!IInv
  BY WorkerInit DEF Init
<1>8. part = "gateway" => X!IInv
  BY GatewayInit DEF Init
<1>9. part = "pass" => PS!IInv
  BY PassStarts DEF Init
<1>10. part = "risk" => V!IInv
  BY RiskInit DEF Init
<1>11. part = "paper" => A!IInv
  BY PaperInit DEF Init
<1>12. part = "strategy" => E!IInv
  BY StrategyInit DEF Init
<1>13. part = "digest" => D!IInv
  BY DigestInit DEF Init
<1>14. part = "heartbeat" => H!IInv
  BY HeartbeatInit DEF Init
<1>15. part = "guard" => G!IInv
  BY GuardInit DEF Init
<1>16. part = "facts" => F!IInv
  BY FactsInit DEF Init
<1>17. part = "report" => Y!IInv
  BY ReportInit DEF Init
<1>18. part = "pinned" => P!IInv
  BY PinnedInit DEF Init
<1>19. part = "route" => T!IInv
  BY RouteInit DEF Init
<1>20. part = "baseline" => K!IInv
  BY RecoveryInit DEF Init
<1>21. part = "revision" => R!IInv
  BY SpareInit DEF Init
<1>22. part = "switch" => O!IInv
  BY SwitchInit DEF Init
<1>23. part = "candidate" => C!Accounted
  BY ReleaseInit DEF Init
<1>24. part = "probe" => L!Attested
  BY AttestInit DEF Init
<1>25. part = "flex" => U!Informed
  BY InformedInit DEF Init
<1>26. part = "risk" => V!LookedAt
  BY LookedInit DEF Init
<1>27. part = "warm" => W!Overtaken
  BY OvertakenInit DEF Init
<1>28. part = "guard" => G!FileIsWhole
  BY <1>15, GuardWholeInit DEF Init
<1>29. part = "incident" => I!ReadInTime
  BY ReadInTimeInit DEF Init
<1>30. part = "job" => J!Ran
  BY RanInit DEF Init
<1>31. part = "revision" => R!Left
  BY LeftInit DEF Init
<1>32. part = "switch" => O!Done
  BY DoneInit DEF Init
<1>33. part = "warm" => W!Fated
  BY FatedInit DEF Init
<1>34. part = "paper" => A!Reconciled
  BY ReconciledInit DEF Init
<1>35. part = "cash" => B!IInv
  BY CashStarts DEF Init
<1>36. part = "heartbeat" => H!Green
  BY GreenInit DEF Init
<1> QED BY <1>1, <1>2, <1>3, <1>4, <1>5, <1>6, <1>7, <1>8, <1>9, <1>10, <1>11, <1>12, <1>13, <1>14, <1>15, <1>16,
    <1>17, <1>18, <1>19, <1>20, <1>21, <1>22, <1>23, <1>24, <1>25, <1>26, <1>27, <1>28, <1>29, <1>30, <1>31, <1>32,
    <1>33, <1>34, <1>35, <1>36 DEF Inv

\* What a program does when it is the one that runs.
LEMMA PartNext ==
  ASSUME [Next]_vars
  PROVE  /\ part = "digest" => D!Next \/ UNCHANGED vars
         /\ part = "incident" => I!Next \/ UNCHANGED vars
         /\ part = "worker" => Q!Next \/ UNCHANGED vars
         /\ part = "heartbeat" => H!Next \/ UNCHANGED vars
         /\ part = "guard" => G!Next \/ UNCHANGED vars
         /\ part = "facts" => F!Next \/ UNCHANGED vars
         /\ part = "probe" => L!Next \/ UNCHANGED vars
         /\ part = "report" => Y!Next \/ UNCHANGED vars
         /\ part = "pinned" => P!Next \/ UNCHANGED vars
         /\ part = "route" => T!Next \/ UNCHANGED vars
         /\ part = "baseline" => K!Next \/ UNCHANGED vars
         /\ part = "revision" => R!Next \/ UNCHANGED vars
         /\ part = "switch" => O!Next \/ UNCHANGED vars
         /\ part = "candidate" => C!Next \/ UNCHANGED vars
         /\ part = "flex" => U!Next \/ UNCHANGED vars
         /\ part = "risk" => V!Next \/ UNCHANGED vars
         /\ part = "warm" => W!Next \/ UNCHANGED vars
         /\ part = "gateway" => X!Next \/ UNCHANGED vars
         /\ part = "job" => J!Next \/ UNCHANGED vars
         /\ part = "paper" => A!Next \/ UNCHANGED vars
         /\ part = "cash" => B!Next \/ UNCHANGED vars
BY DEF Next

LEMMA InvStep == ASSUME Inv, [Next]_vars PROVE Inv'
<1>1. /\ part = "digest" => D!IInv'
      /\ part = "incident" => I!IInv' /\ I!ReadInTime'
      /\ part = "worker" => Q!IInv'
      /\ part = "heartbeat" => H!IInv'
      /\ part = "guard" => G!IInv' /\ G!FileIsWhole'
      /\ part = "facts" => F!IInv'
      /\ part = "report" => Y!IInv'
      /\ part = "probe" => L!IInv' /\ L!Attested'
  BY PartNext, DigestStep, NoticeStep, WorkerStep, HeartbeatStep, GuardStep, FactsStep, ReportStep, ProbeStep,
     ReadInTimeStep, GuardWholeStep, AttestStep DEF Inv
<1>2. /\ part = "pinned" => P!IInv'
      /\ part = "route" => T!IInv'
      /\ part = "baseline" => K!IInv'
      /\ part = "revision" => R!IInv'
      /\ part = "switch" => O!IInv'
  BY PartNext, PinnedStep, RouteStep, RecoveryStep, SpareStep, SwitchStep DEF Inv
<1>3. /\ part = "candidate" => C!Accounted'
      /\ part = "flex" => U!Informed'
      /\ part = "risk" => V!LookedAt'
      /\ part = "warm" => W!Overtaken'
  BY PartNext, ReleaseStep, InformedStep, LookedStep, OvertakenStep DEF Inv
<1>4. /\ part = "flex" => U!IInv'
      /\ part = "warm" => W!IInv'
      /\ part = "candidate" => C!IInv'
      /\ part = "job" => J!IInv'
      /\ part = "gateway" => X!IInv'
      /\ part = "pass" => PS!IInv'
      /\ part = "risk" => V!IInv'
      /\ part = "paper" => A!IInv'
      /\ part = "strategy" => E!IInv'
  BY FlexStep, WarmStep, CandidateStep, JobStep, GatewayStep, PassGoesOn, RiskStep, PaperStep, StrategyStep DEF Inv
<1>5. /\ part = "job" => J!Ran'
      /\ part = "revision" => R!Left'
      /\ part = "switch" => O!Done'
      /\ part = "warm" => W!Fated'
      /\ part = "paper" => A!Reconciled'
      /\ part = "cash" => B!IInv'
      /\ part = "heartbeat" => H!Green'
  BY PartNext, RanStep, LeftStep, DoneStep, FatedStep, ReconciledStep, CashStep, GreenStep DEF Inv
<1> QED BY <1>1, <1>2, <1>3, <1>4, <1>5, PartStays DEF Inv

LEMMA SameCard == \A s : J!Cardinality(s) = Cardinality(s)
BY DEF J!Cardinality, Cardinality

LEMMA OneJobAtMost == ASSUME J!IInv PROVE J!OneProbe
<1>1. v1 = {} \/ \E i \in v1 : v1 = {i}
  BY DEF J!IInv, J!AtMostOne
<1>2. Cardinality(v1) <= 1
  BY <1>1, FS_EmptySet, FS_Singleton
<1> QED BY <1>2, SameCard DEF J!OneProbe

LEMMA RunsAreAlone == ASSUME L!IInv PROVE L!NeverBeside
BY DEF L!IInv, L!Alone, L!NeverBeside

\* Nothing is done twice, whichever program runs and however often it is
\* killed and started again: one report is asked for (collect), a request for
\* a job is not repeated nor sent beside another (invoke_once), a write is
\* not replayed (put, promote), one probe job exists at a time (create), one
\* urgent message is sent for an opening (publish_cycle) and one order-capable
\* session is opened for a scheduler job (_claim_permission_probe).
THEOREM NeverReplayed == Spec => []NothingReplayed
<1>1. Inv => NothingReplayed
  BY OneJobAtMost, RunsAreAlone, NoticeHolds, WorkerHolds
     DEF Inv, NothingReplayed, U!IInv, U!OneReport, L!IInv, W!IInv, C!IInv
<1> QED BY <1>1, InvInit, InvStep, PTL DEF Spec

LEMMA PassEndsWell == ASSUME PS!IInv PROVE S!DayKeptOpen /\ S!NeverStoppedHalfway
<1>1. PS!DayKeptOpen /\ PS!NeverStoppedHalfway
  BY PS!PassHolds
<1>2. S!SellPlanned = PS!SellPlanned
  BY DEF S!Smaller, PS!Smaller, S!Managed, PS!Managed, S!Price, PS!Price, S!Current, PS!Current,
         S!Overweight, PS!Overweight, S!SellQuantity, PS!SellQuantity, S!SellPlanned, PS!SellPlanned
<1> QED BY <1>1, <1>2 DEF PS!DayKeptOpen, PS!NeverStoppedHalfway, S!DayKeptOpen, S!NeverStoppedHalfway

\* What an interrupted dry run leaves goes with its worker, and its alarm
\* interrupts nothing else (enforce_runtime_deadline); a refused session is
\* closed (connect_ib); a pass that could not see its cash leaves the day open
\* unless it sells, and none that has the lock is refused half way by the last
\* checks against the approval (execute_rebalance).
THEOREM NeverLeftOver == Spec => []NothingLeftOver
<1>1. Inv => NothingLeftOver
  BY GatewayHolds, WorkerHolds, PassEndsWell DEF Inv, NothingLeftOver
<1> QED BY <1>1, InvInit, InvStep, PTL DEF Spec

LEMMA PassKeepsLimits == ASSUME PS!IInv PROVE S!WithinBudget /\ S!NoOvershoot /\ S!NoBlindBuy
<1>1. PS!WithinBudget /\ PS!NoOvershoot /\ PS!NoBlindBuy
  BY PS!PassHolds
<1>2. S!WithinBudget /\ S!NoBlindBuy
  BY <1>1 DEF S!WithinBudget, PS!WithinBudget, S!NoBlindBuy, PS!NoBlindBuy, S!Zero, PS!Zero
<1>3. S!NoOvershoot
  BY <1>1 DEF S!NoOvershoot, PS!NoOvershoot, S!Smaller, PS!Smaller, S!Managed, PS!Managed, S!Price, PS!Price,
              S!Current, PS!Current, S!Limit, PS!Limit, S!Cap, PS!Cap, S!Weighed, PS!Weighed, S!Reserved, PS!Reserved
<1> QED BY <1>2, <1>3

LEMMA RiskLimits == ASSUME V!IInv PROVE V!LossWithinLimit /\ V!NoForcedExit
BY DEF V!IInv

LEMMA PaperLimits == ASSUME A!IInv PROVE A!NothingGrows /\ A!LiquidatesToZero
BY DEF A!IInv

\* Whichever program runs, what it orders stays within its limits: a pass within
\* its budget, its targets and what was approved, and it does not buy blindly
\* (execute_rebalance); a buy within the smaller loss limit, without a forced
\* exit (evaluate_cycle_new_risk_admission, scale_targets_for_admission); a cycle
\* under a reducing receipt only sells (evaluate_ibkr_paper_execution_admission),
\* a liquidation ends at zero (build_liquidation_intents); no signal is computed
\* from later bars, and no reading has a session that takes orders (connect_ib).
THEOREM LimitsAlwaysHold == Spec => []LimitsHold
<1>1. Inv => LimitsHold
  BY GatewayHolds, PassKeepsLimits, RiskLimits, PaperLimits, StrategyHolds DEF Inv, LimitsHold
<1> QED BY <1>1, InvInit, InvStep, PTL DEF Spec

LEMMA BlockedTold == ASSUME V!IInv PROVE V!BlockedIsTold
BY DEF V!IInv

LEMMA DueAndQuiet == (H!IInv => H!DueIsChecked) /\ (G!IInv => G!QuietWasTold)
BY DEF H!IInv, G!IInv

\* Whichever program runs, what it must say is said: a cycle that fails is told
\* (run_strategy_core) and makes its row alert (project_digest_candidates), the
\* digest shows what it was given (persist_candidate) and the urgent channel
\* what it was due (publish_cycle), a request keeps its report or tells of it
\* (_handle_request), a service that is due is checked
\* (execution_report_heartbeat.py), what is kept quiet was told before
\* (runtime_guard_alert_dedupe.py), no report is overshadowed by an older one
\* (publish_account_facts_from_report.py), and a blocked buy is told
\* (maybe_publish_attention_for_admission).
THEOREM NeverSilent == Spec => []NothingSilent
<1>1. Inv => NothingSilent
  BY BlockedTold, ReportHolds, DigestHolds, NoticeHolds, WorkerHolds, DueAndQuiet, FactsHold DEF Inv, NothingSilent
<1> QED BY <1>1, InvInit, InvStep, PTL DEF Spec

LEMMA BuysAreMeasured == ASSUME V!IInv, V!LookedAt PROVE V!BuyIsMeasured /\ V!NeverAfterBreach
BY DEF V!IInv, V!LookedAt, V!BuyIsMeasured

LEMMA AttestHolds == ASSUME L!Attested PROVE L!AsReviewed
BY DEF L!Attested

\* Whichever program runs, what is routed, posted, traded at or made active is
\* what was proven before, of the version it was proven of: the gateway and its
\* account (connect_ib), the drawdown behind a buy
\* (evaluate_cycle_new_risk_admission), the facts of a post
\* (publish_ibkr_flex_period_return.py), the baseline
\* (runtime_lkg_publication.py, archive_recovery_state_ledger), the version that
\* is probed (invoke_additional1_account_facts_probe.py), what a signal rests on
\* (strategy_runtime.py), the revision that takes the traffic
\* (cloud_run_candidate_warmup.py, ensure_latest_traffic), the release that takes
\* none (deploy_notification_only.py) and the report that is published
\* (publish_account_facts_from_report.py).
THEOREM AlwaysRoutedAsProven == Spec => []RoutedAsProven
<1>1. Inv => RoutedAsProven
  BY GatewayHolds, BuysAreMeasured, InformedHolds, RecoveryHolds, AttestHolds, StrategyHolds, ReleaseHolds, RouteHolds,
     PinnedHolds, FactsHold DEF Inv, RoutedAsProven
<1> QED BY <1>1, InvInit, InvStep, PTL DEF Spec

LEMMA OthersStandStep ==
  ASSUME Inv, [Next]_vars
  PROVE  /\ part = "gateway" => X!AddressKept
         /\ part = "switch" => O!SwitchedAlone
         /\ part = "switch" => O!ResumedWhenServing
         /\ part = "switch" => O!NeverForcedLive
         /\ part = "baseline" => K!LedgerStands
         /\ part = "baseline" => K!NothingUndone
         /\ part = "warm" => W!ForeignStands
         /\ part = "route" => T!AdoptionYields
         /\ part = "revision" => R!TheirsStands
         /\ part = "revision" => R!InUseStands
         /\ part = "pinned" => P!OthersStand
         /\ part = "digest" => D!NeverBack
         /\ part = "incident" => I!LateClosesNothing
         /\ part = "guard" => G!ToldAgainWhenDue
<1>1. /\ part = "gateway" => X!AddressKept
      /\ part = "switch" => O!SwitchedAlone /\ O!ResumedWhenServing /\ O!NeverForcedLive
      /\ part = "baseline" => K!LedgerStands /\ K!NothingUndone
  BY PartNext, AddressStays, SwitchStep, RecoveryYields, RecoveryHolds DEF Inv
<1>2. /\ part = "warm" => W!ForeignStands
      /\ part = "route" => T!AdoptionYields
      /\ part = "revision" => R!TheirsStands /\ R!InUseStands
      /\ part = "pinned" => P!OthersStand
  BY PartNext, OvertakenStep, RouteYields, SpareStep, PinnedYields DEF Inv
<1>3. /\ part = "digest" => D!NeverBack
      /\ part = "incident" => I!LateClosesNothing
      /\ part = "guard" => G!ToldAgainWhenDue
  BY PartNext, DigestStep, ReadInTimeStep, GuardWholeStep DEF Inv
<1> QED BY <1>1, <1>2, <1>3

\* Whichever program runs, no step of it undoes what somebody else changed
\* meanwhile nor deletes what is in use (put, _adopt_initial_candidate,
\* archive_recovery_state_ledger, the rollbacks of run_pilot_cloud_tcp.py), takes
\* back what was seen later (persist_candidate, OrderedMarkerStore), forgets what
\* was told and is still in the window (runtime_guard_alert_dedupe.py), switches
\* more than the switch, resumes or forces what was not checked
\* (ensure_latest_traffic, build_sync_plan) or gives an address up for a name
\* (refresh_ib_host).
THEOREM OthersAlwaysStand == Spec => OthersStand
<1> DEFINE Stand == /\ part = "gateway" => X!AddressKept
                    /\ part = "switch" => O!SwitchedAlone
                    /\ part = "switch" => O!ResumedWhenServing
                    /\ part = "switch" => O!NeverForcedLive
                    /\ part = "baseline" => K!LedgerStands
                    /\ part = "baseline" => K!NothingUndone
                    /\ part = "warm" => W!ForeignStands
                    /\ part = "route" => T!AdoptionYields
                    /\ part = "revision" => R!TheirsStands
                    /\ part = "revision" => R!InUseStands
                    /\ part = "pinned" => P!OthersStand
                    /\ part = "digest" => D!NeverBack
                    /\ part = "incident" => I!LateClosesNothing
                    /\ part = "guard" => G!ToldAgainWhenDue
<1>1. Inv /\ [Next]_vars => [Stand]_vars
  BY OthersStandStep
<1>2. [][Stand]_vars => OthersStand
  BY DEF OthersStand
<1> HIDE DEF Stand
<1>3. Spec => [][Stand]_vars
  BY <1>1, InvInit, InvStep, PTL DEF Spec
<1> QED BY <1>2, <1>3, PTL

\* Whichever program runs, what it tells of its outcome is so: the attempt
\* file of a warm recovery (record), the receipts of candidates (restore), of
\* jobs and revisions (the finally clauses of run_pilot_job_tcp.py and
\* run_pilot_cloud_tcp.py) and of releases (deploy_*.py, release), a green
\* heartbeat (execution_report_heartbeat.py, main), an observation that was
\* published (publish_account_facts_*.py) or posted and a net flow
\* (publish_ibkr_flex_period_return.py, build_flex_ledger), a command that is
\* filled (_reconcile), a reading of cash (observe_maintenance_cash_job.py), a
\* success of the job that was run (terminal_readback), a capability
\* (_last_capability_status), a switch or a drift of the service
\* (env_sync_drift_check.py), an execution receipt and the row of a digest
\* (attach_cycle_execution_receipt, project_digest_candidates).
THEOREM ReceiptsAlwaysTrue == Spec => []ReceiptsTrue
<1>1. ASSUME Inv
      PROVE  /\ part = "switch" => O!ResultTrue /\ O!NoDriftIsTrue
             /\ part = "flex" => U!SuccessIsHeld /\ U!ReadingIsAsked /\ U!CountedOnce
             /\ part = "report" => Y!ZeroIsZero /\ Y!RefusedIsTrue /\ Y!ReceiptTrue
  BY <1>1, ResultHolds, NoDriftTrue, InformedHolds, CountedOnceHolds, ReportHolds, RefusedHolds DEF Inv
<1>2. ASSUME Inv
      PROVE  /\ part = "paper" => A!FilledReconciled
             /\ part = "cash" => B!CleanIsGone /\ B!ObservedNow /\ B!SuccessLeavesNothing
             /\ part = "probe" => L!SuccessIsOurs
             /\ part = "strategy" => E!StatusIsTrue
             /\ part = "warm" => W!OutcomeIsTrue
             /\ part = "candidate" => C!NothingLeftUntold
  BY <1>2, ReconciledHolds, CashHolds, StrategyHolds, FatedHolds, ReleaseHolds DEF Inv, L!Attested
<1>3. ASSUME Inv
      PROVE  /\ part = "job" => J!SuccessRan /\ J!DeletedIsGone /\ J!NothingHidden
             /\ part = "revision" => R!NothingHidden
             /\ part = "pinned" => P!PassIsBaseline /\ P!ReceiptTells
             /\ part = "heartbeat" => H!GreenIsHealthy
             /\ part = "facts" => F!PublishedIsStored
  BY <1>3, RanHolds, LeftHolds, PinnedHolds, FactsHold DEF Inv, H!Green
<1>4. Inv => ReceiptsTrue
  BY <1>1, <1>2, <1>3 DEF ReceiptsTrue
<1> QED BY <1>4, InvInit, InvStep, PTL DEF Spec

==============================================================================
