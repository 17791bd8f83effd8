----------------------- MODULE ScheduledPrograms_proofs ----------------------
(***************************************************************************)
(* Proofs about the programs of ScheduledPrograms: what each of them keeps *)
(* true with every step, and what that says of its properties.  The proofs *)
(* about the program that was chosen, Programs_proofs, rest on them.       *)
(***************************************************************************)
EXTENDS ScheduledPrograms, Sequences, FiniteSetTheorems, TLAPS

LEMMA TimesType == Times \in Nat /\ Times > 0
BY TimesAssumption

----------------------------------------------------------------------------
(* The heartbeat of the reports.                                           *)

LEMMA HeartbeatDue == ASSUME UNCHANGED H!world PROVE H!Due' = H!Due
BY DEF H!world, H!Due

LEMMA HeartbeatHydrate ==
  ASSUME H!IInv, H!Hydrate
  PROVE  H!IInv'
<1>1. H!Due' = H!Due /\ v2' = v2 /\ v4' = v4
  BY HeartbeatDue DEF H!Hydrate, H!world
<1>2. H!Due \subseteq {"t1", "t2"}
  BY DEF H!Due
<1>3. CASE v4 /\ H!Alert
  BY <1>1, <1>3 DEF H!IInv, H!Alert, H!DueIsChecked
<1>4. CASE v4 /\ H!Due = {} /\ H!Skip
  BY <1>1, <1>4 DEF H!IInv, H!Skip, H!DueIsChecked
<1>5. CASE v6' = (IF v4 THEN H!Due ELSE {"t1", "t2"}) /\ v5' = "resolve" /\ UNCHANGED v7
  BY <1>1, <1>2, <1>5 DEF H!IInv, H!DueIsChecked
<1> QED BY <1>3, <1>4, <1>5 DEF H!Hydrate

LEMMA HeartbeatResolved ==
  ASSUME H!IInv, NEW due \in H!Resolved \cup {{"t1", "t2"}}
  PROVE  H!Due \subseteq due
<1>1. CASE due = {"t1", "t2"}
  BY <1>1 DEF H!Due
<1>2. CASE due \in {H!ScheduledDue(known) : known \in H!Known}
  BY <1>2 DEF H!Due, H!ScheduledDue
<1> QED BY <1>1, <1>2 DEF H!Resolved

LEMMA HeartbeatResolve ==
  ASSUME H!IInv, H!Resolve
  PROVE  H!IInv'
<1>1. H!Due' = H!Due /\ v2' = v2 /\ v5 = "resolve"
  BY HeartbeatDue DEF H!Resolve, H!world
<1>2. PICK due \in H!Resolved \cup {{"t1", "t2"}} :
        IF due = {} THEN H!Skip /\ UNCHANGED v6
        ELSE v6' = v6 \cap due /\ v5' = "judge" /\ UNCHANGED v7
  <2>1. PICK explicit \in BOOLEAN :
          \E due \in IF explicit THEN {{"t1", "t2"}} ELSE H!Resolved :
            IF due = {} THEN H!Skip /\ UNCHANGED v6
            ELSE v6' = v6 \cap due /\ v5' = "judge" /\ UNCHANGED v7
    BY DEF H!Resolve
  <2> QED BY <2>1
<1>3. H!Due \subseteq due
  BY HeartbeatResolved
<1>4. CASE due = {}
  BY <1>1, <1>2, <1>3, <1>4 DEF H!IInv, H!Skip, H!DueIsChecked
<1>5. CASE due # {}
  BY <1>1, <1>2, <1>3, <1>5 DEF H!IInv, H!DueIsChecked
<1> QED BY <1>4, <1>5

LEMMA HeartbeatJudge ==
  ASSUME H!IInv, H!Judge
  PROVE  H!IInv'
<1>1. H!Due' = H!Due /\ v2' = v2 /\ v6' = v6 /\ v5 = "judge"
  BY HeartbeatDue DEF H!Judge, H!world
<1>2. v5' = "over"
  BY DEF H!Judge, H!Alert
<1> QED BY <1>1, <1>2 DEF H!IInv, H!DueIsChecked

LEMMA HeartbeatInit ==
  ASSUME H!Init
  PROVE  H!IInv
BY DEF H!IInv, H!Init, H!DueIsChecked

LEMMA HeartbeatStep ==
  ASSUME H!IInv, H!Next \/ UNCHANGED vars
  PROVE  H!IInv'
<1>1. CASE H!Next
  <2>1. H!Next
    BY <1>1
  <2> QED BY <2>1, HeartbeatHydrate, HeartbeatResolve, HeartbeatJudge DEF H!Next
<1>2. CASE UNCHANGED vars
  BY <1>2 DEF vars, H!IInv, H!Due, H!DueIsChecked
<1> QED BY <1>1, <1>2

----------------------------------------------------------------------------
(* The guard of the logs.                                                  *)

LEMMA GuardFound ==
  ASSUME G!IInv, NEW answered, NEW ready
  PROVE  G!FoundIn(answered, ready) \subseteq G!Ids
<1>1. DOMAIN v2 \subseteq G!Ids
  BY TimesType DEF G!IInv, G!Ids
<1>2. \A l : G!Found(l, ready) \subseteq DOMAIN v2
  BY DEF G!Found
<1> QED BY <1>1, <1>2 DEF G!FoundIn

\* What is pruned was told, and so is what is recorded then.
LEMMA GuardPruned ==
  ASSUME G!IInv
  PROVE  /\ DOMAIN G!Pruned(v3) = DOMAIN G!Blank /\ DOMAIN G!Pruned(v3).events = G!Ids
         /\ \A i \in G!Ids : G!Pruned(v3).events[i] # -1 => i \in v6
         /\ G!Pruned(v3).issues = v3.issues
BY DEF G!IInv, G!FileIsTrue, G!Pruned, G!Blank

LEMMA GuardRuns ==
  ASSUME G!IInv, NEW answered, NEW succeeded, NEW ready, NEW kept, G!Guard(answered, succeeded, ready, kept)
  PROVE  G!IInv'
<1> DEFINE ids == G!FoundIn(answered, ready)
           types == G!TypesOf(ids, answered, succeeded)
           state == G!Pruned(v3)
           again == G!Repeats(types, ids, state)
<1>1. /\ v4' = [is |-> IF types = {} THEN "healthy" ELSE IF again THEN "repeat" ELSE "alert", types |-> types, ids |-> ids]
      /\ v1' = v1 /\ v2' = v2
  BY DEF G!Guard
<1>2. \/ v3' = v3 /\ v5' = v5 /\ v6' = v6
      \/ types = {} /\ v3' = G!Forgotten(state) /\ v5' = {} /\ v6' = v6
      \/ /\ types # {} /\ v3' = G!Recorded(types, ids, state)
         /\ v5' = IF again THEN v5 ELSE v5 \cup {[types |-> types, at |-> v1]}
         /\ v6' = IF again THEN v6 ELSE v6 \cup ids
  BY DEF G!Guard
<1>3. ids \subseteq G!Ids
  BY GuardFound
<1>4. /\ DOMAIN state = DOMAIN G!Blank /\ DOMAIN state.events = G!Ids
      /\ \A i \in G!Ids : state.events[i] # -1 => i \in v6
      /\ state.issues = v3.issues
  BY GuardPruned
<1> HIDE DEF ids, types, state
<1>5. v3.issues \subseteq v5
  BY DEF G!IInv, G!FileIsTrue
<1>6. again => ids \subseteq v6 /\ \E x \in v5 : x.types = types /\ v1 - x.at < 2
  BY <1>3, <1>4, <1>5 DEF G!Repeats, G!New, G!Lately, G!Last
<1>7. again => G!New(ids, state) = {}
  BY DEF G!Repeats
<1>8. again \in BOOLEAN
  BY DEF G!Repeats
<1> HIDE DEF again
<1>9. /\ DOMAIN v3' = DOMAIN G!Blank /\ DOMAIN v3'.events = G!Ids
      /\ (\A i \in G!Ids : v3'.events[i] # -1 => i \in v6') /\ v3'.issues \subseteq v5'
  <2>1. CASE v3' = v3 /\ v5' = v5 /\ v6' = v6
    BY <2>1 DEF G!IInv, G!FileIsTrue
  <2>2. CASE v3' = G!Forgotten(state) /\ v5' = {} /\ v6' = v6
    BY <2>2, <1>4 DEF G!Forgotten, G!Blank
  <2>3. CASE /\ v3' = G!Recorded(types, ids, state)
             /\ v5' = IF again THEN v5 ELSE v5 \cup {[types |-> types, at |-> v1]}
             /\ v6' = IF again THEN v6 ELSE v6 \cup ids
    <3>1. /\ DOMAIN v3' = {"events", "issues"}
          /\ v3'.events = [i \in G!Ids |-> IF i \in G!New(ids, state) THEN v1 ELSE state.events[i]]
          /\ v3'.issues = IF again THEN state.issues
                          ELSE (state.issues \ G!Last(types, state)) \cup {[types |-> types, at |-> v1]}
      BY <2>3 DEF G!Recorded, again
    <3>2. G!New(ids, state) \subseteq ids
      BY DEF G!New
    <3>3. \A i \in G!Ids : v3'.events[i] # -1 => i \in v6'
      BY <3>1, <3>2, <2>3, <1>4, <1>7
    <3>4. v3'.issues \subseteq v5'
      BY <3>1, <2>3, <1>4, <1>5
    <3> QED BY <3>1, <3>3, <3>4 DEF G!Blank
  <2> QED BY <1>2, <2>1, <2>2, <2>3
<1>10. G!QuietWasTold'
  <2>1. CASE ~again
    BY <2>1, <1>1 DEF G!QuietWasTold
  <2>2. CASE again /\ types = {}
    BY <2>2, <1>1 DEF G!QuietWasTold
  <2>3. CASE again /\ types # {}
    BY <2>3, <1>1, <1>2, <1>6 DEF G!QuietWasTold
  <2> QED BY <1>8, <2>1, <2>2, <2>3
<1> QED BY <1>1, <1>9, <1>10 DEF G!IInv, G!FileIsTrue

LEMMA GuardWorld ==
  ASSUME G!IInv, G!Tick \/ G!Lose \/ (\E l \in G!Logs : G!Fail(l))
  PROVE  G!IInv'
<1>1. CASE G!Tick
  BY <1>1 DEF G!IInv, G!FileIsTrue, G!QuietWasTold, G!Tick, G!NoRun
<1>2. CASE G!Lose
  BY <1>2 DEF G!IInv, G!FileIsTrue, G!QuietWasTold, G!Lose, G!NoRun, G!Blank
<1>3. CASE \E l \in G!Logs : G!Fail(l)
  <2>1. PICK l \in G!Logs : G!Fail(l)
    BY <1>3
  <2>2. v1 \in Int
    BY DEF G!IInv
  <2>3. v2' \in Seq([from : G!Logs, at : Int]) /\ Len(v2') <= Times
    BY <2>1, <2>2, TimesType DEF G!IInv, G!Fail
  <2> QED BY <2>1, <2>2, <2>3 DEF G!IInv, G!FileIsTrue, G!QuietWasTold, G!Fail, G!NoRun
<1> QED BY <1>1, <1>2, <1>3

LEMMA GuardInit ==
  ASSUME G!Init
  PROVE  G!IInv
BY TimesType DEF G!IInv, G!FileIsTrue, G!QuietWasTold, G!Init, G!Blank, G!NoRun

LEMMA GuardStep ==
  ASSUME G!IInv, G!Next \/ UNCHANGED vars
  PROVE  G!IInv'
<1>1. CASE G!Next
  <2>1. G!Next
    BY <1>1
  <2>2. CASE G!Tick \/ G!Lose \/ (\E l \in G!Logs : G!Fail(l))
    BY <1>1, <2>1, <2>2, GuardWorld
  <2>3. CASE \E reply \in Answers, ready \in {0, v1}, kept \in BOOLEAN :
               G!Guard(reply.answered, reply.succeeded, ready, kept)
    BY <2>1, <2>3, GuardRuns
  <2> QED BY <2>1, <2>2, <2>3 DEF G!Next
<1>2. CASE UNCHANGED vars
  BY <1>2 DEF vars, G!IInv, G!FileIsTrue, G!QuietWasTold
<1> QED BY <1>1, <1>2

----------------------------------------------------------------------------
(* The digest of a day.                                                    *)

LEMMA CoversSelf == ASSUME NEW ev, D!Telling(ev) PROVE D!Covers(ev, ev)
BY DEF D!Covers, D!Telling

LEMMA CoversOn ==
  ASSUME NEW a, NEW b, NEW c, D!Telling(a), D!Telling(b), D!Telling(c), D!Covers(b, a), D!Covers(c, b)
  PROVE  D!Covers(c, a)
BY DEF D!Covers, D!Telling

LEMMA CoversNothing ==
  ASSUME NEW ev, D!Telling(ev)
  PROVE  D!Telling(D!Empty) /\ D!Covers(ev, D!Empty)
<1>1. /\ DOMAIN D!Empty = D!Kinds
      /\ \A k \in D!Kinds : D!Empty[k] = D!NoRec
  BY DEF D!Empty
<1>2. D!NoRec.in = FALSE /\ D!NoRec.conflict = FALSE /\ D!NoRec.count = 0 /\ D!NoRec.seq = 0
  BY DEF D!NoRec
<1>3. D!Telling(D!Empty)
  BY <1>1, <1>2 DEF D!Telling
<1>4. D!Covers(ev, D!Empty)
  BY <1>1, <1>2 DEF D!Covers, D!Telling
<1> QED BY <1>3, <1>4

LEMMA HeldOn ==
  ASSUME NEW f \in D!Facts, NEW a, NEW b, D!Telling(a), D!Telling(b), D!Covers(b, a), D!Holds(f, a)
  PROVE  D!Holds(f, b)
<1>1. f.kind \in D!Kinds /\ f.seq \in Nat /\ f.count \in Nat
  BY DEF D!Facts, D!Kinds
<1> QED BY <1>1 DEF D!Holds, D!Covers, D!Telling

\* What an observer merges covers what it read, and holds its fact.
LEMMA MergeCovers ==
  ASSUME NEW o \in 1..Times, v3[o] \in D!Facts, NEW ev, D!Telling(ev),
         NEW new, new = [ev EXCEPT ![v3[o].kind] = D!Merged(o, @)]
  PROVE  D!Telling(new) /\ D!Covers(new, ev) /\ D!Holds(v3[o], new)
<1> DEFINE f == v3[o]
           prior == ev[f.kind]
<1>1. f.kind \in D!Kinds /\ f.seq \in Nat /\ f.count \in Nat /\ (f.kind = "settlement" => f.count = 0)
  BY DEF D!Facts, D!Kinds
<1>2. f.kind # "settlement" => f.seq = 0
  BY DEF D!Facts
<1>3. /\ DOMAIN prior = DOMAIN D!NoRec /\ prior.count \in Nat /\ prior.seq \in Nat
      /\ prior.in \/ (prior.count = 0 /\ prior.seq = 0 /\ ~prior.conflict)
  BY <1>1 DEF D!Telling
<1>4. /\ DOMAIN new = D!Kinds /\ new[f.kind] = D!Merged(o, prior)
      /\ \A k \in D!Kinds : k # f.kind => new[k] = ev[k]
  BY <1>1 DEF D!Telling
<1>5. ASSUME DOMAIN new[f.kind] = DOMAIN D!NoRec, new[f.kind].in,
             new[f.kind].count \in Nat, new[f.kind].seq \in Nat, new[f.kind].seq >= prior.seq,
             prior.count # 0 => new[f.kind].count = prior.count,
             prior.conflict => new[f.kind].conflict
      PROVE  D!Telling(new) /\ D!Covers(new, ev)
  <2>1. D!Telling(new)
    BY <1>1, <1>4, <1>5 DEF D!Telling
  <2>2. D!Covers(new, ev)
    BY <1>1, <1>3, <1>4, <1>5 DEF D!Telling, D!Covers
  <2> QED BY <2>1, <2>2
<1>6. CASE ~prior.in
  <2>1. prior.count = 0 /\ prior.seq = 0 /\ ~prior.conflict
    BY <1>3, <1>6
  <2>2. new[f.kind] = [in |-> TRUE, count |-> f.count, conflict |-> FALSE, seq |-> f.seq]
    BY <1>4, <1>6 DEF D!Merged
  <2>3. /\ DOMAIN new[f.kind] = DOMAIN D!NoRec /\ new[f.kind].in = TRUE /\ new[f.kind].conflict = FALSE
        /\ new[f.kind].count = f.count /\ new[f.kind].seq = f.seq
    BY <2>2 DEF D!NoRec
  <2>5. D!Telling(new) /\ D!Covers(new, ev)
    BY <2>1, <2>3, <1>1, <1>5
  <2> QED BY <2>3, <2>5, <1>1 DEF D!Holds
<1>7. CASE prior.in /\ f.kind = "settlement"
  <2>1. new[f.kind] = [prior EXCEPT !.seq = IF f.seq > prior.seq THEN f.seq ELSE prior.seq]
    BY <1>4, <1>7 DEF D!Merged
  <2>2. /\ DOMAIN new[f.kind] = DOMAIN D!NoRec /\ new[f.kind].in = prior.in
        /\ new[f.kind].conflict = prior.conflict /\ new[f.kind].count = prior.count
    BY <2>1, <1>3 DEF D!NoRec
  <2>3. new[f.kind].seq = IF f.seq > prior.seq THEN f.seq ELSE prior.seq
    BY <2>1, <1>3 DEF D!NoRec
  <2>4. new[f.kind].seq \in Nat /\ new[f.kind].seq >= prior.seq /\ new[f.kind].seq >= f.seq
    BY <2>3, <1>1, <1>3
  <2>5. D!Telling(new) /\ D!Covers(new, ev)
    BY <2>2, <2>4, <1>1, <1>3, <1>7, <1>5
  <2> QED BY <2>2, <2>4, <2>5, <1>1, <1>7 DEF D!Holds
<1>8. CASE prior.in /\ f.kind # "settlement"
  <2> DEFINE count == IF prior.count = 0 THEN f.count ELSE prior.count
             clash == prior.conflict \/ (prior.count # 0 /\ f.count # 0 /\ prior.count # f.count)
  <2>1. new[f.kind] = [prior EXCEPT !.count = count, !.conflict = clash]
    BY <1>4, <1>8 DEF D!Merged
  <2>2. /\ DOMAIN new[f.kind] = DOMAIN D!NoRec /\ new[f.kind].in = prior.in /\ new[f.kind].seq = prior.seq
        /\ new[f.kind].count = count /\ new[f.kind].conflict = clash
    <3>1. DOMAIN prior = DOMAIN D!NoRec
      BY <1>3
    <3> HIDE DEF count, clash, prior, f
    <3> QED BY <2>1, <3>1 DEF D!NoRec
  <2>3. new[f.kind].conflict <=> clash
    <3> HIDE DEF count, clash, prior, f
    <3> QED BY <2>2
  <2>4. prior.conflict => new[f.kind].conflict
    BY <2>3
  <2>5. D!Telling(new) /\ D!Covers(new, ev)
    <3>1. new[f.kind].in
      BY <2>2, <1>8, Zenon
    <3>2. /\ new[f.kind].count \in Nat /\ new[f.kind].seq \in Nat /\ new[f.kind].seq >= prior.seq
          /\ prior.count # 0 => new[f.kind].count = prior.count
      BY <2>2, <1>1, <1>3
    <3>3. DOMAIN new[f.kind] = DOMAIN D!NoRec
      BY <2>2
    <3> QED BY <3>1, <3>2, <3>3, <2>4, <1>5
  <2>6. f.count # 0 => new[f.kind].count = f.count \/ new[f.kind].conflict
    BY <2>2, <2>3
  <2>7. new[f.kind].in /\ new[f.kind].seq >= f.seq
    <3>1. new[f.kind].in
      BY <2>2, <1>8, Zenon
    <3> QED BY <3>1, <2>2, <1>2, <1>3, <1>8
  <2> QED BY <2>5, <2>6, <2>7 DEF D!Holds
<1> QED BY <1>3, <1>6, <1>7, <1>8

\* A step of one observer by itself.
LEMMA DigestOwn ==
  ASSUME D!IInv, NEW o \in 1..Times, NEW p, NEW s, v1' = v1, v2' = v2, v3' = v3,
         v4' = [v4 EXCEPT ![o] = p], v5' = [v5 EXCEPT ![o] = s] \/ (v5' = v5 /\ s = v5[o]),
         DOMAIN s = DOMAIN D!Nothing, s.ver \in Nat, s.rev \in Nat, D!Telling(s.ev),
         p \in {"merge", "object", "put"} =>
           /\ s.rev <= v1.rev /\ D!Agree(v1, s) /\ D!Agree(v2, s)
           /\ \A q \in D!InHand : D!Agree(v5[q], s),
         p = "merge" => s.ver <= v1.ver /\ (s.ver = v1.ver => s = v1),
         p = "put" => s.ver <= v2.gen /\ (s.ver = v2.gen => v2.gen = 0 \/ v2.rev < s.rev),
         p \in {"object", "put"} => D!Holds(v3[o], s.ev),
         p = "stored" => D!Holds(v3[o], v2.ev)
  PROVE  D!IInv'
<1>1. D!Shaped'
  BY DEF D!IInv, D!Shaped
<1>2. /\ \A q \in 1..Times : q # o => v4'[q] = v4[q] /\ v5'[q] = v5[q]
      /\ v4'[o] = p /\ v5'[o] = s
  BY DEF D!IInv, D!Shaped
<1>3. D!OneHistory'
  <2>1. D!Agree(s, s)
    BY CoversSelf DEF D!Agree, D!Follows
  <2>2. \A q \in D!InHand' : /\ v5'[q].rev <= v1.rev /\ D!Agree(v1, v5'[q]) /\ D!Agree(v2, v5'[q])
    BY <1>2 DEF D!IInv, D!OneHistory, D!InHand
  <2>3. ASSUME NEW q \in D!InHand', NEW r \in D!InHand' PROVE D!Agree(v5'[r], v5'[q])
    <3>1. CASE q = o /\ r = o
      BY <3>1, <2>1, <1>2
    <3>2. CASE q = o /\ r # o
      BY <3>2, <1>2 DEF D!InHand
    <3>3. CASE q # o /\ r = o
      BY <3>3, <1>2 DEF D!InHand, D!Agree
    <3>4. CASE q # o /\ r # o
      BY <3>4, <1>2 DEF D!InHand, D!IInv, D!OneHistory
    <3> QED BY <3>1, <3>2, <3>3, <3>4
  <2> QED BY <2>2, <2>3 DEF D!IInv, D!OneHistory, D!Agree, D!Follows
<1>4. D!ReadIsPresent'
  BY <1>2 DEF D!IInv, D!ReadIsPresent
<1>5. D!Held'
  BY <1>2 DEF D!IInv, D!Held, D!Holds
<1> QED BY <1>1, <1>3, <1>4, <1>5 DEF D!IInv

LEMMA DigestHeld ==
  ASSUME D!IInv, NEW o \in 1..Times
  PROVE  /\ v4[o] \in {"object", "put"} => D!Holds(v3[o], v5[o].ev)
         /\ v4[o] = "stored" => D!Holds(v3[o], v2.ev)
BY DEF D!IInv, D!Held

\* The document gets the fact of an observer that knew it.
LEMMA DigestDocWritten ==
  ASSUME D!IInv, NEW o \in 1..Times, v4[o] = "merge", NEW new,
         new = [v1.ev EXCEPT ![v3[o].kind] = D!Merged(o, @)],
         v1' = [ver |-> v1.ver + 1, rev |-> v1.rev + 1, ev |-> new], v2' = v2, v3' = v3,
         NEW p, NEW s, v4' = [v4 EXCEPT ![o] = p], v5' = [v5 EXCEPT ![o] = s],
         \/ p = "object" /\ s = [ver |-> 0, rev |-> v1.rev + 1, ev |-> new]
         \/ p = "raised" /\ s = D!Nothing
  PROVE  D!IInv'
<1>1. /\ v1.ver \in Nat /\ v1.rev \in Nat /\ D!Telling(v1.ev) /\ D!Telling(v2.ev)
      /\ v2.rev \in Nat /\ v3[o] \in D!Facts /\ DOMAIN v4 = 1..Times /\ DOMAIN v5 = 1..Times
      /\ \A q \in 1..Times : D!Telling(v5[q].ev) /\ v5[q].rev \in Nat
  BY DEF D!IInv, D!Shaped
<1>2. D!Telling(new) /\ D!Covers(new, v1.ev) /\ D!Holds(v3[o], new)
  BY <1>1, MergeCovers
<1>3. /\ v1'.ver = v1.ver + 1 /\ v1'.rev = v1.rev + 1 /\ v1'.ev = new /\ DOMAIN v1' = DOMAIN D!Nothing
  BY DEF D!Nothing
<1>4. /\ DOMAIN s = DOMAIN D!Nothing /\ s.ver = 0 /\ s.rev \in Nat /\ D!Telling(s.ev)
      /\ p = "object" => s.rev = v1.rev + 1 /\ s.ev = new
      /\ p \in {"object", "raised"}
  BY <1>1, <1>2, CoversNothing DEF D!Nothing
<1>5. /\ \A q \in 1..Times : q # o => v4'[q] = v4[q] /\ v5'[q] = v5[q]
      /\ v4'[o] = p /\ v5'[o] = s
  BY <1>1
<1>6. D!Shaped'
  BY <1>1, <1>2, <1>3, <1>4, <1>5 DEF D!IInv, D!Shaped
<1>7. D!OneHistory'
  <2>1. ASSUME NEW a, a.rev \in Nat, a.rev <= v1.rev, D!Telling(a.ev), D!Agree(v1, a)
        PROVE  D!Agree(v1', a) /\ (p = "object" => D!Agree(s, a) /\ D!Agree(a, s))
    <3>1. D!Covers(v1.ev, a.ev)
      BY <2>1, <1>1 DEF D!Agree, D!Follows
    <3>2. D!Covers(new, a.ev)
      BY <3>1, <2>1, <1>1, <1>2, CoversOn
    <3> QED BY <3>2, <2>1, <1>1, <1>3, <1>4 DEF D!Agree, D!Follows
  <2>2. D!Agree(v1', v2) /\ (p = "object" => D!Agree(v2, s))
    BY <2>1, <1>1 DEF D!IInv, D!OneHistory
  <2>3. p = "object" => D!Agree(v1', s) /\ D!Agree(s, s)
    BY <1>2, <1>3, <1>4, CoversSelf DEF D!Agree, D!Follows
  <2>4. \A q \in D!InHand : /\ q \in 1..Times /\ D!Agree(v1', v5[q]) /\ v5[q].rev <= v1.rev /\ v5[q].rev \in Nat
                            /\ p = "object" => D!Agree(s, v5[q]) /\ D!Agree(v5[q], s)
    BY <2>1, <1>1 DEF D!IInv, D!OneHistory, D!InHand
  <2>5. \A q \in D!InHand' : q # o => q \in D!InHand
    BY <1>5 DEF D!InHand
  <2>6. o \in D!InHand' => p = "object"
    BY <1>4, <1>5 DEF D!InHand
  <2>7. ASSUME NEW q \in D!InHand'
        PROVE  v5'[q].rev <= v1'.rev /\ D!Agree(v1', v5'[q]) /\ D!Agree(v2, v5'[q])
    <3>1. CASE q = o
      BY <3>1, <2>2, <2>3, <2>6, <1>1, <1>3, <1>4, <1>5
    <3>2. CASE q # o
      BY <3>2, <2>4, <2>5, <1>1, <1>3, <1>5 DEF D!IInv, D!OneHistory
    <3> QED BY <3>1, <3>2
  <2>8. ASSUME NEW q \in D!InHand', NEW r \in D!InHand' PROVE D!Agree(v5'[r], v5'[q])
    <3>1. CASE q = o /\ r = o
      BY <3>1, <2>3, <2>6, <1>5
    <3>2. CASE q = o /\ r # o
      BY <3>2, <2>4, <2>5, <2>6, <1>5
    <3>3. CASE q # o /\ r = o
      BY <3>3, <2>4, <2>5, <2>6, <1>5
    <3>4. CASE q # o /\ r # o
      BY <3>4, <2>4, <2>5, <1>5 DEF D!IInv, D!OneHistory
    <3> QED BY <3>1, <3>2, <3>3, <3>4
  <2>9. v2.rev <= v1'.rev /\ (v2.gen = 0 => v2.rev = 0 /\ v2.ev = D!Empty)
    BY <1>1, <1>3 DEF D!IInv, D!OneHistory
  <2> QED BY <2>2, <2>7, <2>8, <2>9 DEF D!OneHistory, D!Agree, D!Follows
<1>8. D!ReadIsPresent'
  <2>1. ASSUME NEW q \in 1..Times, v4'[q] = "merge" PROVE v5'[q].ver < v1'.ver
    BY <2>1, <1>1, <1>3, <1>4, <1>5 DEF D!IInv, D!ReadIsPresent, D!Shaped
  <2>2. \A q \in 1..Times : v4'[q] = "put" => v4[q] = "put" /\ v5'[q] = v5[q]
    BY <1>4, <1>5
  <2>3. \A q \in 1..Times : v4'[q] = "merge" => v5'[q].ver \in Nat /\ v1'.ver \in Nat
    BY <1>6 DEF D!Shaped
  <2> QED BY <2>1, <2>2, <2>3 DEF D!IInv, D!ReadIsPresent
<1>9. D!Held'
  <2>1. ASSUME NEW q \in 1..Times
        PROVE  /\ v4'[q] \in {"object", "put"} => D!Holds(v3[q], v5'[q].ev)
               /\ v4'[q] = "stored" => D!Holds(v3[q], v2.ev)
    <3>1. CASE q = o
      BY <3>1, <1>2, <1>4, <1>5
    <3>2. CASE q # o
      BY <3>2, <1>5, DigestHeld
    <3> QED BY <3>1, <3>2
  <2> QED BY <2>1 DEF D!Held, D!Holds
<1> QED BY <1>6, <1>7, <1>8, <1>9 DEF D!IInv

\* The object gets what an observer has in hand: it is later than the object.
LEMMA DigestObjWritten ==
  ASSUME D!IInv, NEW o \in 1..Times, v4[o] = "put", v5[o].ver = v2.gen,
         v2' = [v2 EXCEPT !.gen = @ + 1, !.rev = v5[o].rev, !.ev = v5[o].ev], v1' = v1, v3' = v3,
         NEW p, NEW s, v4' = [v4 EXCEPT ![o] = p],
         v5' = [v5 EXCEPT ![o] = s] \/ (v5' = v5 /\ s = v5[o]),
         p \in {"stored", "raised"}, s = v5[o] \/ s = D!Nothing
  PROVE  D!IInv' /\ D!NeverBack
<1>1. /\ v2.gen \in Nat /\ v2.rev \in Nat /\ D!Telling(v2.ev) /\ DOMAIN v2 = {"gen", "rev", "ev", "ours"}
      /\ v1.rev \in Nat /\ D!Telling(v1.ev) /\ v3[o] \in D!Facts /\ DOMAIN v4 = 1..Times /\ DOMAIN v5 = 1..Times
      /\ \A q \in 1..Times : D!Telling(v5[q].ev) /\ v5[q].rev \in Nat /\ v5[q].ver \in Nat /\ v3[q] \in D!Facts
  BY DEF D!IInv, D!Shaped
<1>2. /\ v2'.gen = v2.gen + 1 /\ v2'.rev = v5[o].rev /\ v2'.ev = v5[o].ev
      /\ DOMAIN v2' = {"gen", "rev", "ev", "ours"}
  BY <1>1
<1>3. D!Covers(v5[o].ev, v2.ev) /\ v5[o].rev >= v2.rev
  <2>1. CASE v2.gen = 0
    BY <2>1, <1>1, CoversNothing DEF D!IInv, D!OneHistory
  <2>2. CASE v2.gen # 0
    BY <2>2, <1>1 DEF D!IInv, D!ReadIsPresent, D!OneHistory, D!InHand, D!Agree, D!Follows
  <2> QED BY <2>1, <2>2
<1>4. /\ DOMAIN s = DOMAIN D!Nothing /\ s.ver \in Nat /\ s.rev \in Nat /\ D!Telling(s.ev)
  <2>1. CASE s = v5[o]
    BY <2>1 DEF D!IInv, D!Shaped
  <2>2. CASE s = D!Nothing
    BY <2>2, <1>1, CoversNothing DEF D!Nothing
  <2> QED BY <2>1, <2>2
<1>5. /\ \A q \in 1..Times : q # o => v4'[q] = v4[q] /\ v5'[q] = v5[q]
      /\ v4'[o] = p /\ v5'[o] = s
  BY <1>1
<1>6. D!Shaped'
  BY <1>1, <1>2, <1>4, <1>5 DEF D!IInv, D!Shaped
<1>7. D!OneHistory'
  <2>1. o \in D!InHand
    BY DEF D!InHand
  <2>2. \A q \in D!InHand' : q # o /\ q \in D!InHand /\ v5'[q] = v5[q]
    BY <1>5 DEF D!InHand
  <2>3. \A a : D!Agree(v5[o], a) => D!Agree(v2', a)
    BY <1>2 DEF D!Agree, D!Follows
  <2>4. \A a : D!Agree(a, v5[o]) => D!Agree(a, v2')
    BY <1>2 DEF D!Agree, D!Follows
  <2>5. v2'.rev <= v1.rev /\ D!Agree(v1, v2') /\ v2'.gen # 0
    BY <2>1, <2>4, <1>1, <1>2 DEF D!IInv, D!OneHistory
  <2>6. \A q \in D!InHand' : v5'[q].rev <= v1.rev /\ D!Agree(v1, v5'[q]) /\ D!Agree(v2', v5'[q])
    BY <2>1, <2>2, <2>3 DEF D!IInv, D!OneHistory
  <2>7. \A q, r \in D!InHand' : D!Agree(v5'[r], v5'[q])
    BY <2>2 DEF D!IInv, D!OneHistory
  <2> QED BY <2>5, <2>6, <2>7 DEF D!OneHistory, D!Agree, D!Follows
<1>8. D!ReadIsPresent'
  <2>1. \A q \in 1..Times : v4'[q] = "merge" => v4[q] = "merge" /\ v5'[q] = v5[q]
    BY <1>5
  <2>2. ASSUME NEW q \in 1..Times, v4'[q] = "put" PROVE v5'[q].ver < v2'.gen
    BY <2>2, <1>1, <1>2, <1>5 DEF D!IInv, D!ReadIsPresent
  <2>3. \A q \in 1..Times : v4'[q] = "put" => v5'[q].ver \in Nat /\ v2'.gen \in Nat
    BY <1>6 DEF D!Shaped
  <2> QED BY <2>1, <2>2, <2>3 DEF D!IInv, D!ReadIsPresent
<1>9. D!Held'
  <2>1. ASSUME NEW q \in 1..Times, v4'[q] = "stored" PROVE D!Holds(v3[q], v2'.ev)
    <3>1. CASE q = o
      BY <3>1, <1>2, DigestHeld
    <3>2. CASE q # o
      <4>1. D!Holds(v3[q], v2.ev)
        BY <3>2, <2>1, <1>5, DigestHeld
      <4> QED BY <4>1, <1>1, <1>2, <1>3, HeldOn
    <3> QED BY <3>1, <3>2
  <2>2. ASSUME NEW q \in 1..Times, v4'[q] \in {"object", "put"} PROVE D!Holds(v3[q], v5'[q].ev)
    <3>1. q # o /\ v4[q] \in {"object", "put"} /\ v5'[q] = v5[q]
      BY <2>2, <1>5
    <3> QED BY <3>1, DigestHeld
  <2> QED BY <2>1, <2>2 DEF D!Held, D!Holds
<1>10. D!NeverBack
  BY <1>2, <1>3 DEF D!NeverBack, D!Covers
<1> QED BY <1>6, <1>7, <1>8, <1>9, <1>10 DEF D!IInv

LEMMA DigestStays ==
  ASSUME D!IInv, v2' = v2
  PROVE  D!NeverBack
BY DEF D!IInv, D!Shaped, D!Telling, D!NeverBack

LEMMA DigestReadDoc ==
  ASSUME D!IInv, NEW o \in 1..Times, D!ReadDoc(o)
  PROVE  D!IInv' /\ D!NeverBack
<1>1. /\ v5' = [v5 EXCEPT ![o] = v1] /\ v4' = [v4 EXCEPT ![o] = "merge"] /\ v1' = v1 /\ v2' = v2 /\ v3' = v3
  BY DEF D!ReadDoc
<1>2. DOMAIN v1 = DOMAIN D!Nothing /\ v1.ver \in Nat /\ v1.rev \in Nat /\ D!Telling(v1.ev)
  BY DEF D!IInv, D!Shaped
<1>3. /\ v1.rev <= v1.rev /\ D!Agree(v1, v1) /\ D!Agree(v2, v1)
      /\ \A q \in D!InHand : D!Agree(v5[q], v1)
  BY <1>2, CoversSelf DEF D!IInv, D!OneHistory, D!Agree, D!Follows
<1>4. D!IInv'
  <2> DEFINE s == v1
  <2>1. /\ v5' = [v5 EXCEPT ![o] = s] /\ s.rev <= v1.rev /\ D!Agree(v1, s) /\ D!Agree(v2, s)
        /\ \A q \in D!InHand : D!Agree(v5[q], s)
    BY <1>1, <1>3
  <2>2. DOMAIN s = DOMAIN D!Nothing /\ s.ver \in Nat /\ s.rev \in Nat /\ D!Telling(s.ev) /\ s.ver <= v1.ver /\ s = v1
    BY <1>2
  <2> HIDE DEF s
  <2> QED BY <2>1, <2>2, <1>1, DigestOwn
<1> QED BY <1>1, <1>4, DigestStays

LEMMA DigestNothing ==
  ASSUME D!IInv
  PROVE  /\ DOMAIN D!Nothing = DOMAIN D!Nothing /\ D!Nothing.ver \in Nat /\ D!Nothing.rev \in Nat
         /\ D!Telling(D!Nothing.ev)
<1>1. D!Telling(v1.ev)
  BY DEF D!IInv, D!Shaped
<1> QED BY <1>1, CoversNothing DEF D!Nothing

LEMMA DigestMergeDoc ==
  ASSUME D!IInv, NEW o \in 1..Times, D!MergeDoc(o)
  PROVE  D!IInv' /\ D!NeverBack
<1> DEFINE s == v5[o]
           new == [s.ev EXCEPT ![v3[o].kind] = D!Merged(o, @)]
<1>1. v4[o] = "merge" /\ v2' = v2 /\ v3' = v3
  BY DEF D!MergeDoc
<1>2. /\ DOMAIN s = DOMAIN D!Nothing /\ s.ver \in Nat /\ s.rev \in Nat /\ D!Telling(s.ev) /\ v3[o] \in D!Facts
      /\ s.ver <= v1.ver /\ (s.ver = v1.ver => s = v1) /\ DOMAIN v1 = DOMAIN D!Nothing
  BY <1>1 DEF D!IInv, D!Shaped, D!ReadIsPresent
<1>3. CASE new # s.ev /\ ~D!Unmoved(o, v1.ver)
  <2>1. v4' = [v4 EXCEPT ![o] = "read"] /\ v5' = [v5 EXCEPT ![o] = D!Nothing] /\ v1' = v1
    BY <1>3 DEF D!MergeDoc
  <2> QED BY <2>1, <1>1, DigestNothing, DigestOwn, DigestStays
<1>4. CASE new # s.ev /\ D!Unmoved(o, v1.ver)
  <2>1. s = v1
    BY <1>2, <1>4 DEF D!Unmoved
  <2>2. /\ v1' = [ver |-> v1.ver + 1, rev |-> v1.rev + 1, ev |-> new]
        /\ v5' = [v5 EXCEPT ![o] = [ver |-> 0, rev |-> v1.rev + 1, ev |-> new]]
        /\ v4' = [v4 EXCEPT ![o] = "object"]
    BY <2>1, <1>4 DEF D!MergeDoc
  <2>3. new = [v1.ev EXCEPT ![v3[o].kind] = D!Merged(o, @)]
    BY <2>1
  <2> HIDE DEF new
  <2> QED BY <2>2, <2>3, <1>1, DigestDocWritten, DigestStays
<1>5. CASE new = s.ev
  <2> DEFINE t == [ver |-> 0, rev |-> s.rev, ev |-> new]
  <2>1. v1' = v1 /\ v5' = [v5 EXCEPT ![o] = t] /\ v4' = [v4 EXCEPT ![o] = "object"]
    BY <1>2, <1>5 DEF D!MergeDoc
  <2>2. D!Holds(v3[o], new)
    BY <1>2, MergeCovers
  <2>3. t.ver = 0 /\ t.rev = s.rev /\ t.ev = s.ev /\ DOMAIN t = DOMAIN D!Nothing
    BY <1>5 DEF D!Nothing
  <2>4. o \in D!InHand
    BY <1>1 DEF D!InHand
  <2>5. /\ s.rev <= v1.rev /\ D!Agree(v1, s) /\ D!Agree(v2, s)
        /\ \A q \in D!InHand : D!Agree(v5[q], s)
    BY <2>4 DEF D!IInv, D!OneHistory
  <2>6. \A a : D!Agree(a, s) => D!Agree(a, t)
    BY <2>3 DEF D!Agree, D!Follows
  <2>7. D!Holds(v3[o], t.ev) /\ D!Telling(t.ev)
    BY <2>2, <2>3, <1>2
  <2>8. /\ t.rev <= v1.rev /\ D!Agree(v1, t) /\ D!Agree(v2, t)
        /\ \A q \in D!InHand : D!Agree(v5[q], t)
    BY <2>3, <2>5, <2>6
  <2>9. DOMAIN t = DOMAIN D!Nothing /\ t.ver \in Nat /\ t.rev \in Nat
    BY <2>3, <1>2
  <2> HIDE DEF t, s, new
  <2> QED BY <2>1, <2>7, <2>8, <2>9, <1>1, DigestOwn, DigestStays
<1> QED BY <1>3, <1>4, <1>5

LEMMA DigestReadObject ==
  ASSUME D!IInv, NEW o \in 1..Times, D!ReadObject(o)
  PROVE  D!IInv' /\ D!NeverBack
<1> DEFINE s == v5[o]
<1>1. v4[o] = "object" /\ v1' = v1 /\ v2' = v2 /\ v3' = v3
  BY DEF D!ReadObject
<1>2. /\ DOMAIN s = DOMAIN D!Nothing /\ s.ver \in Nat /\ s.rev \in Nat /\ D!Telling(s.ev) /\ v3[o] \in D!Facts
      /\ v2.gen \in Nat /\ v2.rev \in Nat /\ D!Telling(v2.ev) /\ DOMAIN v5 = 1..Times
  BY <1>1 DEF D!IInv, D!Shaped
<1>0. D!Holds(v3[o], s.ev)
  BY <1>1, DigestHeld
<1>3. o \in D!InHand
  BY <1>1 DEF D!InHand
<1>4. /\ s.rev <= v1.rev /\ D!Agree(v1, s) /\ D!Agree(v2, s)
      /\ \A q \in D!InHand : D!Agree(v5[q], s)
  BY <1>3 DEF D!IInv, D!OneHistory
<1>5. CASE D!NewerStands(o)
  <2>1. v4' = [v4 EXCEPT ![o] = "stored"] /\ v5' = v5 /\ s = v5[o]
    BY <1>5 DEF D!ReadObject
  <2>2. D!Covers(v2.ev, s.ev)
    BY <1>4, <1>5, <1>2 DEF D!NewerStands, D!Agree, D!Follows
  <2>3. D!Holds(v3[o], v2.ev)
    BY <2>2, <1>0, <1>2, HeldOn
  <2> HIDE DEF s
  <2> QED BY <2>1, <2>3, <1>1, <1>2, DigestOwn, DigestStays
<1>6. CASE ~D!NewerStands(o)
  <2> DEFINE t == [s EXCEPT !.ver = v2.gen]
  <2>1. v4' = [v4 EXCEPT ![o] = "put"] /\ v5' = [v5 EXCEPT ![o] = t]
    BY <1>6 DEF D!ReadObject
  <2>2. t.ver = v2.gen /\ t.rev = s.rev /\ t.ev = s.ev /\ DOMAIN t = DOMAIN D!Nothing
    BY <1>2 DEF D!Nothing
  <2>3. \A a : D!Agree(a, s) => D!Agree(a, t)
    BY <2>2 DEF D!Agree, D!Follows
  <2>4. v2.gen = 0 \/ v2.rev < s.rev
    BY <1>2, <1>6 DEF D!NewerStands
  <2>5. /\ t.rev <= v1.rev /\ D!Agree(v1, t) /\ D!Agree(v2, t)
        /\ \A q \in D!InHand : D!Agree(v5[q], t)
    BY <2>2, <2>3, <1>4
  <2>6. /\ DOMAIN t = DOMAIN D!Nothing /\ t.ver \in Nat /\ t.rev \in Nat /\ D!Telling(t.ev)
        /\ t.ver <= v2.gen /\ (t.ver = v2.gen => v2.gen = 0 \/ v2.rev < t.rev)
        /\ D!Holds(v3[o], t.ev)
    BY <2>2, <2>4, <1>0, <1>2
  <2> HIDE DEF t, s
  <2> QED BY <2>1, <2>5, <2>6, <1>1, DigestOwn, DigestStays
<1> QED BY <1>5, <1>6

LEMMA DigestPutObject ==
  ASSUME D!IInv, NEW o \in 1..Times, D!PutObject(o)
  PROVE  D!IInv' /\ D!NeverBack
<1> DEFINE s == v5[o]
<1>1. v4[o] = "put" /\ v1' = v1 /\ v3' = v3 /\ v5' = v5
  BY DEF D!PutObject
<1>2. /\ DOMAIN s = DOMAIN D!Nothing /\ s.ver \in Nat /\ s.rev \in Nat /\ D!Telling(s.ev)
      /\ v5' = v5 /\ s = v5[o]
  BY <1>1 DEF D!IInv, D!Shaped
<1>0. D!Holds(v3[o], s.ev)
  BY <1>1, DigestHeld
<1>3. CASE D!Unmoved(o, v2.gen)
  <2>1. /\ v2' = [v2 EXCEPT !.gen = @ + 1, !.rev = v5[o].rev, !.ev = v5[o].ev]
        /\ v4' = [v4 EXCEPT ![o] = "stored"] /\ v5[o].ver = v2.gen
    BY <1>3 DEF D!PutObject, D!Unmoved
  <2> QED BY <2>1, <1>1, <1>2, DigestObjWritten
<1>4. CASE ~D!Unmoved(o, v2.gen)
  <2>1. v4' = [v4 EXCEPT ![o] = "object"] /\ v2' = v2
    BY <1>4 DEF D!PutObject
  <2>2. o \in D!InHand
    BY <1>1 DEF D!InHand
  <2>3. /\ s.rev <= v1.rev /\ D!Agree(v1, s) /\ D!Agree(v2, s)
        /\ \A q \in D!InHand : D!Agree(v5[q], s)
    BY <2>2 DEF D!IInv, D!OneHistory
  <2> HIDE DEF s
  <2> QED BY <2>1, <2>3, <1>0, <1>1, <1>2, DigestOwn, DigestStays
<1> QED BY <1>3, <1>4

LEMMA DigestRaise ==
  ASSUME D!IInv, NEW o \in 1..Times, D!Raise(o)
  PROVE  D!IInv' /\ D!NeverBack
<1>1. /\ v4' = [v4 EXCEPT ![o] = "raised"] /\ v5' = [v5 EXCEPT ![o] = D!Nothing] /\ v1' = v1 /\ v2' = v2 /\ v3' = v3
  BY DEF D!Raise
<1> QED BY <1>1, DigestNothing, DigestOwn, DigestStays

LEMMA DigestUnanswered ==
  ASSUME D!IInv, NEW o \in 1..Times, D!WriteUnanswered(o)
  PROVE  D!IInv' /\ D!NeverBack
<1>1. v4' = [v4 EXCEPT ![o] = "raised"] /\ v5' = [v5 EXCEPT ![o] = D!Nothing] /\ v3' = v3
  BY DEF D!WriteUnanswered
<1>2. CASE /\ v4[o] = "merge" /\ v2' = v2
           /\ v1' = [ver |-> v1.ver + 1, rev |-> v1.rev + 1, ev |-> [v1.ev EXCEPT ![v3[o].kind] = D!Merged(o, @)]]
  <2> DEFINE new == [v1.ev EXCEPT ![v3[o].kind] = D!Merged(o, @)]
  <2>1. v1' = [ver |-> v1.ver + 1, rev |-> v1.rev + 1, ev |-> new]
    BY <1>2
  <2>2. new = [v1.ev EXCEPT ![v3[o].kind] = D!Merged(o, @)]
    OBVIOUS
  <2> HIDE DEF new
  <2> QED BY <2>1, <2>2, <1>1, <1>2, DigestDocWritten, DigestStays
<1>3. CASE /\ v4[o] = "put" /\ v5[o].ver = v2.gen /\ v1' = v1
           /\ v2' = [v2 EXCEPT !.gen = @ + 1, !.rev = v5[o].rev, !.ev = v5[o].ev]
  BY <1>1, <1>3, DigestObjWritten
<1> QED BY <1>2, <1>3 DEF D!WriteUnanswered, D!Unmoved

LEMMA DigestInit ==
  ASSUME D!Init
  PROVE  D!IInv
<1>1. /\ DOMAIN D!Empty = D!Kinds
      /\ \A k \in D!Kinds : D!Empty[k] = D!NoRec
  BY DEF D!Empty
<1>2. DOMAIN D!NoRec = DOMAIN D!NoRec /\ D!NoRec.in = FALSE /\ D!NoRec.conflict = FALSE /\ D!NoRec.count = 0 /\ D!NoRec.seq = 0
  BY DEF D!NoRec
<1>3. D!Telling(D!Empty)
  BY <1>1, <1>2 DEF D!Telling
<1>4. /\ v1 = D!Nothing /\ v1.ver = 0 /\ v1.rev = 0 /\ v1.ev = D!Empty
      /\ DOMAIN v2 = {"gen", "rev", "ev", "ours"} /\ v2.gen \in Nat /\ v2.rev = 0 /\ v2.ev = D!Empty
      /\ v3 \in [1..Times -> D!Facts] /\ v4 = [o \in 1..Times |-> "read"] /\ v5 = [o \in 1..Times |-> D!Nothing]
  BY DEF D!Init, D!Nothing
<1>5. D!Shaped
  BY <1>3, <1>4 DEF D!Shaped, D!Nothing
<1>6. D!OneHistory
  BY <1>3, <1>4, CoversSelf DEF D!OneHistory, D!InHand, D!Agree, D!Follows
<1>7. D!ReadIsPresent /\ D!Held
  BY <1>4 DEF D!ReadIsPresent, D!Held
<1> QED BY <1>5, <1>6, <1>7 DEF D!IInv

LEMMA DigestStep ==
  ASSUME D!IInv, D!Next \/ UNCHANGED vars
  PROVE  D!IInv' /\ D!NeverBack
<1>1. CASE D!Next
  <2>1. D!Next
    BY <1>1
  <2> QED BY <2>1, DigestReadDoc, DigestMergeDoc, DigestReadObject, DigestPutObject, DigestRaise, DigestUnanswered DEF D!Next
<1>2. CASE UNCHANGED vars
  <2>1. v1' = v1 /\ v2' = v2 /\ v3' = v3 /\ v4' = v4 /\ v5' = v5
    BY <1>2 DEF vars
  <2>2. D!IInv'
    BY <2>1 DEF D!IInv, D!Shaped, D!OneHistory, D!ReadIsPresent, D!Held, D!InHand, D!Agree, D!Follows, D!Telling,
                D!Covers, D!Holds
  <2> QED BY <2>1, <2>2, DigestStays
<1> QED BY <1>1, <1>2

LEMMA DigestHolds ==
  ASSUME D!IInv
  PROVE  D!StoredIsShown
<1> SUFFICES ASSUME NEW o \in 1..Times, v4[o] = "stored"
             PROVE  /\ v2.ev[v3[o].kind].in /\ v2.ev[v3[o].kind].seq >= v3[o].seq
                    /\ v3[o].kind = "alert" => ~D!Row(v2.ev).ok
                    /\ v3[o].kind = "unknown" => ~D!Row(v2.ev).ok \/ D!Settled(v2.ev)
                    /\ v3[o].count # 0 => D!Row(v2.ev).count \in {0, v3[o].count}
  BY DEF D!StoredIsShown
<1>1. D!Holds(v3[o], v2.ev) /\ v3[o] \in D!Facts
  BY DEF D!IInv, D!Held, D!Shaped
<1>2. v3[o].kind = "alert" => ~D!Row(v2.ev).ok
  BY <1>1 DEF D!Holds, D!Row, D!Alerting
<1>3. v3[o].kind = "unknown" => ~D!Row(v2.ev).ok \/ D!Settled(v2.ev)
  BY <1>1 DEF D!Holds, D!Row
<1>4. v3[o].count # 0 => v3[o].kind = "order"
  BY <1>1 DEF D!Facts
<1>5. v3[o].count # 0 => D!Row(v2.ev).count \in {0, v3[o].count}
  BY <1>1, <1>4 DEF D!Holds, D!Row, D!InConflict, D!Kinds
<1> QED BY <1>1, <1>2, <1>3, <1>5 DEF D!Holds

----------------------------------------------------------------------------
(* What a request tells of itself.                                         *)

\* A step of one request by itself.
ReportAlone(r) ==
  /\ DOMAIN v1' = DOMAIN v1 /\ DOMAIN v3' = DOMAIN v3 /\ DOMAIN v4' = DOMAIN v4 /\ DOMAIN v5' = DOMAIN v5
  /\ DOMAIN v6' = DOMAIN v6 /\ DOMAIN v8' = DOMAIN v8
  /\ \A q \in Y!R : q # r => /\ v1'[q] = v1[q] /\ v3'[q] = v3[q] /\ v4'[q] = v4[q] /\ v5'[q] = v5[q]
                             /\ v6'[q] = v6[q] /\ v8'[q] = v8[q]

LEMMA ReportOwn ==
  ASSUME Y!IInv, NEW r \in Y!R, ReportAlone(r), Y!Along(r)',
         DOMAIN v5'[r] = DOMAIN Y!NoReport, DOMAIN v6'[r] = DOMAIN Y!NoReport,
         v1'[r] = "over" /\ (v3'[r] # "none" \/ v5'[r].status = "error" \/ v6'[r] = Y!NoReport) => v8'[r]
  PROVE  Y!IInv'
<1>1. Y!Shaped'
  BY DEF Y!IInv, Y!Shaped, ReportAlone
<1>2. ASSUME NEW q \in Y!R PROVE Y!Along(q)'
  <2>1. CASE q = r
    BY <2>1
  <2>2. CASE q # r
    <3>1. Y!Along(q)
      BY DEF Y!IInv
    <3> QED BY <2>2, <3>1 DEF ReportAlone, Y!Along
  <2> QED BY <2>1, <2>2
<1>3. Y!RunTold'
  <2>1. ASSUME NEW q \in Y!R, v1'[q] = "over",
               v3'[q] # "none" \/ v5'[q].status = "error" \/ v6'[q] = Y!NoReport
        PROVE  v8'[q]
    <3>1. CASE q = r
      BY <2>1, <3>1
    <3>2. CASE q # r
      <4>1. v8[q]
        BY <2>1, <3>2 DEF Y!IInv, Y!RunTold, Y!At, ReportAlone
      <4> QED BY <4>1, <3>2 DEF ReportAlone
    <3> QED BY <3>1, <3>2
  <2> QED BY <2>1 DEF Y!RunTold, Y!At
<1> QED BY <1>1, <1>2, <1>3 DEF Y!IInv

\* A request that does not end, in the fields that it has.
LEMMA ReportGoes ==
  ASSUME Y!IInv, NEW r \in Y!R, NEW at, v1' = [v1 EXCEPT ![r] = at], at # "over", v1[r] # "over",
         v3' = v3 \/ \E deed : v3' = [v3 EXCEPT ![r] = deed],
         v4' = v4 \/ \E s : v4' = [v4 EXCEPT ![r] = s],
         v5' = v5 \/ \E p : v5' = [v5 EXCEPT ![r] = p] /\ DOMAIN p = DOMAIN Y!NoReport,
         v6' = v6, v8' = v8 \/ v8' = [v8 EXCEPT ![r] = TRUE],
         at \in {"idle", "plugins", "market", "pass"} => v3'[r] = "none" /\ v5'[r] = Y!NoReport,
         at \in {"mark", "record", "publish", "report"} => Y!Fits(v4'[r], v3'[r]),
         at = "report" => v8'[r],
         at = "close" => /\ Y!Sound(v5'[r], v3'[r])
                         /\ v5'[r].outcome = "" => v5'[r].status = "error" \/ v3'[r] = "none"
                         /\ v3'[r] # "none" \/ v5'[r].status = "error" => v8'[r]
  PROVE  Y!IInv'
<1>1. /\ DOMAIN v1 = Y!R /\ DOMAIN v3 = Y!R /\ DOMAIN v4 = Y!R /\ DOMAIN v5 = Y!R /\ DOMAIN v6 = Y!R /\ DOMAIN v8 = Y!R
      /\ DOMAIN v5[r] = DOMAIN Y!NoReport /\ DOMAIN v6[r] = DOMAIN Y!NoReport
  BY DEF Y!IInv, Y!Shaped
<1>2. ReportAlone(r)
  BY <1>1 DEF ReportAlone
<1>3. v1'[r] = at /\ v6'[r] = Y!NoReport
  BY <1>1 DEF Y!IInv, Y!Along
<1>4. DOMAIN v5'[r] = DOMAIN Y!NoReport
  BY <1>1
<1>5. Y!Along(r)'
  BY <1>3 DEF Y!Along
<1> QED BY <1>1, <1>2, <1>3, <1>4, <1>5, ReportOwn

LEMMA ReportRaise ==
  ASSUME Y!IInv, NEW r \in Y!R, Y!Raise(r), v1[r] # "over",
         v3' = v3 \/ \E deed : v3' = [v3 EXCEPT ![r] = deed], v4' = v4, v6' = v6
  PROVE  Y!IInv'
<1> DEFINE p == [Y!NoReport EXCEPT !.status = "error"]
<1>1. /\ DOMAIN p = DOMAIN Y!NoReport /\ p.status = "error" /\ p.outcome = ""
  BY DEF Y!NoReport
<1>2. /\ v1' = [v1 EXCEPT ![r] = "close"] /\ v5' = [v5 EXCEPT ![r] = p] /\ v8' = [v8 EXCEPT ![r] = TRUE]
  BY DEF Y!Raise, Y!Go, Y!Tell
<1> HIDE DEF p
<1>3. v5'[r] = p /\ v8'[r] = TRUE
  BY <1>2 DEF Y!IInv, Y!Shaped
<1> QED BY <1>1, <1>2, <1>3, ReportGoes DEF Y!Sound

LEMMA ReportEnter ==
  ASSUME Y!IInv, NEW r \in Y!R, Y!Begin(r) \/ Y!TakeLock(r) \/ Y!Start(r)
  PROVE  Y!IInv'
<1>1. PICK at \in {"plugins", "market", "pass"} : v1' = [v1 EXCEPT ![r] = at]
  BY DEF Y!Begin, Y!TakeLock, Y!Start, Y!Go
<1>2. v3' = v3 /\ v4' = v4 /\ v5' = v5 /\ v6' = v6 /\ v8' = v8 /\ v1[r] \in {"idle", "plugins", "market"}
  BY DEF Y!Begin, Y!TakeLock, Y!Start, Y!At, Y!Quiet
<1>3. v3[r] = "none" /\ v5[r] = Y!NoReport
  BY <1>2 DEF Y!IInv, Y!Along
<1> QED BY <1>1, <1>2, <1>3, ReportGoes

LEMMA ReportSkip ==
  ASSUME Y!IInv, NEW r \in Y!R, Y!Overlap(r) \/ Y!Skip(r)
  PROVE  Y!IInv'
<1> DEFINE p == [v5[r] EXCEPT !.status = "skipped"]
<1>1. /\ v1' = [v1 EXCEPT ![r] = "close"] /\ v5' = [v5 EXCEPT ![r] = p]
      /\ v3' = v3 /\ v4' = v4 /\ v6' = v6 /\ v8' = v8 /\ v1[r] \in {"plugins", "market"}
  BY DEF Y!Overlap, Y!Skip, Y!At, Y!Go, Y!Quiet
<1>2. v3[r] = "none" /\ v5[r] = Y!NoReport
  BY <1>1 DEF Y!IInv, Y!Along
<1>3. DOMAIN p = DOMAIN Y!NoReport /\ p.outcome = "" /\ p.status = "skipped"
  <2>1. p = [Y!NoReport EXCEPT !.status = "skipped"]
    BY <1>2
  <2> HIDE DEF p
  <2> QED BY <2>1 DEF Y!NoReport
<1> HIDE DEF p
<1>4. v5'[r] = p
  BY <1>1 DEF Y!IInv, Y!Shaped
<1> QED BY <1>1, <1>2, <1>3, <1>4, ReportGoes DEF Y!Sound

LEMMA ReportPass ==
  ASSUME Y!IInv, NEW r \in Y!R, NEW deed, NEW s, NEW at \in {"mark", "record"}, v1[r] = "pass",
         Y!Pass(r, deed, s, at), Y!Fits(s, deed)
  PROVE  Y!IInv'
<1>1. /\ v1' = [v1 EXCEPT ![r] = at] /\ v3' = [v3 EXCEPT ![r] = deed] /\ v4' = [v4 EXCEPT ![r] = s]
      /\ v5' = v5 /\ v6' = v6 /\ v8' = v8
  BY DEF Y!Pass, Y!Go, Y!Quiet
<1>2. v3'[r] = deed /\ v4'[r] = s
  BY <1>1 DEF Y!IInv, Y!Shaped
<1> QED BY <1>1, <1>2, ReportGoes

LEMMA ReportTrades ==
  ASSUME Y!IInv, NEW r \in Y!R, Y!Idle(r) \/ Y!Already(r) \/ Y!Execute(r)
  PROVE  Y!IInv'
<1>1. v1[r] = "pass"
  BY DEF Y!Idle, Y!Already, Y!Execute, Y!At
<1>2. \A b, d, st : LET s == [Y!NoSummary EXCEPT !.status = st, !.brake = b] IN
        s.status = st /\ s.brake = b /\ s.submitted = FALSE /\ s.filled = FALSE
  BY DEF Y!NoSummary
<1>3. CASE Y!Idle(r)
  <2>1. PICK brake \in BOOLEAN, status \in {"no_op", "guarded", "blocked"} :
          \E deed \in IF brake THEN Y!Deeds ELSE {"none"} :
            Y!Pass(r, deed, [Y!NoSummary EXCEPT !.status = status, !.brake = brake], "record")
    BY <1>3 DEF Y!Idle
  <2>2. PICK deed \in IF brake THEN Y!Deeds ELSE {"none"} :
          Y!Pass(r, deed, [Y!NoSummary EXCEPT !.status = status, !.brake = brake], "record")
    BY <2>1
  <2> DEFINE s == [Y!NoSummary EXCEPT !.status = status, !.brake = brake]
  <2>3. s.status = status /\ s.brake = brake /\ s.submitted = FALSE /\ s.filled = FALSE
    BY DEF Y!NoSummary
  <2>4. ~brake => deed = "none"
    BY <2>2
  <2>5. Y!Pass(r, deed, s, "record")
    BY <2>2
  <2> HIDE DEF s
  <2>6. Y!Fits(s, deed)
    BY <2>1, <2>3, <2>4 DEF Y!Fits, Y!Statuses
  <2> QED BY <1>1, <2>5, <2>6, ReportPass
<1>4. CASE Y!Already(r)
  <2> DEFINE s == [Y!NoSummary EXCEPT !.status = "no_op"]
  <2>1. s.status = "no_op" /\ s.brake = FALSE /\ s.submitted = FALSE /\ s.filled = FALSE
    BY DEF Y!NoSummary
  <2>2. Y!Pass(r, "none", s, "record")
    BY <1>4 DEF Y!Already
  <2> HIDE DEF s
  <2>3. Y!Fits(s, "none")
    BY <2>1 DEF Y!Fits, Y!Statuses
  <2> QED BY <1>1, <2>2, <2>3, ReportPass
<1>5. ASSUME NEW status \in {"no_op", "guarded", "blocked"},
             Y!Pass(r, "none", [Y!NoSummary EXCEPT !.status = status], "mark")
      PROVE  Y!IInv'
  <2> DEFINE s == [Y!NoSummary EXCEPT !.status = status]
  <2>1. s.status = status /\ s.brake = FALSE /\ s.submitted = FALSE /\ s.filled = FALSE
    BY DEF Y!NoSummary
  <2>2. Y!Pass(r, "none", s, "mark")
    BY <1>5
  <2> HIDE DEF s
  <2>3. Y!Fits(s, "none")
    BY <2>1 DEF Y!Fits, Y!Statuses
  <2> QED BY <1>1, <2>2, <2>3, ReportPass
<1>6. ASSUME Y!Pass(r, "sent", [Y!NoSummary EXCEPT !.status = "executed", !.submitted = TRUE], "mark")
      PROVE  Y!IInv'
  <2> DEFINE s == [Y!NoSummary EXCEPT !.status = "executed", !.submitted = TRUE]
  <2>1. s.status = "executed" /\ s.brake = FALSE /\ s.submitted = TRUE /\ s.filled = FALSE
    BY DEF Y!NoSummary
  <2>2. Y!Pass(r, "sent", s, "mark")
    BY <1>6
  <2> HIDE DEF s
  <2>3. Y!Fits(s, "sent")
    BY <2>1 DEF Y!Fits, Y!Statuses
  <2> QED BY <1>1, <2>2, <2>3, ReportPass
<1>7. ASSUME Y!Pass(r, "filled", [Y!NoSummary EXCEPT !.status = "executed", !.submitted = TRUE, !.filled = TRUE], "mark")
      PROVE  Y!IInv'
  <2> DEFINE s == [Y!NoSummary EXCEPT !.status = "executed", !.submitted = TRUE, !.filled = TRUE]
  <2>1. s.status = "executed" /\ s.brake = FALSE /\ s.submitted = TRUE /\ s.filled = TRUE
    BY DEF Y!NoSummary
  <2>2. Y!Pass(r, "filled", s, "mark")
    BY <1>7
  <2> HIDE DEF s
  <2>3. Y!Fits(s, "filled")
    BY <2>1 DEF Y!Fits, Y!Statuses
  <2> QED BY <1>1, <2>2, <2>3, ReportPass
<1>8. ASSUME NEW deed \in {"none", "sent"},
             Y!Pass(r, deed, [Y!NoSummary EXCEPT !.status = "pending_reconciliation"], "mark")
      PROVE  Y!IInv'
  <2> DEFINE s == [Y!NoSummary EXCEPT !.status = "pending_reconciliation"]
  <2>1. s.status = "pending_reconciliation" /\ s.brake = FALSE /\ s.submitted = FALSE /\ s.filled = FALSE
    BY DEF Y!NoSummary
  <2>2. Y!Pass(r, deed, s, "mark")
    BY <1>8
  <2> HIDE DEF s
  <2>3. Y!Fits(s, deed)
    BY <2>1 DEF Y!Fits, Y!Statuses
  <2> QED BY <1>1, <2>2, <2>3, ReportPass
<1> QED BY <1>3, <1>4, <1>5, <1>6, <1>7, <1>8 DEF Y!Execute

\* The marker and the notice change nothing of the summary.
LEMMA ReportOn ==
  ASSUME Y!IInv, NEW r \in Y!R, Y!Mark(r) \/ Y!Publish(r) \/ (Y!Record(r) /\ Y!Go(r, "publish") /\ Y!Quiet /\ v5' = v5)
  PROVE  Y!IInv'
<1>1. /\ v3' = v3 /\ v4' = v4 /\ v5' = v5 /\ v6' = v6 /\ v1[r] \in {"mark", "record", "publish"}
  BY DEF Y!Mark, Y!Publish, Y!Record, Y!At
<1>2. Y!Fits(v4[r], v3[r])
  BY <1>1 DEF Y!IInv, Y!Along
<1>3. PICK at \in {"record", "publish", "report"} :
        /\ v1' = [v1 EXCEPT ![r] = at] /\ (v8' = v8 \/ v8' = [v8 EXCEPT ![r] = TRUE])
        /\ at = "report" => v8' = [v8 EXCEPT ![r] = TRUE]
  BY DEF Y!Mark, Y!Publish, Y!Go, Y!Tell, Y!Quiet
<1>4. at = "report" => v8'[r] = TRUE
  BY <1>3 DEF Y!IInv, Y!Shaped
<1> QED BY <1>1, <1>2, <1>3, <1>4, ReportGoes

LEMMA FactFits ==
  ASSUME NEW s, NEW deed, Y!Fits(s, deed), NEW o,
         o = Y!Fact(s) \/ (Y!Fact(s) = "no_action" /\ o = "no_signal")
  PROVE  /\ o # ""
         /\ o \in {"no_action", "no_signal", "risk_blocked"} /\ ~s.brake => deed = "none"
         /\ o = "filled" => deed = "filled"
BY DEF Y!Fact, Y!Failed, Y!Fits, Y!Statuses

LEMMA ReportFinish ==
  ASSUME Y!IInv, NEW r \in Y!R, Y!Finish(r)
  PROVE  Y!IInv'
<1>1. v1[r] = "report" /\ v3' = v3 /\ v4' = v4 /\ v6' = v6
  BY DEF Y!Finish, Y!At
<1>2. Y!Fits(v4[r], v3[r]) /\ v8[r]
  BY <1>1 DEF Y!IInv, Y!Along
<1>3. CASE Y!Raise(r)
  BY <1>1, <1>3, ReportRaise
<1>4. ASSUME NEW o \in {Y!Fact(v4[r])} \cup (IF Y!Fact(v4[r]) = "no_action" THEN {"no_signal"} ELSE {}),
             v5' = [v5 EXCEPT ![r] = [status |-> IF Y!Failed(v4[r]) THEN "error" ELSE "ok",
                                      outcome |-> o, sum |-> v4[r]]],
             Y!Go(r, "close"), Y!Quiet
      PROVE  Y!IInv'
  <2> DEFINE p == [status |-> IF Y!Failed(v4[r]) THEN "error" ELSE "ok", outcome |-> o, sum |-> v4[r]]
  <2>1. DOMAIN p = DOMAIN Y!NoReport /\ p.outcome = o /\ p.sum = v4[r]
    BY DEF Y!NoReport
  <2>2. v5' = [v5 EXCEPT ![r] = p] /\ v1' = [v1 EXCEPT ![r] = "close"] /\ v8' = v8
    BY <1>4 DEF Y!Go, Y!Quiet
  <2> HIDE DEF p
  <2>3. v5'[r] = p /\ v8'[r]
    BY <1>2, <2>2 DEF Y!IInv, Y!Shaped
  <2>4. /\ o # "" /\ (o = "filled" => v3[r] = "filled")
        /\ o \in {"no_action", "no_signal", "risk_blocked"} /\ ~v4[r].brake => v3[r] = "none"
    BY <1>2, FactFits
  <2>5. Y!Sound(p, v3[r])
    BY <2>1, <2>4 DEF Y!Sound
  <2> QED BY <1>1, <2>1, <2>2, <2>3, <2>4, <2>5, ReportGoes
<1> QED BY <1>3, <1>4 DEF Y!Finish

LEMMA ReportClose ==
  ASSUME Y!IInv, NEW r \in Y!R, Y!Close(r)
  PROVE  Y!IInv'
<1> DEFINE p == Y!Complete(r)
<1>1. v1[r] = "close" /\ v1' = [v1 EXCEPT ![r] = "over"] /\ v5' = [v5 EXCEPT ![r] = p] /\ v3' = v3 /\ v4' = v4
  BY DEF Y!Close, Y!At, Y!Go
<1>2. /\ DOMAIN v1 = Y!R /\ DOMAIN v3 = Y!R /\ DOMAIN v4 = Y!R /\ DOMAIN v5 = Y!R /\ DOMAIN v6 = Y!R /\ DOMAIN v8 = Y!R
      /\ DOMAIN v5[r] = DOMAIN Y!NoReport /\ DOMAIN v6[r] = DOMAIN Y!NoReport
  BY DEF Y!IInv, Y!Shaped
<1>3. /\ Y!Sound(v5[r], v3[r]) /\ v6[r] = Y!NoReport
      /\ v5[r].outcome = "" => v5[r].status = "error" \/ v3[r] = "none"
      /\ v3[r] # "none" \/ v5[r].status = "error" => v8[r]
  BY <1>1 DEF Y!IInv, Y!Along
<1>4. DOMAIN p = DOMAIN Y!NoReport /\ p.outcome # "" /\ p.sum = v5[r].sum /\ p.status = v5[r].status /\ Y!Sound(p, v3[r])
  <2>1. CASE v5[r].outcome = ""
    <3>1. p = [v5[r] EXCEPT !.outcome = Y!Fallback(v5[r].status)]
      BY <2>1 DEF Y!Complete
    <3>2. /\ DOMAIN p = DOMAIN Y!NoReport /\ p.outcome = Y!Fallback(v5[r].status) /\ p.sum = v5[r].sum
          /\ p.status = v5[r].status
      BY <3>1, <1>2 DEF Y!NoReport
    <3> HIDE DEF p
    <3> QED BY <2>1, <3>2, <1>3 DEF Y!Fallback, Y!Sound
  <2>2. CASE v5[r].outcome # ""
    BY <2>2, <1>2, <1>3 DEF Y!Complete
  <2> QED BY <2>1, <2>2
<1>5. p # Y!NoReport
  <2>1. Y!NoReport.outcome = ""
    BY DEF Y!NoReport
  <2> HIDE DEF p
  <2> QED BY <1>4, <2>1
<1>6. PICK kept \in {"cloud", "local", "lost"} :
        /\ v6' = [v6 EXCEPT ![r] = p] \/ (kept # "cloud" /\ v6' = v6)
        /\ IF kept # "cloud" /\ v5[r].status # "error" THEN v8' = [v8 EXCEPT ![r] = TRUE] ELSE v8' = v8
  BY DEF Y!Close, Y!Unconfirmed, Y!Tell, Y!Quiet
<1> HIDE DEF p
<1>7. v8' = v8 \/ v8' = [v8 EXCEPT ![r] = TRUE]
  BY <1>6
<1>8. v6' = v6 \/ v6' = [v6 EXCEPT ![r] = p]
  BY <1>6
<1>9. ReportAlone(r) /\ v1'[r] = "over" /\ v5'[r] = p /\ v3'[r] = v3[r] /\ (v6'[r] = p \/ v6'[r] = Y!NoReport)
  BY <1>1, <1>2, <1>3, <1>7, <1>8 DEF ReportAlone
<1>10. Y!Along(r)'
  BY <1>4, <1>9 DEF Y!Along
<1>11. v3'[r] # "none" \/ v5'[r].status = "error" \/ v6'[r] = Y!NoReport => v8'[r]
  <2>1. CASE v8' = [v8 EXCEPT ![r] = TRUE]
    BY <2>1, <1>2
  <2>2. CASE v8' = v8 /\ (v3[r] # "none" \/ v5[r].status = "error")
    BY <2>2, <1>3
  <2>3. CASE v8' = v8 /\ ~(v3[r] # "none" \/ v5[r].status = "error")
    <3>1. CASE kept = "cloud"
      BY <2>3, <3>1, <1>2, <1>4, <1>5, <1>6, <1>9
    <3>2. CASE kept # "cloud"
      BY <2>3, <3>2, <1>6, <1>2
    <3> QED BY <3>1, <3>2
  <2> QED BY <1>7, <2>1, <2>2, <2>3
<1> QED BY <1>2, <1>4, <1>9, <1>10, <1>11, ReportOwn

LEMMA ReportInit ==
  ASSUME Y!Init
  PROVE  Y!IInv
<1>1. /\ v1 = [r \in Y!R |-> "idle"] /\ v3 = [r \in Y!R |-> "none"] /\ v4 = [r \in Y!R |-> Y!NoSummary]
      /\ v5 = [r \in Y!R |-> Y!NoReport] /\ v6 = [r \in Y!R |-> Y!NoReport] /\ v8 = [r \in Y!R |-> FALSE]
  BY DEF Y!Init
<1>2. Y!Shaped
  BY <1>1 DEF Y!Shaped
<1>3. \A r \in Y!R : Y!Along(r)
  BY <1>1 DEF Y!Along
<1>4. Y!RunTold
  BY <1>1 DEF Y!RunTold, Y!At
<1> QED BY <1>2, <1>3, <1>4 DEF Y!IInv

LEMMA ReportStep ==
  ASSUME Y!IInv, Y!Next \/ UNCHANGED vars
  PROVE  Y!IInv'
<1>1. CASE Y!Next
  <2>1. Y!Next
    BY <1>1
  <2>2. PICK r \in Y!R : \/ Y!Begin(r) \/ Y!Overlap(r) \/ Y!TakeLock(r) \/ Y!Skip(r) \/ Y!Start(r)
                         \/ Y!Idle(r) \/ Y!Already(r) \/ Y!Execute(r) \/ Y!BrokenOff(r) \/ Y!Mark(r)
                         \/ Y!Record(r) \/ Y!Publish(r) \/ Y!Finish(r) \/ Y!Close(r)
    BY <2>1 DEF Y!Next
  <2>3. CASE Y!BrokenOff(r)
    BY <2>1, <2>2, <2>3, ReportRaise DEF Y!BrokenOff, Y!At
  <2>4. CASE Y!Record(r)
    <3>1. v1[r] = "record" /\ v3' = v3 /\ v4' = v4 /\ v6' = v6
      BY <2>4 DEF Y!Record, Y!At
    <3>2. CASE Y!Raise(r)
      BY <2>1, <2>2, <3>1, <3>2, ReportRaise
    <3>3. CASE Y!Go(r, "publish") /\ Y!Quiet /\ v5' = v5
      BY <2>1, <2>2, <2>4, <3>3, ReportOn
    <3> QED BY <2>4, <3>2, <3>3 DEF Y!Record
  <2> QED BY <2>1, <2>2, <2>3, <2>4, ReportEnter, ReportSkip, ReportTrades, ReportOn, ReportFinish, ReportClose
<1>2. CASE UNCHANGED vars
  <2>1. v1' = v1 /\ v2' = v2 /\ v3' = v3 /\ v4' = v4 /\ v5' = v5 /\ v6' = v6 /\ v8' = v8
    BY <1>2 DEF vars
  <2> QED BY <2>1 DEF Y!IInv, Y!Shaped, Y!Along, Y!RunTold, Y!At
<1> QED BY <1>1, <1>2

\* A sound receipt is right, and so is a row that counts nothing.
LEMMA ReportHolds ==
  ASSUME Y!IInv
  PROVE  Y!RunTold /\ Y!AlertShown /\ Y!ReceiptTrue /\ Y!ZeroIsZero
<1>1. Y!AlertShown
  BY DEF Y!AlertShown, Y!Row, Y!AnyAlerts, Y!Alerting
<1>2. Y!ReceiptTrue
  BY DEF Y!IInv, Y!Along, Y!Sound, Y!ReceiptTrue, Y!At
<1>3. ASSUME NEW S \in Y!Days, Y!Row(S).orders = "zero", NEW r \in S
      PROVE  v3[r] = "none"
  <2>1. Y!AllZero(S)
    BY <1>3 DEF Y!Row
  <2>2. Y!ProvenZero(v6[r])
    BY <2>1, <1>3 DEF Y!AllZero
  <2>3. r \in Y!R /\ v6[r] # Y!NoReport
    BY <1>3 DEF Y!Days, Y!Kept
  <2>4. Y!Sound(v6[r], v3[r])
    BY <2>3 DEF Y!IInv, Y!Along
  <2> QED BY <2>2, <2>4 DEF Y!ProvenZero, Y!SubmittedNone, Y!Sound
<1> QED BY <1>1, <1>2, <1>3 DEF Y!IInv, Y!ZeroIsZero

----------------------------------------------------------------------------
(* The publication of account facts.                                       *)

LEMMA SeqShape ==
  ASSUME NEW S, NEW s \in Seq(S)
  PROVE  Len(s) \in Nat /\ DOMAIN s = 1..Len(s) /\ \A i \in 1..Len(s) : s[i] \in S
OBVIOUS

LEMMA FunctionIsSeq ==
  ASSUME NEW S, NEW n \in Nat, NEW f \in [1..n -> S]
  PROVE  f \in Seq(S)
OBVIOUS

\* What the proofs use of the sequences.
LEMMA FactsShape ==
  ASSUME F!IInv
  PROVE  /\ Len(v1) \in Nat /\ DOMAIN v1 = 1..Len(v1) /\ \A i \in 1..Len(v1) : v1[i] \in [is: F!Kinds, rev: F!Revs, version: Int]
         /\ DOMAIN v12 = {"reviewed", "payloads", "written"} /\ v12.written \in Nat
         /\ v12.reviewed \in Seq([of: Int, version: Int]) /\ v12.payloads \in Seq([of: Int, version: Int])
         /\ Len(v12.reviewed) \in Nat /\ DOMAIN v12.reviewed = 1..Len(v12.reviewed)
         /\ Len(v12.payloads) \in Nat /\ DOMAIN v12.payloads = 1..Len(v12.payloads)
         /\ v6 \in F!Revs /\ v7 \in Nat /\ v8 \in Nat /\ v9 \in Nat
<1>1. v1 \in Seq([is: F!Kinds, rev: F!Revs, version: Int])
  BY DEF F!IInv, F!Shaped
<1>2. v12.reviewed \in Seq([of: Int, version: Int]) /\ v12.payloads \in Seq([of: Int, version: Int])
  BY DEF F!IInv, F!Shaped
<1>3. DOMAIN v12 = {"reviewed", "payloads", "written"} /\ v12.written \in Nat
  BY DEF F!IInv, F!Shaped, F!NoDays
<1>4. v6 \in F!Revs /\ v7 \in Nat /\ v8 \in Nat /\ v9 \in Nat
  BY DEF F!IInv, F!Listed
<1>5. Len(v1) \in Nat /\ DOMAIN v1 = 1..Len(v1) /\ \A i \in 1..Len(v1) : v1[i] \in [is: F!Kinds, rev: F!Revs, version: Int]
  BY <1>1, SeqShape
<1>6. /\ Len(v12.reviewed) \in Nat /\ DOMAIN v12.reviewed = 1..Len(v12.reviewed)
      /\ Len(v12.payloads) \in Nat /\ DOMAIN v12.payloads = 1..Len(v12.payloads)
  BY <1>2, SeqShape
<1> QED BY <1>2, <1>3, <1>4, <1>5, <1>6

\* A step before anything is posted or reviewed.
LEMMA FactsBefore ==
  ASSUME F!IInv, v11 = {}, v11' = v11, v12' = v12, v1' = v1, v4' # "archive", v13' \notin {"published", "unchanged"},
         F!Way', F!Listed', F!Choice'
  PROVE  F!IInv'
<1>1. F!Shaped'
  BY DEF F!IInv, F!Shaped
<1>2. F!Posting' /\ F!Archive' /\ F!PublishedIsStored'
  BY DEF F!Posting, F!Archive, F!PublishedIsStored
<1> QED BY <1>1, <1>2 DEF F!IInv

LEMMA FactsPosting ==
  ASSUME F!IInv, v4 # "archive", v5 # "over"
  PROVE  v11 = {} /\ v13 = "none"
BY DEF F!IInv, F!Posting, F!Way

LEMMA FactsArrive ==
  ASSUME F!IInv, NEW kind \in F!Kinds, NEW rev \in F!Revs, F!Arrive(kind, rev)
  PROVE  F!IInv'
<1> DEFINE new == [is |-> kind, rev |-> rev, version |-> 0]
<1>1. /\ v1' = Append(v1, new) /\ v5 \in {"resolve", "list", "first", "again"}
      /\ UNCHANGED <<v2, v3, v4, v5, v6, v7, v8, v9, v10, v11, v12, v13>>
  BY DEF F!Arrive, F!running
<1>2. v4 # "archive" /\ v11 = {} /\ v13 = "none"
  BY <1>1, FactsPosting DEF F!IInv, F!Way
<1>3. new \in [is: F!Kinds, rev: F!Revs, version: Int]
  OBVIOUS
<1> HIDE DEF new
<1>4. /\ v1' \in Seq([is: F!Kinds, rev: F!Revs, version: Int]) /\ Len(v1') = Len(v1) + 1
      /\ \A i \in 1..Len(v1) : v1'[i] = v1[i]
  BY <1>1, <1>3 DEF F!IInv, F!Shaped
<1>5. F!Shaped'
  BY <1>1, <1>4 DEF F!IInv, F!Shaped
<1>6. F!Way' /\ F!Archive' /\ F!Posting' /\ F!PublishedIsStored'
  BY <1>1, <1>2 DEF F!IInv, F!Way, F!Archive, F!Posting, F!PublishedIsStored
<1>7. F!Listed'
  BY <1>1, <1>4, FactsShape DEF F!IInv, F!Listed, F!NormalSkip
<1>8. F!Choice'
  <2>1. v5 \in {"first", "again"} => v8 <= Len(v1)
    BY DEF F!IInv, F!Listed
  <2>2. \A i \in v9 + 1..v8 : v8 <= Len(v1) => i \in 1..Len(v1)
    BY FactsShape
  <2>3. v5 \in {"first", "again"} /\ F!Passed => F!Passed'
    BY <1>1, <1>4, <2>1, <2>2 DEF F!Passed, F!NormalSkip
  <2> QED BY <1>1, <2>3 DEF F!IInv, F!Choice
<1> QED BY <1>5, <1>6, <1>7, <1>8 DEF F!IInv

LEMMA FactsTakeover ==
  ASSUME F!IInv, NEW to, F!Takeover(to)
  PROVE  F!IInv'
<1>1. UNCHANGED <<v1, v4, v5, v6, v7, v8, v9, v10, v11, v12, v13>>
  BY DEF F!Takeover, F!running
<1> QED BY <1>1 DEF F!IInv, F!Shaped, F!Way, F!Listed, F!Choice, F!Passed, F!NormalSkip, F!Posting, F!Projected, F!Archive,
     F!PublishedIsStored, F!Observation

LEMMA FactsWriteAnew ==
  ASSUME F!IInv, NEW i \in DOMAIN v1, F!WriteAnew(i)
  PROVE  F!IInv'
<1>1. /\ v1' = [v1 EXCEPT ![i].version = @ + 1] /\ v4 = "archive" /\ v5 # "over"
      /\ UNCHANGED <<v4, v5, v6, v7, v8, v9, v10, v11, v12, v13>>
  BY DEF F!WriteAnew, F!running
<1> DEFINE new == [v1[i] EXCEPT !.version = v1[i].version + 1]
<1>2. v1' = [v1 EXCEPT ![i] = new]
  BY <1>1
<1>3. new \in [is: F!Kinds, rev: F!Revs, version: Int]
  <2>1. v1[i] \in [is: F!Kinds, rev: F!Revs, version: Int]
    BY FactsShape
  <2>2. v1[i].version + 1 \in Int
    BY <2>1
  <2> QED BY <2>1, <2>2
<1> HIDE DEF new
<1>4. v1' \in Seq([is: F!Kinds, rev: F!Revs, version: Int])
  BY <1>2, <1>3 DEF F!IInv, F!Shaped
<1>5. v5 \in {"qualify", "append"} /\ v13 = "none"
  BY <1>1 DEF F!IInv, F!Way
<1>6. F!Shaped' /\ F!Way' /\ F!Listed' /\ F!Choice' /\ F!Posting' /\ F!Archive' /\ F!PublishedIsStored'
  BY <1>1, <1>4, <1>5 DEF F!IInv, F!Shaped, F!Way, F!Listed, F!Choice, F!Posting, F!Archive, F!PublishedIsStored
<1> QED BY <1>6 DEF F!IInv

LEMMA FactsStart ==
  ASSUME F!IInv, NEW as \in {"latest", "serving", "named"}, F!Start(as)
  PROVE  F!IInv'
<1>1. /\ v5 = "idle" /\ v4' = as /\ v5' = (IF as = "serving" THEN "resolve" ELSE "list")
      /\ UNCHANGED <<v1, v6, v7, v8, v9, v10, v11, v12, v13>>
  BY DEF F!Start, F!world
<1>2. v11 = {} /\ v13 = "none"
  BY <1>1, FactsPosting DEF F!IInv, F!Way
<1>3. F!Way' /\ F!Listed' /\ F!Choice'
  BY <1>1, <1>2 DEF F!IInv, F!Way, F!Listed, F!Choice
<1> QED BY <1>1, <1>2, <1>3, FactsBefore

LEMMA FactsResolve ==
  ASSUME F!IInv, F!Resolve
  PROVE  F!IInv'
<1>1. /\ v5 = "resolve" /\ v6' \in F!Revs /\ v5' = "list"
      /\ UNCHANGED <<v1, v4, v7, v8, v9, v10, v11, v12, v13>>
  BY DEF F!Resolve, F!world
<1>2. v4 = "serving" /\ v11 = {} /\ v13 = "none"
  BY <1>1, FactsPosting DEF F!IInv, F!Way
<1>3. F!Way' /\ F!Listed' /\ F!Choice'
  BY <1>1, <1>2 DEF F!IInv, F!Way, F!Listed, F!Choice
<1> QED BY <1>1, <1>2, <1>3, FactsBefore

LEMMA FactsList ==
  ASSUME F!IInv, F!List
  PROVE  F!IInv'
<1>1. PICK i \in (IF v4 = "named" THEN 1..Len(v1) ELSE {Len(v1)}) : v7' = i /\ v8' = Len(v1) /\ v9' = i
  BY DEF F!List
<1>2. v5 = "list" /\ v1 # <<>> /\ v5' = "first" /\ UNCHANGED <<v1, v4, v6, v10, v11, v12, v13>>
  BY DEF F!List, F!world
<1>3. v4 \in {"latest", "serving", "named"} /\ v11 = {} /\ v13 = "none"
  BY <1>2, FactsPosting DEF F!IInv, F!Way
<1>4. Len(v1) \in Nat /\ Len(v1) > 0
  BY <1>2 DEF F!IInv, F!Shaped
<1>5. i \in 1..Len(v1) /\ (v4 # "named" => i = Len(v1))
  BY <1>1, <1>4
<1>6. F!Way'
  BY <1>2, <1>3 DEF F!Way
<1>7. F!Listed'
  BY <1>1, <1>2, <1>4, <1>5 DEF F!IInv, F!Listed
<1>8. F!Choice'
  <2>1. v4' # "named" => v9' + 1..v8' = {}
    BY <1>1, <1>2, <1>4, <1>5
  <2> QED BY <1>2, <2>1 DEF F!Choice, F!Passed
<1> QED BY <1>2, <1>3, <1>6, <1>7, <1>8, FactsBefore

\* A choice that goes on with what it has.
LEMMA FactsChosen ==
  ASSUME F!IInv, v5 \in {"first", "older"}, v5' \in {"again", "confirm"},
         v5' = "again" => v5 = "first" /\ v4 # "named" /\ F!NormalSkip(v1[v9]),
         UNCHANGED <<v1, v4, v6, v7, v8, v9, v10, v11, v12, v13>>
  PROVE  F!IInv'
<1>1. v4 \in {"latest", "serving", "named"} /\ v11 = {} /\ v13 = "none"
  BY FactsPosting DEF F!IInv, F!Way
<1>2. F!Way'
  BY <1>1 DEF F!Way
<1>3. F!Listed'
  BY DEF F!IInv, F!Listed, F!NormalSkip
<1>4. F!Choice'
  BY DEF F!IInv, F!Choice, F!Passed, F!NormalSkip
<1> QED BY <1>1, <1>2, <1>3, <1>4, FactsBefore

\* A choice that ends with nothing.
LEMMA FactsSkipped ==
  ASSUME F!IInv, v5 # "idle", v5 # "over", v5' = "over", v13' = "skipped", v8' \in Nat,
         UNCHANGED <<v1, v4, v6, v7, v9, v10, v11, v12>>
  PROVE  F!IInv'
<1>1. F!Shaped' /\ F!Way' /\ F!Listed' /\ F!Choice' /\ F!PublishedIsStored'
  BY DEF F!IInv, F!Shaped, F!Way, F!Listed, F!Choice, F!PublishedIsStored
<1>2. F!Posting'
  BY FactsPosting DEF F!Posting
<1>3. F!Archive'
  BY DEF F!IInv, F!Archive, F!Way
<1> QED BY <1>1, <1>2, <1>3 DEF F!IInv

LEMMA FactsFirst ==
  ASSUME F!IInv, F!First
  PROVE  F!IInv'
<1>1. /\ v5 = "first" /\ v5' \in {"again", "confirm"} /\ UNCHANGED <<v1, v4, v6, v7, v8, v9, v10, v11, v12, v13>>
      /\ v5' = "again" => v4 # "named" /\ F!NormalSkip(v1[v9])
  BY DEF F!First, F!Chosen, F!world, F!chosen
<1> QED BY <1>1, FactsChosen

LEMMA FactsAgain ==
  ASSUME F!IInv, F!Again
  PROVE  F!IInv'
<1>1. /\ v5 = "again" /\ v8' = Len(v1) /\ UNCHANGED <<v1, v4, v6, v7, v10, v11, v12>>
  BY DEF F!Again, F!world
<1>2. CASE v5' = "over" /\ v13' = "skipped" /\ v9' = v9
  BY <1>1, <1>2, FactsShape, FactsSkipped
<1>3. CASE F!SameNewest /\ Len(v1) # 1 /\ v5' = "older" /\ v9' = Len(v1) - 1 /\ v13' = v13
  <2>1. v4 \in {"latest", "serving"} /\ v11 = {} /\ v13 = "none"
    BY <1>1, FactsPosting DEF F!IInv, F!Way
  <2>2. v9 = Len(v1) /\ v9 > 0 /\ F!NormalSkip(v1[v9])
    BY <1>1, <1>3, <2>1 DEF F!IInv, F!Listed, F!SameNewest
  <2>3. F!Way'
    BY <1>1, <1>3, <2>1 DEF F!Way
  <2>4. F!Listed'
    BY <1>1, <1>3, <2>2, FactsShape DEF F!Listed
  <2>5. \A i \in v9' + 1..v8' : i = v9
    BY <1>1, <1>3, <2>2, FactsShape
  <2>6. F!Choice'
    BY <1>1, <1>3, <2>2, <2>5 DEF F!Choice, F!Passed, F!NormalSkip
  <2> QED BY <1>1, <1>3, <2>1, <2>3, <2>4, <2>6, FactsBefore
<1> QED BY <1>2, <1>3 DEF F!Again, F!Stop

LEMMA FactsOlder ==
  ASSUME F!IInv, F!Older
  PROVE  F!IInv'
<1>1. v5 = "older" /\ UNCHANGED <<v1, v4, v6, v7, v8, v10, v11, v12>>
  BY DEF F!Older, F!Chosen, F!Skipped, F!world, F!chosen
<1>2. CASE v5' = "confirm" /\ v9' = v9 /\ v13' = v13
  BY <1>1, <1>2, FactsChosen
<1>3. CASE v5' = "over" /\ v13' = "skipped" /\ v9' = v9
  BY <1>1, <1>3, FactsShape, FactsSkipped
<1>4. CASE F!NormalSkip(v1[v9]) /\ v9 # 1 /\ v9' = v9 - 1 /\ v5' = v5 /\ v13' = v13
  <2>1. v4 \in {"latest", "serving"} /\ v11 = {} /\ v13 = "none"
    BY <1>1, FactsPosting DEF F!IInv, F!Way
  <2>2. v9 > 0 /\ v9 <= v8 /\ v8 <= Len(v1) /\ F!Passed
    BY <1>1, <2>1 DEF F!IInv, F!Listed, F!Choice
  <2>3. F!Way'
    BY <1>1, <1>4, <2>1 DEF F!Way
  <2>4. F!Listed'
    BY <1>1, <1>4, <2>2, FactsShape DEF F!Listed
  <2>5. \A i \in v9' + 1..v8' : i = v9 \/ i \in v9 + 1..v8
    BY <1>1, <1>4, FactsShape
  <2>6. F!Choice'
    BY <1>1, <1>4, <2>2, <2>5 DEF F!Choice, F!Passed, F!NormalSkip
  <2> QED BY <1>1, <1>4, <2>1, <2>3, <2>4, <2>6, FactsBefore
<1> QED BY <1>2, <1>3, <1>4 DEF F!Older, F!Chosen, F!Skipped, F!Stop, F!chosen, F!world

LEMMA FactsConfirm ==
  ASSUME F!IInv, F!Confirm
  PROVE  F!IInv'
<1>1. /\ v5 = "confirm" /\ v10' = (IF v2 \in F!Revs THEN v2 ELSE "none")
      /\ UNCHANGED <<v1, v4, v6, v7, v8, v9, v11, v12>>
      /\ \/ F!StillServing /\ v5' = "publish" /\ v13' = v13
         \/ v5' = "over" /\ v13' = "skipped"
  BY DEF F!Confirm, F!world, F!Stop
<1>2. v4 \in {"latest", "serving", "named"} /\ v11 = {} /\ v13 = "none" /\ v6 \in F!Revs
  BY <1>1, FactsPosting, FactsShape DEF F!IInv, F!Way
<1>3. F!Way'
  BY <1>1, <1>2 DEF F!Way
<1>4. F!Listed'
  BY <1>1 DEF F!IInv, F!Listed
<1>5. F!Choice'
  BY <1>1, <1>2 DEF F!IInv, F!Choice, F!Passed, F!NormalSkip, F!StillServing
<1> QED BY <1>1, <1>2, <1>3, <1>4, <1>5, FactsBefore

LEMMA FactsPublish ==
  ASSUME F!IInv, F!Publish
  PROVE  F!IInv'
<1>1. v5 = "publish" /\ UNCHANGED <<v1, v4, v6, v7, v8, v9, v10, v12>>
  BY DEF F!Publish, F!world, F!chosen
<1>2. CASE v5' = "over" /\ v13' = "skipped" /\ v11' = v11
  BY <1>1, <1>2, FactsShape, FactsSkipped
<1>3. CASE F!Projected(v1[v9])
  <2> DEFINE o == F!Observation(v9)
  <2>1. PICK reply \in F!Replies(o) :
          /\ v11' = (IF reply \in {"stored", "stored lost"} THEN v11 \cup {o} ELSE v11)
          /\ v5' = "over"
          /\ v13' = (CASE reply = "stored" -> "published" [] reply = "unchanged" -> "unchanged" [] OTHER -> "skipped")
    BY <1>3 DEF F!Publish, F!Taken, F!Stop, F!Acknowledged
  <2>2. v4 \in {"latest", "serving", "named"} /\ v11 = {} /\ v13 = "none"
    BY <1>1, FactsPosting DEF F!IInv, F!Way
  <2>3. v9 \in DOMAIN v1 /\ (v4 # "named" => F!Passed) /\ (v4 = "serving" => v10 = v6)
    BY <1>1, <2>2, FactsShape DEF F!IInv, F!Listed, F!Choice
  <2>4. v13' # "none" /\ (v13' \in {"published", "unchanged"} => o \in v11')
    BY <2>1, <2>2 DEF F!Replies
  <2> HIDE DEF o
  <2>5. F!Shaped' /\ F!Way' /\ F!Listed' /\ F!Choice' /\ F!Archive'
    BY <1>1, <2>1, <2>2 DEF F!IInv, F!Shaped, F!Way, F!Listed, F!Choice, F!Archive
  <2>6. F!Posting'
    BY <1>1, <1>3, <2>1, <2>3 DEF F!Posting, F!Passed, F!NormalSkip, F!Projected
  <2>7. F!PublishedIsStored'
    BY <1>1, <2>2, <2>4 DEF F!PublishedIsStored, F!Observation, o
  <2> QED BY <2>5, <2>6, <2>7 DEF F!IInv
<1> QED BY <1>2, <1>3 DEF F!Publish, F!Stop

LEMMA FactsReview ==
  ASSUME F!IInv, NEW reviewed \in F!Reviews, F!Review(reviewed)
  PROVE  F!IInv'
<1>1. /\ v5 = "idle" /\ v4' = "archive" /\ v5' = "qualify" /\ v12' = [F!NoDays EXCEPT !.reviewed = reviewed]
      /\ UNCHANGED <<v1, v6, v7, v8, v9, v10, v11, v13>>
  BY DEF F!Review, F!world
<1>2. v11 = {} /\ v13 = "none"
  BY <1>1, FactsPosting DEF F!IInv, F!Way
<1>3. reviewed \in Seq([of: Int, version: Int])
  <2> DEFINE Row == [of: Int, version: Int]
             row(i) == [of |-> i, version |-> v1[i].version]
  <2>1. \A i \in DOMAIN v1 : row(i) \in Row
    <3>1. ASSUME NEW i \in DOMAIN v1
          PROVE  row(i) \in Row
      <4>1. i \in Int /\ v1[i] \in [is: F!Kinds, rev: F!Revs, version: Int]
        BY FactsShape
      <4>2. v1[i].version \in Int
        BY <4>1
      <4> QED BY <4>1, <4>2
    <3> QED BY <3>1
  <2>2. \/ \E i \in DOMAIN v1 : reviewed = <<row(i)>>
        \/ \E i, j \in DOMAIN v1 : reviewed = <<row(i), row(j)>>
    BY DEF F!Reviews
  <2> HIDE DEF Row, row
  <2>3. \A a, b \in Row : <<a>> \in Seq(Row) /\ <<a, b>> \in Seq(Row)
    OBVIOUS
  <2>4. reviewed \in Seq(Row)
    BY <2>1, <2>2, <2>3
  <2> QED BY <2>4 DEF Row
<1>4. DOMAIN v12' = DOMAIN F!NoDays /\ v12'.reviewed = reviewed /\ v12'.payloads = <<>> /\ v12'.written = 0
  BY <1>1 DEF F!NoDays
<1>5. F!Shaped'
  <2>1. v1 \in Seq([is: F!Kinds, rev: F!Revs, version: Int])
    BY DEF F!IInv, F!Shaped
  <2>2. <<>> \in Seq([of: Int, version: Int])
    OBVIOUS
  <2>3. v12'.reviewed \in Seq([of: Int, version: Int]) /\ v12'.payloads \in Seq([of: Int, version: Int])
    BY <1>3, <1>4, <2>2
  <2>4. v12'.written \in Nat
    BY <1>4
  <2>5. F!NoDays' = F!NoDays
    BY DEF F!NoDays
  <2>6. v1' = v1
    BY <1>1
  <2> HIDE DEF F!NoDays
  <2> QED BY <1>4, <2>1, <2>3, <2>4, <2>5, <2>6 DEF F!Shaped
<1>6. F!Way' /\ F!Listed' /\ F!Choice' /\ F!Posting' /\ F!PublishedIsStored'
  BY <1>1, <1>2 DEF F!IInv, F!Way, F!Listed, F!Choice, F!Posting, F!PublishedIsStored
<1>7. F!Archive'
  BY <1>1, <1>2, <1>4 DEF F!Archive
<1> QED BY <1>5, <1>6, <1>7 DEF F!IInv

LEMMA FactsQualify ==
  ASSUME F!IInv, F!Qualify
  PROVE  F!IInv'
<1> DEFINE i == Len(v12.payloads) + 1
<1>1. v5 = "qualify" /\ UNCHANGED <<v1, v4, v6, v7, v8, v9, v10, v11>>
  BY DEF F!Qualify, F!world, F!chosen
<1>2. v4 = "archive" /\ v13 = "none" /\ v11 = {} /\ v12.written = 0
  BY <1>1 DEF F!IInv, F!Way, F!Archive
<1>3. CASE i > Len(v12.reviewed) /\ v5' = "append" /\ v12' = v12 /\ v13' = v13
  <2>1. Len(v12.payloads) = Len(v12.reviewed)
    <3> DEFINE m == Len(v12.payloads)
               n == Len(v12.reviewed)
    <3>1. m \in Nat /\ n \in Nat /\ DOMAIN v12.payloads = 1..m /\ DOMAIN v12.reviewed = 1..n
      BY FactsShape
    <3>2. \A j \in DOMAIN v12.payloads : j \in DOMAIN v12.reviewed
      BY <1>2 DEF F!IInv, F!Archive
    <3>3. m + 1 > n
      BY <1>3
    <3> HIDE DEF m, n
    <3>4. ASSUME m > 0
          PROVE  m \in 1..n
      <4>1. m \in 1..m
        BY <3>1, <3>4
      <4>2. m \in DOMAIN v12.payloads
        BY <3>1, <4>1
      <4>3. m \in DOMAIN v12.reviewed
        BY <3>2, <4>2
      <4> QED BY <3>1, <4>3
    <3>5. m = n
      BY <3>1, <3>3, <3>4
    <3> QED BY <3>5 DEF m, n
  <2>2. F!Shaped' /\ F!Way' /\ F!Listed' /\ F!Choice' /\ F!Posting' /\ F!PublishedIsStored'
    BY <1>1, <1>2, <1>3 DEF F!IInv, F!Shaped, F!Way, F!Listed, F!Choice, F!Posting, F!PublishedIsStored
  <2>3. F!Archive'
    BY <1>1, <1>2, <1>3, <2>1 DEF F!IInv, F!Archive
  <2> QED BY <2>2, <2>3 DEF F!IInv
<1>4. CASE /\ i <= Len(v12.reviewed) /\ F!AsReviewed(i) /\ v5' = v5 /\ v13' = v13
           /\ v12' = [v12 EXCEPT !.payloads = Append(v12.payloads, F!Payload(i))]
  <2> DEFINE new == F!Payload(i)
  <2>1. i \in 1..Len(v12.reviewed) /\ new = v12.reviewed[i]
    BY <1>4, FactsShape DEF F!AsReviewed
  <2>2. new \in [of: Int, version: Int]
    <3>1. v12.reviewed \in Seq([of: Int, version: Int])
      BY FactsShape
    <3>2. v12.reviewed[i] \in [of: Int, version: Int]
      BY <2>1, <3>1, SeqShape
    <3> HIDE DEF new
    <3> QED BY <2>1, <3>2
  <2> HIDE DEF new
  <2>3. /\ DOMAIN v12' = DOMAIN v12 /\ v12'.reviewed = v12.reviewed /\ v12'.written = v12.written
        /\ v12'.payloads = Append(v12.payloads, new)
    BY <1>4, FactsShape DEF new
  <2>4. /\ v12'.payloads \in Seq([of: Int, version: Int]) /\ Len(v12'.payloads) = i /\ v12'.payloads[i] = new
        /\ \A j \in DOMAIN v12.payloads : v12'.payloads[j] = v12.payloads[j]
        /\ DOMAIN v12'.payloads = 1..i
    BY <2>2, <2>3, FactsShape
  <2>5. F!Shaped'
    BY <1>1, <2>3, <2>4 DEF F!IInv, F!Shaped
  <2>6. F!Way' /\ F!Listed' /\ F!Choice' /\ F!Posting' /\ F!PublishedIsStored'
    BY <1>1, <1>2, <1>4 DEF F!IInv, F!Way, F!Listed, F!Choice, F!Posting, F!PublishedIsStored
  <2>7. \A j \in 1..i : j = i \/ j \in DOMAIN v12.payloads
    BY FactsShape
  <2>8. \A j \in DOMAIN v12'.payloads : j \in DOMAIN v12'.reviewed /\ v12'.payloads[j] = v12'.reviewed[j]
    BY <1>2, <2>1, <2>3, <2>4, <2>7, FactsShape DEF F!IInv, F!Archive
  <2>9. F!Archive'
    <3>1. v4' = "archive" /\ v5' = "qualify" /\ v11' = {} /\ v12'.written = 0 /\ Len(v12'.payloads) \in Nat
      BY <1>1, <1>2, <1>4, <2>3, <2>4, FactsShape
    <3> QED BY <3>1, <2>8 DEF F!Archive
  <2> QED BY <2>5, <2>6, <2>9 DEF F!IInv
<1>5. CASE v5' = "over" /\ v13' = "skipped" /\ v12' = v12
  BY <1>1, <1>5, FactsShape, FactsSkipped
<1> QED BY <1>3, <1>4, <1>5, FactsShape DEF F!Qualify, F!Stop

LEMMA FactsAppend ==
  ASSUME F!IInv, F!Append1
  PROVE  F!IInv'
<1> DEFINE i == v12.written + 1
           o == v12.payloads[i]
<1>1. v5 = "append" /\ UNCHANGED <<v1, v4, v6, v7, v8, v9, v10>>
  BY DEF F!Append1, F!world, F!chosen
<1>2. v4 = "archive" /\ v13 = "none" /\ Len(v12.payloads) = Len(v12.reviewed)
  BY <1>1 DEF F!IInv, F!Way, F!Archive
<1>3. /\ \A j \in DOMAIN v12.payloads : j \in DOMAIN v12.reviewed /\ v12.payloads[j] = v12.reviewed[j]
      /\ \A p \in v11 : \E j \in DOMAIN v12.payloads : p = v12.payloads[j]
      /\ \A j \in 1..v12.written : v12.payloads[j] \in v11
      /\ v12.written <= Len(v12.payloads)
  BY <1>2 DEF F!IInv, F!Archive
<1>4. CASE i > Len(v12.reviewed) /\ v5' = "over" /\ v13' = "published" /\ v11' = v11 /\ v12' = v12
  <2>1. F!Shaped' /\ F!Way' /\ F!Listed' /\ F!Choice' /\ F!Posting'
    BY <1>1, <1>2, <1>4 DEF F!IInv, F!Shaped, F!Way, F!Listed, F!Choice, F!Posting
  <2>2. F!Archive'
    BY <1>1, <1>2, <1>3, <1>4 DEF F!Archive
  <2>3. \A j \in DOMAIN v12.reviewed : v12.reviewed[j] \in v11
    BY <1>2, <1>3, <1>4, FactsShape
  <2>4. F!PublishedIsStored'
    BY <1>1, <1>2, <1>4, <2>3 DEF F!PublishedIsStored
  <2> QED BY <2>1, <2>2, <2>4 DEF F!IInv
<1>5. ASSUME i <= Len(v12.reviewed), NEW reply \in F!Replies(o),
             v11' = IF reply \in {"stored", "stored lost"} THEN v11 \cup {o} ELSE v11,
             \/ reply \in {"stored", "unchanged"} /\ v12' = [v12 EXCEPT !.written = i] /\ v5' = v5 /\ v13' = v13
             \/ v12' = v12 /\ v5' = "over" /\ v13' = "skipped"
      PROVE  F!IInv'
  <2>1. i \in DOMAIN v12.payloads
    <3>1. v12.written \in Nat /\ DOMAIN v12.payloads = 1..Len(v12.payloads) /\ Len(v12.payloads) \in Nat
      BY FactsShape
    <3>2. i <= Len(v12.payloads)
      BY <1>2, <1>5
    <3> QED BY <3>1, <3>2
  <2>2. \A p \in v11' : \E j \in DOMAIN v12.payloads : p = v12.payloads[j]
    BY <1>3, <1>5, <2>1
  <2>3. /\ DOMAIN v12' = DOMAIN v12 /\ v12'.reviewed = v12.reviewed /\ v12'.payloads = v12.payloads
        /\ v12'.written = v12.written \/ (v12'.written = i /\ reply \in {"stored", "unchanged"})
    BY <1>5, FactsShape
  <2>4. v12'.written \in Nat /\ v12'.written <= Len(v12.payloads)
    <3>1. v12.written \in Nat /\ i \in Nat
      BY FactsShape
    <3>2. i <= Len(v12.payloads)
      BY <1>2, <1>5
    <3> HIDE DEF i
    <3> QED BY <1>3, <2>3, <3>1, <3>2
  <2>5. reply \in {"stored", "unchanged"} => o \in v11'
    BY <1>5 DEF F!Replies
  <2>6. \A j \in 1..v12'.written : v12.payloads[j] \in v11'
    <3>1. \A j \in 1..v12.written : v12.payloads[j] \in v11'
      BY <1>3, <1>5
    <3>2. \A j \in 1..i : j = i \/ j \in 1..v12.written
      BY FactsShape
    <3> QED BY <2>3, <2>5, <3>1, <3>2
  <2>7. F!Shaped'
    BY <1>1, <2>3, <2>4 DEF F!IInv, F!Shaped
  <2>8. F!Way' /\ F!Listed' /\ F!Choice' /\ F!Posting' /\ F!PublishedIsStored'
    BY <1>1, <1>2, <1>5 DEF F!IInv, F!Way, F!Listed, F!Choice, F!Posting, F!PublishedIsStored
  <2>9. F!Archive'
    BY <1>1, <1>2, <1>3, <1>5, <2>2, <2>3, <2>4, <2>6 DEF F!Archive
  <2> QED BY <2>7, <2>8, <2>9 DEF F!IInv
<1>6. CASE i > Len(v12.reviewed)
  <2>1. v5' = "over" /\ v13' = "published" /\ v11' = v11 /\ v12' = v12
    BY <1>6 DEF F!Append1, F!Stop
  <2> QED BY <1>4, <1>6, <2>1
<1>7. CASE ~(i > Len(v12.reviewed))
  <2>1. PICK reply \in F!Replies(o) :
          /\ v11' = (IF reply \in {"stored", "stored lost"} THEN v11 \cup {o} ELSE v11)
          /\ \/ reply \in {"stored", "unchanged"} /\ v12' = [v12 EXCEPT !.written = i] /\ v5' = v5 /\ v13' = v13
             \/ v12' = v12 /\ v5' = "over" /\ v13' = "skipped"
    BY <1>7 DEF F!Append1, F!Stop, F!Taken, F!Acknowledged
  <2>2. i <= Len(v12.reviewed)
    <3>1. v12.written \in Nat /\ Len(v12.reviewed) \in Nat
      BY FactsShape
    <3> QED BY <1>7, <3>1
  <2> QED BY <1>5, <2>1, <2>2
<1> QED BY <1>6, <1>7

LEMMA FactsInit ==
  ASSUME F!Init
  PROVE  F!IInv
<1>1. /\ v4 = "none" /\ v5 = "idle" /\ v6 = "r1" /\ v7 = 0 /\ v8 = 0 /\ v9 = 0 /\ v11 = {} /\ v12 = F!NoDays /\ v13 = "none"
  BY DEF F!Init
<1>2. v1 \in Seq([is: F!Kinds, rev: F!Revs, version: Int])
  <2>1. PICK n \in 0..(Times + 1) - 1 : v1 \in [1..n -> {r \in F!Report : r.version = 0 /\ r.rev = "r1"}]
    <3>1. v1 \in UNION {[1..n -> {r \in F!Report : r.version = 0 /\ r.rev = "r1"}] : n \in 0..(Times + 1) - 1}
      BY DEF F!Init
    <3> QED BY <3>1
  <2>2. F!Report \subseteq [is: F!Kinds, rev: F!Revs, version: Int]
    BY DEF F!Report
  <2>3. n \in Nat
    BY TimesType
  <2>4. v1 \in [1..n -> [is: F!Kinds, rev: F!Revs, version: Int]]
    BY <2>1, <2>2
  <2> QED BY <2>3, <2>4, FunctionIsSeq
<1>3. F!Shaped
  BY <1>1, <1>2 DEF F!Shaped, F!NoDays
<1>4. F!Way /\ F!Listed /\ F!Choice /\ F!Posting /\ F!Archive /\ F!PublishedIsStored
  BY <1>1 DEF F!Way, F!Listed, F!Choice, F!Posting, F!Archive, F!PublishedIsStored, F!Revs
<1> QED BY <1>3, <1>4 DEF F!IInv

LEMMA FactsStep ==
  ASSUME F!IInv, F!Next \/ UNCHANGED vars
  PROVE  F!IInv'
<1>1. CASE F!Next
  <2>1. F!Next
    BY <1>1
  <2>2. CASE F!Fail
    <3>1. /\ v5 # "idle" /\ v5 # "over" /\ v5' = "over" /\ v13' = "skipped"
          /\ UNCHANGED <<v1, v4, v6, v7, v8, v9, v10, v11, v12>>
      BY <2>2 DEF F!Fail, F!Skipped, F!Stop, F!world, F!chosen
    <3> QED BY <2>1, <3>1, FactsShape, FactsSkipped
  <2> QED BY <2>1, <2>2, FactsArrive, FactsTakeover, FactsWriteAnew, FactsStart, FactsReview, FactsResolve, FactsList,
      FactsFirst, FactsAgain, FactsOlder, FactsConfirm, FactsPublish, FactsQualify, FactsAppend DEF F!Next
<1>2. CASE UNCHANGED vars
  <2>1. UNCHANGED <<v1, v4, v5, v6, v7, v8, v9, v10, v11, v12, v13>>
    BY <1>2 DEF vars
  <2> QED BY <2>1 DEF F!IInv, F!Shaped, F!Way, F!Listed, F!Choice, F!Passed, F!NormalSkip, F!Posting, F!Projected, F!Archive,
     F!PublishedIsStored, F!Observation
<1> QED BY <1>1, <1>2

LEMMA FactsHold ==
  ASSUME F!IInv
  PROVE  F!NothingOvershadowed /\ F!OfTheServing /\ F!OnlyReviewed /\ F!PublishedIsStored
<1>1. F!NothingOvershadowed
  BY DEF F!IInv, F!Posting, F!Passed, F!NormalSkip, F!Posted, F!NothingOvershadowed
<1>2. F!OfTheServing
  BY DEF F!IInv, F!Posting, F!Projected, F!Posted, F!OfTheServing
<1>3. F!OnlyReviewed
  BY DEF F!IInv, F!Archive, F!OnlyReviewed
<1> QED BY <1>1, <1>2, <1>3 DEF F!IInv

----------------------------------------------------------------------------
(* The notices of concurrent observers.                                    *)

LEMMA NoticeShape ==
  ASSUME I!Sending, NEW o \in I!Observers
  PROVE  /\ DOMAIN v4 = I!Observers /\ DOMAIN v5 = I!Observers /\ DOMAIN v7 = I!Observers
         /\ DOMAIN v1 = I!Reasons /\ I!Reason(v7[o].family) \in I!Reasons /\ I!Mine(o) = v1[I!Reason(v7[o].family)]
         /\ DOMAIN v5[o] = DOMAIN I!NoMark /\ v5[o].ver \in Nat /\ v5[o].gen \in Nat
         /\ DOMAIN v7[o] = DOMAIN I!NoInc /\ v7[o].family \in I!Families /\ v7[o].gen \in Nat
BY DEF I!Sending, I!Shaped, I!Reason, I!Reasons, I!Mine

\* A step of one observer that opens no incident: the markers may get a later
\* version, or be closed.
LEMMA NoticeNoOpening ==
  ASSUME I!Sending, NEW o \in I!Observers,
         v2 \subseteq v2', v2' \subseteq I!Families, v10' = v10, DOMAIN v1' = I!Reasons,
         DOMAIN v4' = I!Observers, DOMAIN v5' = I!Observers, DOMAIN v7' = I!Observers,
         \A r \in I!Reasons :
           \/ v1'[r] = v1[r]
           \/ /\ DOMAIN v1'[r] = DOMAIN I!NoMark /\ v1'[r].ver = v1[r].ver + 1 /\ v1'[r].gen = v1[r].gen
              /\ v1'[r].active => v1[r].active,
         \A p \in I!Observers \ {o} : v4'[p] = v4[p] /\ v5'[p] = v5[p] /\ v7'[p] = v7[p],
         DOMAIN v5'[o] = DOMAIN I!NoMark, v5'[o].ver \in Nat, v5'[o].gen \in Nat,
         DOMAIN v7'[o] = DOMAIN I!NoInc, v7'[o].family \in I!Families, v7'[o].gen \in Nat,
         v4'[o] \notin {"reserve", "send"},
         v4'[o] = "observe" /\ v7'[o].act = "raise" => v7'[o].family \in v2'
  PROVE  I!Sending'
<1>1. \A r \in I!Reasons : v1[r].ver \in Nat /\ v1[r].gen \in Nat /\ v1'[r].gen = v1[r].gen
  BY DEF I!Sending, I!Shaped
<1>2. \A p \in I!Observers : p # o => I!Reason(v7[p].family) \in I!Reasons
  BY NoticeShape
<1>3. I!Shaped'
  BY <1>1 DEF I!Sending, I!Shaped
<1>4. I!ReadIsPresent'
  <2> SUFFICES ASSUME NEW p \in I!Observers, v4'[p] = "reserve"
               PROVE  /\ v5'[p].ver <= I!Mine(p)'.ver
                      /\ v5'[p].ver = I!Mine(p)'.ver => v5'[p] = I!Mine(p)'
    BY DEF I!ReadIsPresent
  <2>1. p # o /\ v4[p] = "reserve" /\ v5'[p] = v5[p] /\ v7'[p] = v7[p] /\ v5[p].ver \in Nat
    BY DEF I!Sending, I!Shaped
  <2>2. v5[p].ver <= I!Mine(p).ver /\ (v5[p].ver = I!Mine(p).ver => v5[p] = I!Mine(p))
    BY <2>1 DEF I!Sending, I!ReadIsPresent
  <2> DEFINE r == I!Reason(v7[p].family)
  <2>3. r \in I!Reasons /\ I!Mine(p) = v1[r] /\ I!Mine(p)' = v1'[r]
    BY <1>2, <2>1 DEF I!Mine, I!Reason
  <2> HIDE DEF r
  <2>4. v1'[r] = v1[r] \/ v1'[r].ver = v1[r].ver + 1
    BY <2>3
  <2> QED BY <1>1, <2>1, <2>2, <2>3, <2>4
<1>5. I!OwnOpening'
  <2>1. \A s \in v10 : s[3] <= v1[s[2]].gen /\ s[2] \in I!Reasons
    BY DEF I!Sending, I!Shaped, I!OwnOpening
  <2>2. \A p \in I!Observers : v4'[p] = "send" =>
          /\ p # o /\ v4[p] = "send" /\ v7'[p] = v7[p]
          /\ I!Mine(p)'.gen = I!Mine(p).gen
    BY <1>1, <1>2 DEF I!Mine, I!Reason
  <2> QED BY <1>1, <2>1, <2>2 DEF I!Sending, I!OwnOpening, I!Opens, I!Reason
<1>6. I!Findable'
  BY DEF I!Sending, I!Findable
<1>7. I!SentOnce'
  <2>1. \A r \in I!Reasons : v1'[r].active => \E f \in v2' : I!Reason(f) = r
    BY DEF I!Sending, I!SentOnce
  <2> QED BY <2>1 DEF I!Sending, I!SentOnce, I!Reason
<1> QED BY <1>3, <1>4, <1>5, <1>6, <1>7 DEF I!Sending

LEMMA NoticeClassify ==
  ASSUME I!Sending, NEW o \in I!Observers, I!Classify(o)
  PROVE  I!Sending'
<1>1. /\ v1' = v1 /\ v2' = v2 /\ v5' = v5 /\ v7' = v7 /\ v10' = v10
      /\ v4' = [v4 EXCEPT ![o] = v4'[o]] /\ v4'[o] \in {"persist", "over"}
  BY NoticeShape DEF I!Classify, I!markers
<1> QED BY <1>1, NoticeShape, NoticeNoOpening DEF I!Sending, I!Shaped

LEMMA NoticePersist ==
  ASSUME I!Sending, NEW o \in I!Observers, I!Persist(o)
  PROVE  I!Sending'
<1>1. /\ v1' = v1 /\ v2' = v2 /\ v5' = v5 /\ v10' = v10
      /\ \/ \E p \in {"next", "over"} : v4' = [v4 EXCEPT ![o] = p] /\ v7' = v7
         \/ /\ v4' = [v4 EXCEPT ![o] = "index"]
            /\ \E f \in I!Families : v7' = [v7 EXCEPT ![o] = [family |-> f, act |-> "raise", gen |-> 0]]
  BY DEF I!Persist, I!markers, I!Own, I!Families
<1>2. CASE \E p \in {"next", "over"} : v4' = [v4 EXCEPT ![o] = p] /\ v7' = v7
  BY <1>1, <1>2, NoticeShape, NoticeNoOpening DEF I!Sending, I!Shaped
<1>3. ASSUME NEW f \in I!Families, v4' = [v4 EXCEPT ![o] = "index"],
             v7' = [v7 EXCEPT ![o] = [family |-> f, act |-> "raise", gen |-> 0]]
      PROVE  I!Sending'
  <2>1. /\ DOMAIN v7'[o] = DOMAIN I!NoInc /\ v7'[o].family = f /\ v7'[o].gen = 0 /\ DOMAIN v7' = I!Observers
        /\ \A p \in I!Observers \ {o} : v7'[p] = v7[p]
    BY <1>3, NoticeShape DEF I!NoInc
  <2> QED BY <1>1, <1>3, <2>1, NoticeShape, NoticeNoOpening DEF I!Sending, I!Shaped
<1> QED BY <1>1, <1>2, <1>3

LEMMA NoticeNextRecovery ==
  ASSUME I!Sending, NEW o \in I!Observers, I!NextRecovery(o)
  PROVE  I!Sending'
<1>1. /\ v1' = v1 /\ v2' = v2 /\ v5' = v5 /\ v10' = v10
      /\ \E p \in {"over", "observe", "next"}, f \in I!Families, a \in {"none", "recover"} :
            /\ v4' = [v4 EXCEPT ![o] = p]
            /\ v7' = [v7 EXCEPT ![o] = [family |-> f, act |-> a, gen |-> 0]]
  BY DEF I!NextRecovery, I!markers, I!Own, I!Families, I!NoInc
<1>2. PICK p \in {"over", "observe", "next"}, f \in I!Families, a \in {"none", "recover"} :
         /\ v4' = [v4 EXCEPT ![o] = p]
         /\ v7' = [v7 EXCEPT ![o] = [family |-> f, act |-> a, gen |-> 0]]
  BY <1>1
<1>3. /\ DOMAIN v7'[o] = DOMAIN I!NoInc /\ v7'[o].family = f /\ v7'[o].gen = 0 /\ v7'[o].act = a
      /\ DOMAIN v7' = I!Observers /\ \A q \in I!Observers \ {o} : v7'[q] = v7[q]
  BY <1>2, NoticeShape DEF I!NoInc
<1>4. v4'[o] = p /\ DOMAIN v4' = I!Observers /\ \A q \in I!Observers \ {o} : v4'[q] = v4[q]
  BY <1>2, NoticeShape
<1> QED BY <1>1, <1>3, <1>4, NoticeShape, NoticeNoOpening DEF I!Sending, I!Shaped

LEMMA NoticeAddReason ==
  ASSUME I!Sending, NEW o \in I!Observers, I!AddReason(o)
  PROVE  I!Sending'
<1>1. /\ v1' = v1 /\ v2' = v2 \cup {v7[o].family} /\ v5' = v5 /\ v7' = v7 /\ v10' = v10
      /\ v4' = [v4 EXCEPT ![o] = "observe"]
  BY DEF I!AddReason
<1>2. v4'[o] = "observe" /\ DOMAIN v4' = I!Observers /\ \A q \in I!Observers \ {o} : v4'[q] = v4[q]
  BY <1>1, NoticeShape
<1> QED BY <1>1, <1>2, NoticeShape, NoticeNoOpening DEF I!Sending, I!Shaped

LEMMA NoticeIncidentFails ==
  ASSUME I!Sending, NEW o \in I!Observers, I!IncidentFails(o)
  PROVE  I!Sending'
<1>1. /\ v1' = v1 /\ v2' = v2 /\ v7' = v7 /\ v10' = v10 /\ v5' = [v5 EXCEPT ![o] = I!NoMark]
      /\ \E p \in {"over", "next"} : v4' = [v4 EXCEPT ![o] = p]
  BY DEF I!IncidentFails, I!markers
<1>2. /\ DOMAIN v5' = I!Observers /\ v5'[o] = I!NoMark /\ \A q \in I!Observers \ {o} : v5'[q] = v5[q]
      /\ I!NoMark.ver \in Nat /\ I!NoMark.gen \in Nat
  BY <1>1, NoticeShape DEF I!NoMark
<1>3. v4'[o] \in {"over", "next"} /\ DOMAIN v4' = I!Observers /\ \A q \in I!Observers \ {o} : v4'[q] = v4[q]
  BY <1>1, NoticeShape
<1> QED BY <1>1, <1>2, <1>3, NoticeShape, NoticeNoOpening DEF I!Sending, I!Shaped

LEMMA NoticeReadMarker ==
  ASSUME I!Sending, NEW o \in I!Observers, I!ReadMarker(o)
  PROVE  I!Sending'
<1>1. /\ v1' = v1 /\ v2' = v2 /\ v7' = v7 /\ v10' = v10 /\ v4[o] = "observe"
      /\ v5' = [v5 EXCEPT ![o] = I!Mine(o)] /\ v4' = [v4 EXCEPT ![o] = "reserve"]
  BY DEF I!ReadMarker, I!markers
<1>2. I!Shaped'
  BY <1>1, NoticeShape DEF I!Sending, I!Shaped
<1>3. I!ReadIsPresent'
  BY <1>1, NoticeShape DEF I!Sending, I!ReadIsPresent, I!Mine, I!Shaped
<1>4. I!OwnOpening'
  BY <1>1, NoticeShape DEF I!Sending, I!OwnOpening, I!Opens, I!Mine
<1>5. I!Findable'
  BY <1>1, NoticeShape DEF I!Sending, I!Findable
<1>6. I!SentOnce'
  BY <1>1 DEF I!Sending, I!SentOnce
<1> QED BY <1>2, <1>3, <1>4, <1>5, <1>6 DEF I!Sending

\* A marker that gets a later version and stays as it is otherwise.
LEMMA NoticeTouched ==
  ASSUME I!Sending, NEW o \in I!Observers, v4' = [v4 EXCEPT ![o] = "next"],
         v2' = v2, v5' = v5, v7' = v7, v10' = v10,
         v1' = [v1 EXCEPT ![I!Reason(v7[o].family)].ver = @ + 1, ![I!Reason(v7[o].family)].at = v3[o].at]
  PROVE  I!Sending'
<1> DEFINE r == I!Reason(v7[o].family)
<1>1. r \in I!Reasons /\ DOMAIN v1 = I!Reasons
  BY NoticeShape
<1>7. v1' = [v1 EXCEPT ![r].ver = @ + 1, ![r].at = v3[o].at]
  OBVIOUS
<1>2. DOMAIN v1[r] = DOMAIN I!NoMark
  BY <1>1 DEF I!Sending, I!Shaped
<1> HIDE DEF r
<1>3. DOMAIN v1'[r] = DOMAIN I!NoMark /\ v1'[r].ver = v1[r].ver + 1 /\ v1'[r].gen = v1[r].gen /\ v1'[r].active = v1[r].active
  BY <1>1, <1>2, <1>7 DEF I!NoMark
<1>4. DOMAIN v1' = I!Reasons /\ \A q \in I!Reasons : q # r => v1'[q] = v1[q]
  BY <1>1, <1>7
<1>5. v4'[o] = "next" /\ DOMAIN v4' = I!Observers /\ \A q \in I!Observers \ {o} : v4'[q] = v4[q]
  BY NoticeShape
<1>6. \A q \in I!Reasons :
        \/ v1'[q] = v1[q]
        \/ /\ DOMAIN v1'[q] = DOMAIN I!NoMark /\ v1'[q].ver = v1[q].ver + 1 /\ v1'[q].gen = v1[q].gen
           /\ v1'[q].active => v1[q].active
  BY <1>3, <1>4
<1> QED BY <1>4, <1>5, <1>6, NoticeShape, NoticeNoOpening DEF I!Sending, I!Shaped

LEMMA NoticeCursor ==
  ASSUME I!Sending, NEW o \in I!Observers, I!Cursor(o)
  PROVE  I!Sending'
<1>1. v4' = [v4 EXCEPT ![o] = "next"] /\ v2' = v2 /\ v5' = v5 /\ v7' = v7 /\ v10' = v10
  BY DEF I!Cursor
<1>2. CASE v1' = v1
  <2>1. v4'[o] = "next" /\ DOMAIN v4' = I!Observers /\ \A q \in I!Observers \ {o} : v4'[q] = v4[q]
    BY <1>1, NoticeShape
  <2> QED BY <1>1, <1>2, <2>1, NoticeShape, NoticeNoOpening DEF I!Sending, I!Shaped
<1>3. CASE v1' = [v1 EXCEPT ![I!Reason(v7[o].family)].ver = @ + 1, ![I!Reason(v7[o].family)].at = v3[o].at]
  BY <1>1, <1>3, NoticeTouched
<1> QED BY <1>2, <1>3 DEF I!Cursor

LEMMA NoticeRecordDelivery ==
  ASSUME I!Sending, NEW o \in I!Observers, I!RecordDelivery(o)
  PROVE  I!Sending'
BY NoticeTouched DEF I!RecordDelivery

\* What is sent is an opening of its own, and no longer to be sent.
LEMMA NoticeSend ==
  ASSUME I!Sending, NEW o \in I!Observers, I!Send(o)
  PROVE  I!Sending'
<1> DEFINE r == I!Reason(v7[o].family)
           new == <<o, r, v7[o].gen>>
<1>1. /\ v4[o] = "send" /\ v4' = [v4 EXCEPT ![o] = "record"] /\ v10' = v10 \cup {new}
      /\ v1' = v1 /\ v2' = v2 /\ v5' = v5 /\ v7' = v7
  BY DEF I!Send, I!markers
<1>2. /\ r \in I!Reasons /\ v7[o].gen \in Nat /\ v7[o].gen <= v1[r].gen
      /\ \A s \in v10 : ~(s[2] = r /\ s[3] = v7[o].gen)
  BY <1>1, NoticeShape DEF I!Sending, I!OwnOpening, I!Opens, I!Mine
<1>3. new[2] = r /\ new[3] = v7[o].gen /\ new \in I!Observers \X I!Reasons \X Nat
  BY <1>2
<1>4. \A p \in I!Observers : v4'[p] = "send" =>
        p # o /\ v4[p] = "send" /\ ~(I!Reason(v7[p].family) = r /\ v7[p].gen = v7[o].gen)
  BY <1>1, NoticeShape DEF I!Sending, I!OwnOpening, I!Opens
<1> HIDE DEF new, r
<1>5. I!Shaped'
  BY <1>1, <1>3, NoticeShape DEF I!Sending, I!Shaped
<1>6. I!ReadIsPresent'
  BY <1>1, NoticeShape DEF I!Sending, I!ReadIsPresent, I!Mine
<1>7. I!OwnOpening'
  <2>1. \A s \in v10' : s[3] <= v1'[s[2]].gen
    BY <1>1, <1>2, <1>3 DEF I!Sending, I!OwnOpening
  <2>2. \A p \in I!Observers : v4'[p] = "send" =>
          /\ v7[p].gen <= I!Mine(p).gen /\ I!Mine(p)' = I!Mine(p)
          /\ \A s \in v10' : ~(s[2] = I!Reason(v7[p].family) /\ s[3] = v7[p].gen)
    BY <1>1, <1>3, <1>4 DEF I!Sending, I!OwnOpening, I!Opens, I!Mine
  <2> QED BY <1>1, <1>4, <2>1, <2>2 DEF I!Sending, I!OwnOpening, I!Opens
<1>8. I!Findable'
  BY <1>1, NoticeShape DEF I!Sending, I!Findable
<1>9. I!SentOnce'
  BY <1>1, <1>2, <1>3 DEF I!Sending, I!SentOnce
<1> QED BY <1>5, <1>6, <1>7, <1>8, <1>9 DEF I!Sending

\* An incident is opened with a generation that was none before.
LEMMA NoticeOpening ==
  ASSUME I!Sending, NEW o \in I!Observers, NEW m, NEW i,
         v4[o] = "reserve", v7[o].act = "raise", v5[o].ver = I!Mine(o).ver,
         v4' = [v4 EXCEPT ![o] = "send"], v5' = [v5 EXCEPT ![o] = I!NoMark], v7' = [v7 EXCEPT ![o] = i],
         v1' = [v1 EXCEPT ![I!Reason(v7[o].family)] = m], v2' = v2, v10' = v10,
         DOMAIN m = DOMAIN I!NoMark, m.ver = v5[o].ver + 1, m.gen = v5[o].gen + 1,
         DOMAIN i = DOMAIN I!NoInc, i.family = v7[o].family, i.gen = v5[o].gen + 1
  PROVE  I!Sending'
<1> DEFINE r == I!Reason(v7[o].family)
<1>1. r \in I!Reasons /\ DOMAIN v1 = I!Reasons /\ I!Mine(o) = v1[r] /\ v1' = [v1 EXCEPT ![r] = m]
  BY NoticeShape
<1>2. v5[o] = v1[r] /\ v1[r].ver \in Nat /\ v1[r].gen \in Nat
  BY <1>1 DEF I!Sending, I!Shaped, I!ReadIsPresent
<1>3. I!Reason(v7[o].family) = r /\ I!Reason(i.family) = r
  OBVIOUS
<1> HIDE DEF r
<1>4. /\ DOMAIN v1' = I!Reasons /\ v1'[r] = m /\ m.ver = v1[r].ver + 1 /\ m.gen = v1[r].gen + 1
      /\ \A q \in I!Reasons : q # r => v1'[q] = v1[q]
      /\ \A q \in I!Reasons : v1[q].gen \in Nat /\ v1[q].ver \in Nat
  BY <1>1, <1>2 DEF I!Sending, I!Shaped
<1>5. /\ DOMAIN v4' = I!Observers /\ DOMAIN v5' = I!Observers /\ DOMAIN v7' = I!Observers
      /\ v4'[o] = "send" /\ v5'[o] = I!NoMark /\ v7'[o] = i /\ i.gen = v1[r].gen + 1
      /\ \A p \in I!Observers : p # o => v4'[p] = v4[p] /\ v5'[p] = v5[p] /\ v7'[p] = v7[p]
  BY <1>2, NoticeShape
<1>6. I!Shaped'
  <2>1. I!NoMark.ver \in Nat /\ I!NoMark.gen \in Nat
    BY DEF I!NoMark
  <2> QED BY <1>2, <1>4, <1>5, <2>1 DEF I!Sending, I!Shaped
<1>7. I!ReadIsPresent'
  <2> SUFFICES ASSUME NEW p \in I!Observers, v4'[p] = "reserve"
               PROVE  /\ v5'[p].ver <= I!Mine(p)'.ver
                      /\ v5'[p].ver = I!Mine(p)'.ver => v5'[p] = I!Mine(p)'
    BY DEF I!ReadIsPresent
  <2>1. p # o /\ v4[p] = "reserve" /\ v5'[p] = v5[p] /\ v7'[p] = v7[p] /\ v5[p].ver \in Nat
    BY <1>5, NoticeShape
  <2>2. v5[p].ver <= I!Mine(p).ver /\ (v5[p].ver = I!Mine(p).ver => v5[p] = I!Mine(p))
    BY <2>1 DEF I!Sending, I!ReadIsPresent
  <2> DEFINE q == I!Reason(v7[p].family)
  <2>3. q \in I!Reasons /\ I!Mine(p) = v1[q] /\ I!Mine(p)' = v1'[q]
    BY <2>1, NoticeShape DEF I!Mine, I!Reason
  <2> HIDE DEF q
  <2> QED BY <1>4, <2>1, <2>2, <2>3
<1>8. I!OwnOpening'
  <2>1. \A s \in v10 : s[2] \in I!Reasons /\ s[3] \in Nat /\ s[3] <= v1[s[2]].gen
    BY DEF I!Sending, I!Shaped, I!OwnOpening
  <2>2. \A p \in I!Observers : p # o /\ v4'[p] = "send" =>
          /\ v4[p] = "send" /\ v7'[p] = v7[p] /\ v7[p].gen \in Nat
          /\ I!Reason(v7[p].family) \in I!Reasons /\ v7[p].gen <= v1[I!Reason(v7[p].family)].gen
    BY <1>5, NoticeShape DEF I!Sending, I!OwnOpening, I!Opens, I!Mine
  <2>3. \A p \in I!Observers : p # o /\ v4'[p] = "send" /\ I!Reason(v7'[p].family) = r => v7'[p].gen # i.gen
    BY <1>4, <1>5, <2>2
  <2>4. \A s \in v10' : s[3] <= v1'[s[2]].gen
    BY <1>4, <2>1
  <2> SUFFICES ASSUME NEW p \in I!Observers, v4'[p] = "send"
               PROVE  /\ v7'[p].gen <= v1'[I!Reason(v7'[p].family)].gen
                      /\ \A s \in v10' : ~(s[2] = I!Reason(v7'[p].family) /\ s[3] = v7'[p].gen)
                      /\ \A q \in I!Observers :
                           v4'[q] = "send" /\ I!Reason(v7'[q].family) = I!Reason(v7'[p].family)
                             /\ v7'[q].gen = v7'[p].gen => q = p
    BY <2>4 DEF I!OwnOpening, I!Opens, I!Mine, I!Reason
  <2>5. CASE p = o
    BY <1>1, <1>3, <1>4, <1>5, <2>1, <2>3, <2>5
  <2>6. CASE p # o
    <3>1. /\ \A s \in v10' : ~(s[2] = I!Reason(v7'[p].family) /\ s[3] = v7'[p].gen)
          /\ \A q \in I!Observers :
               q # o /\ v4'[q] = "send" /\ I!Reason(v7'[q].family) = I!Reason(v7'[p].family)
                 /\ v7'[q].gen = v7'[p].gen => q = p
      BY <2>2, <2>6 DEF I!Sending, I!OwnOpening, I!Opens
    <3>2. v7'[p].gen <= v1'[I!Reason(v7'[p].family)].gen
      BY <1>4, <2>2, <2>6
    <3> QED BY <1>3, <1>5, <2>3, <2>6, <3>1, <3>2
  <2> QED BY <2>5, <2>6
<1>9. I!Findable'
  BY <1>5 DEF I!Sending, I!Findable
<1>10. I!SentOnce'
  <2>1. v7[o].family \in v2
    BY DEF I!Sending, I!Findable
  <2>2. \A q \in I!Reasons : v1'[q].active => \E f \in v2' : I!Reason(f) = q
    BY <1>3, <1>4, <2>1 DEF I!Sending, I!SentOnce
  <2> QED BY <2>2 DEF I!Sending, I!SentOnce, I!Reason
<1> QED BY <1>6, <1>7, <1>8, <1>9, <1>10 DEF I!Sending

LEMMA NoticeReserve ==
  ASSUME I!Sending, NEW o \in I!Observers, I!Reserve(o)
  PROVE  I!Sending'
<1> DEFINE opens == v7[o].act = "raise" /\ ~v5[o].active
           closes == v7[o].act = "recover" /\ (v5[o].active \/ v5[o].ver = 0)
           r == I!Reason(v7[o].family)
<1>1. /\ v4[o] = "reserve" /\ v2' = v2 /\ v10' = v10 /\ v5' = [v5 EXCEPT ![o] = I!NoMark]
  BY DEF I!Reserve
<1>2. /\ DOMAIN v5' = I!Observers /\ v5'[o] = I!NoMark /\ \A q \in I!Observers \ {o} : v5'[q] = v5[q]
      /\ I!NoMark.ver \in Nat /\ I!NoMark.gen \in Nat
  BY <1>1, NoticeShape DEF I!NoMark
<1>3. CASE (opens \/ closes) /\ ~I!Unmoved(o)
  <2>1. v4' = [v4 EXCEPT ![o] = "observe"] /\ v1' = v1 /\ v7' = v7
    BY <1>3 DEF I!Reserve
  <2>2. v4'[o] = "observe" /\ DOMAIN v4' = I!Observers /\ \A q \in I!Observers \ {o} : v4'[q] = v4[q]
    BY <2>1, NoticeShape
  <2>3. v7[o].act = "raise" => v7[o].family \in v2
    BY <1>1 DEF I!Sending, I!Findable
  <2> QED BY <1>1, <1>2, <2>1, <2>2, <2>3, NoticeShape, NoticeNoOpening DEF I!Sending, I!Shaped
<1>4. CASE ~((opens \/ closes) /\ ~I!Unmoved(o))
  <2> DEFINE i == [v7[o] EXCEPT !.gen = IF opens THEN v5[o].gen + 1 ELSE @]
  <2>1. /\ v1' = IF opens \/ closes THEN [v1 EXCEPT ![r] = I!Observed(o)] ELSE v1
        /\ v7' = [v7 EXCEPT ![o] = i]
        /\ v4' = [v4 EXCEPT ![o] = IF opens THEN "send" ELSE "cursor"]
    BY <1>4 DEF I!Reserve
  <2>2. /\ DOMAIN i = DOMAIN I!NoInc /\ i.family = v7[o].family
        /\ i.gen = IF opens THEN v5[o].gen + 1 ELSE v7[o].gen
    <3> HIDE DEF opens
    <3> QED BY NoticeShape DEF I!NoInc
  <2> HIDE DEF i
  <2>3. /\ DOMAIN v4' = I!Observers /\ v4'[o] = IF opens THEN "send" ELSE "cursor"
        /\ DOMAIN v7' = I!Observers /\ v7'[o] = i
        /\ \A q \in I!Observers \ {o} : v4'[q] = v4[q] /\ v7'[q] = v7[q]
    <3> HIDE DEF opens
    <3> QED BY <2>1, NoticeShape
  <2>4. opens \/ closes => v5[o].ver = I!Mine(o).ver /\ v5[o] = v1[r] /\ r \in I!Reasons
    <3>1. opens \/ closes => v5[o].ver = I!Mine(o).ver
      BY <1>4 DEF I!Unmoved
    <3> QED BY <1>1, <3>1, NoticeShape DEF I!Sending, I!ReadIsPresent
  <2>5. CASE opens
    <3> DEFINE m == I!Observed(o)
    <3>1. DOMAIN m = DOMAIN I!NoMark /\ m.ver = v5[o].ver + 1 /\ m.gen = v5[o].gen + 1
      BY <2>5, NoticeShape DEF I!Observed, I!NoMark
    <3>2. v1' = [v1 EXCEPT ![r] = m]
      BY <2>1, <2>5
    <3>3. v4' = [v4 EXCEPT ![o] = "send"] /\ i.gen = v5[o].gen + 1
      BY <2>1, <2>2, <2>5
    <3>4. v7[o].act = "raise" /\ v5[o].ver = I!Mine(o).ver
      BY <2>4, <2>5
    <3>5. v1' = [v1 EXCEPT ![I!Reason(v7[o].family)] = m]
      BY <3>2
    <3> HIDE DEF m, opens, closes, r
    <3> QED BY <1>1, <2>1, <2>2, <3>1, <3>3, <3>4, <3>5, NoticeOpening
  <2>6. CASE ~opens /\ closes
    <3> DEFINE m == I!Observed(o)
    <3>1. DOMAIN m = DOMAIN I!NoMark /\ m.ver = v5[o].ver + 1 /\ m.gen = v5[o].gen /\ m.active = FALSE
      BY <2>6, NoticeShape DEF I!Observed, I!NoMark
    <3>2. v1' = [v1 EXCEPT ![r] = m] /\ DOMAIN v1 = I!Reasons
      BY <2>1, <2>6, NoticeShape
    <3> HIDE DEF m, r
    <3>3. DOMAIN v1' = I!Reasons /\ v1'[r] = m /\ \A q \in I!Reasons : q # r => v1'[q] = v1[q]
      BY <2>4, <2>6, <3>2
    <3>4. \A q \in I!Reasons :
            \/ v1'[q] = v1[q]
            \/ /\ DOMAIN v1'[q] = DOMAIN I!NoMark /\ v1'[q].ver = v1[q].ver + 1 /\ v1'[q].gen = v1[q].gen
               /\ v1'[q].active => v1[q].active
      BY <2>4, <2>6, <3>1, <3>3
    <3>5. v4'[o] = "cursor" /\ i.gen \in Nat /\ i.family \in I!Families
      BY <2>2, <2>3, <2>6, NoticeShape
    <3> QED BY <1>1, <1>2, <2>2, <2>3, <3>3, <3>4, <3>5, NoticeNoOpening DEF I!Sending, I!Shaped
  <2>7. CASE ~opens /\ ~closes
    <3>1. v1' = v1
      BY <2>1, <2>7
    <3>2. v4'[o] = "cursor" /\ i.gen \in Nat /\ i.family \in I!Families
      BY <2>2, <2>3, <2>7, NoticeShape
    <3> QED BY <1>1, <1>2, <2>2, <2>3, <3>1, <3>2, NoticeNoOpening DEF I!Sending, I!Shaped
  <2> QED BY <2>5, <2>6, <2>7
<1> QED BY <1>3, <1>4

LEMMA NoticeSendingInit ==
  ASSUME I!Init
  PROVE  I!Sending
<1>1. PICK open \in {{}, {"candidate", "cycle"}, I!Families} :
         /\ v2 = open
         /\ v1 = [r \in I!Reasons |-> IF \E f \in open : I!Reason(f) = r
                                      THEN [ver |-> 1, active |-> TRUE, at |-> 0, gen |-> 1] ELSE I!NoMark]
  BY DEF I!Init
<1>2. /\ v4 = [o \in I!Observers |-> "classify"] /\ v5 = [o \in I!Observers |-> I!NoMark]
      /\ v7 = [o \in I!Observers |-> I!NoInc] /\ v10 = {}
  BY DEF I!Init
<1>3. \A r \in I!Reasons : v1[r] = I!NoMark \/ v1[r] = [ver |-> 1, active |-> TRUE, at |-> 0, gen |-> 1]
  BY <1>1
<1>4. \A r \in I!Reasons : DOMAIN v1[r] = DOMAIN I!NoMark /\ v1[r].ver \in Nat /\ v1[r].gen \in Nat
  BY <1>3 DEF I!NoMark
<1>5. I!Shaped
  BY <1>1, <1>2, <1>4 DEF I!Shaped, I!NoMark, I!NoInc, I!Families
<1>6. I!SentOnce
  <2>1. \A r \in I!Reasons : v1[r].active => \E f \in v2 : I!Reason(f) = r
    BY <1>1 DEF I!NoMark
  <2> QED BY <1>2, <2>1 DEF I!SentOnce
<1> QED BY <1>2, <1>5, <1>6 DEF I!Sending, I!ReadIsPresent, I!OwnOpening, I!Opens, I!Findable

LEMMA NoticeSendingStep ==
  ASSUME I!Sending, I!Next \/ UNCHANGED vars
  PROVE  I!Sending'
<1>1. CASE I!Next
  <2>1. I!Next
    BY <1>1
  <2> QED BY <2>1, NoticeClassify, NoticePersist, NoticeNextRecovery, NoticeAddReason, NoticeReadMarker,
      NoticeReserve, NoticeCursor, NoticeSend, NoticeRecordDelivery, NoticeIncidentFails DEF I!Next
<1>2. CASE UNCHANGED vars
  <2>1. UNCHANGED <<v1, v2, v4, v5, v7, v10>>
    BY <1>2 DEF vars
  <2> QED BY <2>1 DEF I!Sending, I!Shaped, I!ReadIsPresent, I!OwnOpening, I!Opens, I!Findable, I!SentOnce, I!Mine
<1> QED BY <1>1, <1>2

\* A step of one observer that says nothing false.
LEMMA NoticeSays ==
  ASSUME I!IInv, NEW o \in I!Observers,
         DOMAIN v3' = I!Observers, DOMAIN v6' = I!Observers, DOMAIN v9' = I!Observers,
         \A q \in I!Observers \ {o} :
           v3'[q] = v3[q] /\ v4'[q] = v4[q] /\ v6'[q] = v6[q] /\ v7'[q] = v7[q] /\ v9'[q] = v9[q],
         I!Saying(o)'
  PROVE  I!Telling'
<1>1. ASSUME NEW q \in I!Observers PROVE I!Saying(q)'
  <2>1. CASE q = o
    BY <2>1
  <2>2. CASE q # o
    <3>1. I!Saying(q)
      BY DEF I!IInv, I!Telling
    <3> QED BY <2>2, <3>1 DEF I!Saying, I!Raises, I!Heard
  <2> QED BY <2>1, <2>2
<1> QED BY <1>1 DEF I!Telling

LEMMA NoticeFields ==
  ASSUME I!IInv, NEW o \in I!Observers
  PROVE  /\ DOMAIN v3 = I!Observers /\ DOMAIN v4 = I!Observers /\ DOMAIN v6 = I!Observers
         /\ DOMAIN v7 = I!Observers /\ DOMAIN v9 = I!Observers /\ DOMAIN v7[o] = DOMAIN I!NoInc /\ I!Saying(o)
BY DEF I!IInv, I!Sending, I!Shaped, I!Telling

\* What is told by a kind that is deferred is not urgent.
LEMMA UrgentKind ==
  ASSUME NEW c \in I!Classes, c.urgent
  PROVE  c.kind \notin I!Deferred
<1>1. PICK orders \in BOOLEAN, e \in SUBSET I!Evidence :
        c = [kind |-> I!Kind(orders, e), urgent |-> e \ {"pending"} # {}]
  BY DEF I!Classes
<1>2. c.kind = I!Kind(orders, e)
  BY <1>1
<1>3. c.urgent = (e \ {"pending"} # {})
  BY <1>1
<1>4. e \ {"pending"} # {}
  BY <1>3, Zenon
<1> QED BY <1>1, <1>2, <1>4 DEF I!Kind, I!Evidence, I!Deferred

LEMMA SaysClassify ==
  ASSUME I!IInv, NEW o \in I!Observers, I!Classify(o)
  PROVE  I!Telling'
<1>1. PICK src \in {"cycle", "monitor"}, at \in 1..o, known \in BOOLEAN, c \in I!Classes :
        /\ v3' = [v3 EXCEPT ![o] = [src |-> src, at |-> at, kind |-> c.kind, urgent |-> c.urgent]]
        /\ v4' = [v4 EXCEPT ![o] = IF known THEN "persist" ELSE "over"]
        /\ v9' = IF known THEN v9 ELSE [v9 EXCEPT ![o] =
             IF src = "cycle" THEN {IF c.kind \in I!Deferred THEN "coverage" ELSE "marked"}
             ELSE IF c.kind \in I!Deferred THEN {"error"} ELSE {}]
  BY DEF I!Classify
<1>2. v6' = v6 /\ v7' = v7 /\ v4[o] = "classify"
  BY DEF I!Classify
<1>3. v3'[o].src = src /\ v3'[o].kind = c.kind /\ (v3'[o].urgent => c.urgent)
  BY <1>1, NoticeFields
<1>4. v3'[o].urgent => v3'[o].kind \notin I!Deferred
  BY <1>3, UrgentKind
<1>5. ~I!Raises(o)' /\ v4'[o] \in {"persist", "over"}
  BY <1>1, <1>2, NoticeFields DEF I!Saying, I!Raises
<1>6. v4'[o] = "over" /\ v3'[o].src = "cycle" => I!Heard(o)'
  BY <1>1, <1>3, NoticeFields DEF I!Heard
<1>7. I!Saying(o)'
  BY <1>4, <1>5, <1>6 DEF I!Saying
<1> QED BY <1>1, <1>2, <1>7, NoticeFields, NoticeSays

LEMMA SaysPersist ==
  ASSUME I!IInv, NEW o \in I!Observers, I!Persist(o)
  PROVE  I!Telling'
<1> DEFINE cycle == v3[o].src = "cycle"
           deferred == v3[o].kind \in I!Deferred
<1>1. PICK stored \in BOOLEAN :
        /\ v6' = [v6 EXCEPT ![o] = stored]
        /\ \/ /\ deferred /\ stored /\ v4' = [v4 EXCEPT ![o] = "next"] /\ v7' = v7 /\ v9' = v9
           \/ /\ deferred /\ ~stored /\ ~cycle /\ v4' = [v4 EXCEPT ![o] = "over"]
              /\ v9' = [v9 EXCEPT ![o] = @ \cup {"error"}] /\ v7' = v7
           \/ /\ ~deferred \/ (cycle /\ ~stored)
              /\ v7' = [v7 EXCEPT ![o] = [family |-> IF deferred THEN "candidate" ELSE I!Own(o), act |-> "raise", gen |-> 0]]
              /\ v4' = [v4 EXCEPT ![o] = "index"] /\ v9' = v9
  BY DEF I!Persist
<1>2. v3' = v3 /\ v4[o] = "persist"
  BY DEF I!Persist
<1>3. v6'[o] = stored
  BY <1>1, NoticeFields
<1>4. v3[o].urgent => v3[o].kind \notin I!Deferred
  BY <1>2, NoticeFields DEF I!Saying
<1>5. CASE deferred /\ stored /\ v4' = [v4 EXCEPT ![o] = "next"] /\ v7' = v7 /\ v9' = v9
  <2>1. I!Heard(o)' /\ v4'[o] = "next"
    BY <1>2, <1>3, <1>5, NoticeFields DEF I!Heard
  <2>2. I!Saying(o)'
    BY <1>2, <1>4, <1>5, <2>1, NoticeFields DEF I!Saying, I!Raises
  <2> QED BY <1>1, <1>2, <1>5, <2>2, NoticeFields, NoticeSays
<1>6. CASE /\ deferred /\ ~stored /\ ~cycle /\ v4' = [v4 EXCEPT ![o] = "over"]
           /\ v9' = [v9 EXCEPT ![o] = @ \cup {"error"}] /\ v7' = v7
  <2>1. v4'[o] = "over"
    BY <1>6, NoticeFields
  <2>2. I!Saying(o)'
    BY <1>2, <1>4, <1>6, <2>1, NoticeFields DEF I!Saying, I!Raises
  <2> QED BY <1>1, <1>2, <1>6, <2>2, NoticeFields, NoticeSays
<1>7. CASE /\ v7' = [v7 EXCEPT ![o] = [family |-> IF deferred THEN "candidate" ELSE I!Own(o), act |-> "raise", gen |-> 0]]
           /\ v4' = [v4 EXCEPT ![o] = "index"] /\ v9' = v9
  <2>1. v4'[o] = "index" /\ v7'[o].act = "raise" /\ (deferred => v7'[o].family = "candidate")
    BY <1>7, NoticeFields
  <2>2. I!Saying(o)'
    BY <1>2, <1>4, <2>1 DEF I!Saying, I!Raises
  <2> QED BY <1>1, <1>2, <1>7, <2>2, NoticeFields, NoticeSays
<1> QED BY <1>1, <1>5, <1>6, <1>7

\* An observer that goes on: what it said stays said.
LEMMA SaysOn ==
  ASSUME I!IInv, NEW o \in I!Observers, NEW p, v4' = [v4 EXCEPT ![o] = p], v3' = v3, v6' = v6,
         v7' = v7 \/ \E i : v7' = [v7 EXCEPT ![o] = i],
         v9' = v9 \/ \E s : v9' = [v9 EXCEPT ![o] = s],
         v4[o] # "classify", p # "classify", p \in {"index", "send", "record"} => v7'[o].act = "raise",
         v7'[o].act = "raise" => v7[o].act = "raise" /\ v7'[o].family = v7[o].family,
         v3[o].src = "cycle" =>
           \/ p \in {"index", "send", "persist"}
           \/ p \in {"observe", "reserve"} /\ v7'[o].act = "raise"
           \/ /\ v3[o].kind \notin I!Deferred => v9'[o] # {}
              /\ v3[o].kind \in I!Deferred => v6[o] \/ v9'[o] \cap {"duplicate", "coverage"} # {}
  PROVE  I!Telling'
<1>1. v4'[o] = p
  BY NoticeFields
<1>2. I!Saying(o)'
  BY <1>1, NoticeFields DEF I!Saying, I!Raises, I!Heard
<1> QED BY <1>2, NoticeFields, NoticeSays

LEMMA SaysNextRecovery ==
  ASSUME I!IInv, NEW o \in I!Observers, I!NextRecovery(o)
  PROVE  I!Telling'
<1>1. v3' = v3 /\ v6' = v6 /\ v9' = v9 /\ v4[o] = "next"
  BY DEF I!NextRecovery
<1>2. PICK p \in {"over", "observe", "next"}, f \in I!Families, a \in {"none", "recover"} :
         /\ v4' = [v4 EXCEPT ![o] = p]
         /\ v7' = [v7 EXCEPT ![o] = [family |-> f, act |-> a, gen |-> 0]]
  BY DEF I!NextRecovery, I!markers, I!Own, I!Families, I!NoInc
<1>3. v7'[o].act # "raise"
  BY <1>2, NoticeFields
<1>4. v3[o].src = "cycle" => I!Heard(o)
  BY <1>1, NoticeFields DEF I!Saying
<1> QED BY <1>1, <1>2, <1>3, <1>4, SaysOn DEF I!Heard

LEMMA SaysAddReason ==
  ASSUME I!IInv, NEW o \in I!Observers, I!AddReason(o)
  PROVE  I!Telling'
<1>1. v3' = v3 /\ v6' = v6 /\ v7' = v7 /\ v9' = v9 /\ v4[o] = "index" /\ v4' = [v4 EXCEPT ![o] = "observe"]
  BY DEF I!AddReason
<1>2. v7[o].act = "raise"
  BY <1>1, NoticeFields DEF I!Saying, I!Raises
<1> QED BY <1>1, <1>2, SaysOn

LEMMA SaysReadMarker ==
  ASSUME I!IInv, NEW o \in I!Observers, I!ReadMarker(o)
  PROVE  I!Telling'
<1>1. v3' = v3 /\ v6' = v6 /\ v7' = v7 /\ v9' = v9 /\ v4[o] = "observe" /\ v4' = [v4 EXCEPT ![o] = "reserve"]
  BY DEF I!ReadMarker
<1>2. v3[o].src = "cycle" => v7[o].act = "raise" \/ I!Heard(o)
  BY <1>1, NoticeFields DEF I!Saying, I!Raises
<1> QED BY <1>1, <1>2, SaysOn DEF I!Heard

LEMMA SaysReserve ==
  ASSUME I!IInv, NEW o \in I!Observers, I!Reserve(o)
  PROVE  I!Telling'
<1> DEFINE opens == v7[o].act = "raise" /\ ~v5[o].active
           closes == v7[o].act = "recover" /\ (v5[o].active \/ v5[o].ver = 0)
<1>1. v3' = v3 /\ v6' = v6 /\ v4[o] = "reserve"
  BY DEF I!Reserve
<1>2. v3[o].src = "cycle" => v7[o].act = "raise" \/ I!Heard(o)
  BY <1>1, NoticeFields DEF I!Saying, I!Raises
<1>3. CASE (opens \/ closes) /\ ~I!Unmoved(o)
  <2>1. v4' = [v4 EXCEPT ![o] = "observe"] /\ v7' = v7 /\ v9' = v9
    BY <1>3 DEF I!Reserve
  <2> QED BY <1>1, <1>2, <2>1, SaysOn DEF I!Heard
<1>4. CASE ~((opens \/ closes) /\ ~I!Unmoved(o))
  <2> DEFINE g == IF opens THEN v5[o].gen + 1 ELSE v7[o].gen
             i == [v7[o] EXCEPT !.gen = g]
  <2>1. /\ v7' = [v7 EXCEPT ![o] = i]
        /\ v9' = IF v7[o].act = "raise" /\ ~opens THEN [v9 EXCEPT ![o] = @ \cup {"duplicate"}] ELSE v9
        /\ v4' = [v4 EXCEPT ![o] = IF opens THEN "send" ELSE "cursor"]
    BY <1>4, NoticeFields DEF I!Reserve
  <2>2. i.act = v7[o].act /\ i.family = v7[o].family
    <3> HIDE DEF g
    <3> QED BY NoticeFields DEF I!NoInc
  <2>3. v7'[o].act = v7[o].act /\ v7'[o].family = v7[o].family
    <3> HIDE DEF i
    <3> QED BY <2>1, <2>2, NoticeFields
  <2> HIDE DEF i
  <2>4. CASE opens
    <3>1. v4' = [v4 EXCEPT ![o] = "send"] /\ v9' = v9 /\ v7[o].act = "raise"
      BY <2>1, <2>4
    <3> QED BY <1>1, <2>1, <2>3, <3>1, SaysOn
  <2>5. CASE ~opens /\ v7[o].act = "raise"
    <3>1. v4' = [v4 EXCEPT ![o] = "cursor"] /\ v9' = [v9 EXCEPT ![o] = v9[o] \cup {"duplicate"}]
      BY <2>1, <2>5
    <3>2. "duplicate" \in v9'[o]
      BY <3>1, NoticeFields
    <3>3. v9'[o] # {} /\ v9'[o] \cap {"duplicate", "coverage"} # {}
      BY <3>2
    <3> QED BY <1>1, <2>1, <2>3, <3>1, <3>3, SaysOn
  <2>6. CASE ~opens /\ v7[o].act # "raise"
    <3>1. v4' = [v4 EXCEPT ![o] = "cursor"] /\ v9' = v9
      BY <2>1, <2>6
    <3> QED BY <1>1, <1>2, <2>1, <2>3, <2>6, <3>1, SaysOn DEF I!Heard
  <2> QED BY <2>4, <2>5, <2>6
<1> QED BY <1>3, <1>4

LEMMA SaysCursor ==
  ASSUME I!IInv, NEW o \in I!Observers, I!Cursor(o) \/ I!RecordDelivery(o)
  PROVE  I!Telling'
<1>1. /\ v3' = v3 /\ v6' = v6 /\ v7' = v7 /\ v9' = v9 /\ v4[o] \in {"cursor", "record"}
      /\ v4' = [v4 EXCEPT ![o] = "next"]
  BY DEF I!Cursor, I!RecordDelivery
<1>2. v3[o].src = "cycle" => I!Heard(o)
  BY <1>1, NoticeFields DEF I!Saying
<1> QED BY <1>1, <1>2, SaysOn DEF I!Heard

LEMMA SaysSend ==
  ASSUME I!IInv, NEW o \in I!Observers, I!Send(o)
  PROVE  I!Telling'
<1>1. /\ v3' = v3 /\ v6' = v6 /\ v7' = v7 /\ v4[o] = "send" /\ v4' = [v4 EXCEPT ![o] = "record"]
      /\ v9' = [v9 EXCEPT ![o] = v9[o] \cup {I!What(o)}]
  BY DEF I!Send
<1>2. v7[o].act = "raise" /\ (v3[o].kind \in I!Deferred => I!What(o) = "coverage")
  BY <1>1, NoticeFields DEF I!Saying, I!Raises, I!What
<1>3. I!What(o) \in v9'[o]
  BY <1>1, NoticeFields
<1>4. v9'[o] # {} /\ (v3[o].kind \in I!Deferred => v9'[o] \cap {"duplicate", "coverage"} # {})
  BY <1>2, <1>3
<1> QED BY <1>1, <1>2, <1>4, SaysOn

LEMMA SaysIncidentFails ==
  ASSUME I!IInv, NEW o \in I!Observers, I!IncidentFails(o)
  PROVE  I!Telling'
<1>1. /\ v3' = v3 /\ v6' = v6 /\ v7' = v7 /\ v4[o] \in {"index", "observe", "reserve", "cursor", "record"}
  BY DEF I!IncidentFails
<1>2. v3[o].src = "cycle" => I!Heard(o) \/ (v7[o].act = "raise" /\ (v3[o].kind \in I!Deferred => v7[o].family = "candidate"))
  BY <1>1, NoticeFields DEF I!Saying, I!Raises
<1>3. CASE v7[o].act = "recover"
  <2>1. v4' = [v4 EXCEPT ![o] = "next"] /\ v9' = v9
    BY <1>3 DEF I!IncidentFails
  <2> QED BY <1>1, <1>2, <1>3, <2>1, SaysOn DEF I!Heard
<1>4. CASE v7[o].act # "recover" /\ v3[o].src # "cycle"
  <2>1. v4' = [v4 EXCEPT ![o] = "over"] /\ v9' = v9
    BY <1>4 DEF I!IncidentFails
  <2> QED BY <1>1, <1>4, <2>1, SaysOn
<1>5. CASE v7[o].act # "recover" /\ v3[o].src = "cycle"
  <2> DEFINE w == IF I!What(o) = "alert" THEN "marked" ELSE "coverage"
  <2>1. v4' = [v4 EXCEPT ![o] = "over"] /\ v9' = [v9 EXCEPT ![o] = v9[o] \cup {w}]
    BY <1>5 DEF I!IncidentFails
  <2>2. v9'[o] = v9[o] \cup {w}
    BY <2>1, NoticeFields
  <2>3. v7[o].family = "candidate" => w = "coverage"
    BY DEF I!What
  <2> HIDE DEF w
  <2>4. /\ v9'[o] # {}
        /\ v3[o].kind \in I!Deferred => v6[o] \/ v9'[o] \cap {"duplicate", "coverage"} # {}
    <3>1. CASE I!Heard(o)
      BY <2>2, <3>1 DEF I!Heard
    <3>2. CASE v3[o].kind \in I!Deferred => v7[o].family = "candidate"
      BY <2>2, <2>3, <3>2
    <3> QED BY <1>2, <1>5, <3>1, <3>2
  <2> QED BY <1>1, <2>1, <2>4, SaysOn
<1> QED BY <1>3, <1>4, <1>5

LEMMA NoticeInit ==
  ASSUME I!Init
  PROVE  I!IInv
<1>1. I!Sending
  BY NoticeSendingInit
<1>2. /\ v3 = [o \in I!Observers |-> [src |-> "cycle", at |-> 1, urgent |-> FALSE, kind |-> "none"]]
      /\ v4 = [o \in I!Observers |-> "classify"] /\ v6 = [o \in I!Observers |-> FALSE]
      /\ v7 = [o \in I!Observers |-> I!NoInc] /\ v9 = [o \in I!Observers |-> {}] /\ I!NoInc.act = "none"
  BY DEF I!Init, I!NoInc
<1>3. I!Telling
  BY <1>2 DEF I!Telling, I!Saying, I!Raises
<1> QED BY <1>1, <1>3 DEF I!IInv

LEMMA NoticeStep ==
  ASSUME I!IInv, I!Next \/ UNCHANGED vars
  PROVE  I!IInv'
<1>1. I!Sending'
  BY NoticeSendingStep DEF I!IInv
<1>2. CASE I!Next
  <2>1. I!Next
    BY <1>2
  <2> QED BY <1>1, <2>1, SaysClassify, SaysPersist, SaysNextRecovery, SaysAddReason, SaysReadMarker,
      SaysReserve, SaysCursor, SaysSend, SaysIncidentFails DEF I!Next, I!IInv
<1>3. CASE UNCHANGED vars
  <2>1. v3' = v3 /\ v4' = v4 /\ v6' = v6 /\ v7' = v7 /\ v9' = v9
    BY <1>3 DEF vars
  <2>2. I!Telling'
    BY <2>1 DEF I!IInv, I!Telling, I!Saying, I!Raises, I!Heard
  <2> QED BY <1>1, <2>2 DEF I!IInv
<1> QED BY <1>2, <1>3

LEMMA NoticeHolds ==
  ASSUME I!IInv
  PROVE  I!SentOnce /\ I!NoSilence
<1>1. I!SentOnce
  BY DEF I!IInv, I!Sending
<1>2. I!NoSilence
  BY DEF I!IInv, I!Telling, I!Saying, I!Heard, I!NoSilence
<1> QED BY <1>1, <1>2

----------------------------------------------------------------------------
(* The requests of a worker.                                               *)

LEMMA WorkerNextWindow ==
  ASSUME Q!Serving, Q!NextWindow
  PROVE  Q!Serving'
BY TimesType DEF Q!Serving, Q!Shaped, Q!Fresh, Q!Kinds, Q!AlarmIsItsOwn, Q!ProbedOnce, Q!OnItsWay, Q!Claimed, Q!Holding, Q!Accounted, Q!Owed,
     Q!Strategy, Q!outside, Q!NoReq, Q!NextWindow, Q!Begin

LEMMA WorkerCollect ==
  ASSUME Q!Serving, Q!Collect
  PROVE  Q!Serving'
BY TimesType DEF Q!Serving, Q!Shaped, Q!Fresh, Q!Kinds, Q!AlarmIsItsOwn, Q!ProbedOnce, Q!OnItsWay, Q!Claimed, Q!Holding, Q!Accounted, Q!Owed,
     Q!Strategy, Q!outside, Q!NoReq, Q!Collect, Q!Replaced

LEMMA WorkerBuildReport ==
  ASSUME Q!Serving, Q!BuildReport
  PROVE  Q!Serving'
<1>1. CASE v4' = [v4 EXCEPT !.report = "open"] /\ v5' = IF Q!Strategy THEN "plugins" ELSE "connect"
  BY <1>1, TimesType DEF Q!Serving, Q!Shaped, Q!Fresh, Q!Kinds, Q!AlarmIsItsOwn, Q!ProbedOnce, Q!OnItsWay, Q!Claimed, Q!Holding, Q!Accounted, Q!Owed,
     Q!Strategy, Q!outside, Q!NoReq, Q!BuildReport
<1>2. CASE v4' = [v4 EXCEPT !.code = 500, !.told = v4.kind # "reconcile"] /\ v5' = IF v4.kind = "dry" THEN "leave" ELSE "answer"
  BY <1>2, TimesType DEF Q!Serving, Q!Shaped, Q!Fresh, Q!Kinds, Q!AlarmIsItsOwn, Q!ProbedOnce, Q!OnItsWay, Q!Claimed, Q!Holding, Q!Accounted, Q!Owed,
     Q!Strategy, Q!outside, Q!NoReq, Q!BuildReport
<1> QED BY <1>1, <1>2 DEF Q!BuildReport

LEMMA WorkerAcquire ==
  ASSUME Q!Serving, Q!Acquire
  PROVE  Q!Serving'
<1>1. CASE v2' = v2 /\ v5' = "finally" /\ v4' = [v4 EXCEPT !.report = "skipped", !.code = 200]
  BY <1>1, TimesType DEF Q!Serving, Q!Shaped, Q!Fresh, Q!Kinds, Q!AlarmIsItsOwn, Q!ProbedOnce, Q!OnItsWay, Q!Claimed, Q!Holding, Q!Accounted, Q!Owed,
     Q!Strategy, Q!outside, Q!NoReq, Q!Acquire
<1>2. CASE ~v2.lock /\ v2' = [v2 EXCEPT !.lock = TRUE] /\ v5' = "acquired" /\ v4' = v4
  BY <1>2, TimesType DEF Q!Serving, Q!Shaped, Q!Fresh, Q!Kinds, Q!AlarmIsItsOwn, Q!ProbedOnce, Q!OnItsWay, Q!Claimed, Q!Holding, Q!Accounted, Q!Owed,
     Q!Strategy, Q!outside, Q!NoReq, Q!Acquire
<1> QED BY <1>1, <1>2 DEF Q!Acquire

LEMMA WorkerAssign ==
  ASSUME Q!Serving, Q!Assign
  PROVE  Q!Serving'
BY TimesType DEF Q!Serving, Q!Shaped, Q!Fresh, Q!Kinds, Q!AlarmIsItsOwn, Q!ProbedOnce, Q!OnItsWay, Q!Claimed, Q!Holding, Q!Accounted, Q!Owed,
     Q!Strategy, Q!outside, Q!NoReq, Q!Assign

LEMMA WorkerAdmit ==
  ASSUME Q!Serving, Q!Admit
  PROVE  Q!Serving'
<1>1. CASE v5' = "connect" /\ v4' = v4
  BY <1>1, TimesType DEF Q!Serving, Q!Shaped, Q!Fresh, Q!Kinds, Q!AlarmIsItsOwn, Q!ProbedOnce, Q!OnItsWay, Q!Claimed, Q!Holding, Q!Accounted, Q!Owed,
     Q!Strategy, Q!outside, Q!NoReq, Q!Admit
<1>2. CASE v5' = "finally" /\ v4' = [v4 EXCEPT !.report = "skipped", !.code = 200]
  BY <1>2, TimesType DEF Q!Serving, Q!Shaped, Q!Fresh, Q!Kinds, Q!AlarmIsItsOwn, Q!ProbedOnce, Q!OnItsWay, Q!Claimed, Q!Holding, Q!Accounted, Q!Owed,
     Q!Strategy, Q!outside, Q!NoReq, Q!Admit
<1> QED BY <1>1, <1>2 DEF Q!Admit

LEMMA WorkerClaim ==
  ASSUME Q!Serving, Q!Claim
  PROVE  Q!Serving'
<1>1. CASE Q!Unclaimed /\ v6' = TRUE /\ v5' = "connect" /\ v4' = v4
  BY <1>1, TimesType DEF Q!Serving, Q!Shaped, Q!Fresh, Q!Kinds, Q!AlarmIsItsOwn, Q!ProbedOnce, Q!OnItsWay, Q!Claimed, Q!Holding, Q!Accounted, Q!Owed,
     Q!Strategy, Q!outside, Q!NoReq, Q!Claim, Q!Unclaimed
<1>2. CASE v6' = TRUE /\ v4' = [v4 EXCEPT !.code = 409] /\ v5' = "answer"
  BY <1>2, TimesType DEF Q!Serving, Q!Shaped, Q!Fresh, Q!Kinds, Q!AlarmIsItsOwn, Q!ProbedOnce, Q!OnItsWay, Q!Claimed, Q!Holding, Q!Accounted, Q!Owed,
     Q!Strategy, Q!outside, Q!NoReq, Q!Claim
<1>3. CASE v6' = TRUE /\ v4' = [v4 EXCEPT !.code = 503] /\ v5' = "answer"
  BY <1>3, TimesType DEF Q!Serving, Q!Shaped, Q!Fresh, Q!Kinds, Q!AlarmIsItsOwn, Q!ProbedOnce, Q!OnItsWay, Q!Claimed, Q!Holding, Q!Accounted, Q!Owed,
     Q!Strategy, Q!outside, Q!NoReq, Q!Claim
<1>4. CASE v6' = v6 /\ v4' = [v4 EXCEPT !.code = 503] /\ v5' = "answer"
  BY <1>4, TimesType DEF Q!Serving, Q!Shaped, Q!Fresh, Q!Kinds, Q!AlarmIsItsOwn, Q!ProbedOnce, Q!OnItsWay, Q!Claimed, Q!Holding, Q!Accounted, Q!Owed,
     Q!Strategy, Q!outside, Q!NoReq, Q!Claim
<1>5. v6 \in BOOLEAN
  BY DEF Q!Serving, Q!Shaped
<1>6. CASE v6' \in {v6, TRUE} /\ v4' = [v4 EXCEPT !.code = IF v6 THEN 409 ELSE 503] /\ v5' = "answer"
  <2>1. CASE v6 = TRUE
    BY <1>2, <1>6, <2>1
  <2>2. CASE v6 = FALSE
    <3>1. v6' = v6 \/ v6' = TRUE
      BY <1>6, <2>2
    <3>2. v4' = [v4 EXCEPT !.code = 503]
      BY <1>6, <2>2
    <3> QED BY <1>3, <1>4, <1>6, <2>2, <3>1, <3>2
  <2> QED BY <1>5, <2>1, <2>2
<1> QED BY <1>1, <1>6 DEF Q!Claim

LEMMA WorkerConnect ==
  ASSUME Q!Serving, Q!Connect
  PROVE  Q!Serving'
BY TimesType DEF Q!Serving, Q!Shaped, Q!Fresh, Q!Kinds, Q!AlarmIsItsOwn, Q!ProbedOnce, Q!OnItsWay, Q!Claimed, Q!Holding, Q!Accounted, Q!Owed,
     Q!Strategy, Q!outside, Q!NoReq, Q!Connect

LEMMA WorkerValidate ==
  ASSUME Q!Serving, Q!Validate
  PROVE  Q!Serving'
<1>1. CASE v5' = "use" /\ v4' = v4
  BY <1>1, TimesType DEF Q!Serving, Q!Shaped, Q!Fresh, Q!Kinds, Q!AlarmIsItsOwn, Q!ProbedOnce, Q!OnItsWay, Q!Claimed, Q!Holding, Q!Accounted, Q!Owed,
     Q!Strategy, Q!outside, Q!NoReq, Q!Validate, Q!Failed, Q!Tail
<1>2. CASE v5' = Q!Tail /\ v4' = Q!Failed(IF v4.kind = "permission" THEN 503 ELSE 500)
  BY <1>2, TimesType DEF Q!Serving, Q!Shaped, Q!Fresh, Q!Kinds, Q!AlarmIsItsOwn, Q!ProbedOnce, Q!OnItsWay, Q!Claimed, Q!Holding, Q!Accounted, Q!Owed,
     Q!Strategy, Q!outside, Q!NoReq, Q!Validate, Q!Failed, Q!Tail
<1> QED BY <1>1, <1>2 DEF Q!Validate

LEMMA WorkerUse ==
  ASSUME Q!Serving, Q!Use
  PROVE  Q!Serving'
<1>1. CASE v4' = [v4 EXCEPT !.open = FALSE, !.report = IF @ = "none" THEN @ ELSE "ok", !.code = 200]
  BY <1>1, TimesType DEF Q!Serving, Q!Shaped, Q!Fresh, Q!Kinds, Q!AlarmIsItsOwn, Q!ProbedOnce, Q!OnItsWay, Q!Claimed, Q!Holding, Q!Accounted, Q!Owed,
     Q!Strategy, Q!outside, Q!NoReq, Q!Use, Q!Failed, Q!Tail
<1>2. CASE Q!Strategy /\ v4' = [v4 EXCEPT !.open = FALSE, !.report = "error", !.code = 200]
  BY <1>2, TimesType DEF Q!Serving, Q!Shaped, Q!Fresh, Q!Kinds, Q!AlarmIsItsOwn, Q!ProbedOnce, Q!OnItsWay, Q!Claimed, Q!Holding, Q!Accounted, Q!Owed,
     Q!Strategy, Q!outside, Q!NoReq, Q!Use, Q!Failed, Q!Tail
<1>3. ASSUME NEW code \in {500, 503}, v4' = Q!Failed(code)
      PROVE  Q!Serving'
  BY <1>3, TimesType DEF Q!Serving, Q!Shaped, Q!Fresh, Q!Kinds, Q!AlarmIsItsOwn, Q!ProbedOnce, Q!OnItsWay, Q!Claimed, Q!Holding, Q!Accounted, Q!Owed,
     Q!Strategy, Q!outside, Q!NoReq, Q!Use, Q!Failed, Q!Tail
<1> QED BY <1>1, <1>2, <1>3 DEF Q!Use

LEMMA WorkerRelease ==
  ASSUME Q!Serving, Q!Release
  PROVE  Q!Serving'
BY TimesType DEF Q!Serving, Q!Shaped, Q!Fresh, Q!Kinds, Q!AlarmIsItsOwn, Q!ProbedOnce, Q!OnItsWay, Q!Claimed, Q!Holding, Q!Accounted, Q!Owed,
     Q!Strategy, Q!outside, Q!NoReq, Q!Release

LEMMA WorkerPersist ==
  ASSUME Q!Serving, Q!Persist
  PROVE  Q!Serving'
BY TimesType DEF Q!Serving, Q!Shaped, Q!Fresh, Q!Kinds, Q!AlarmIsItsOwn, Q!ProbedOnce, Q!OnItsWay, Q!Claimed, Q!Holding, Q!Accounted, Q!Owed,
     Q!Strategy, Q!outside, Q!NoReq, Q!Persist

LEMMA WorkerLeave ==
  ASSUME Q!Serving, Q!Leave
  PROVE  Q!Serving'
BY TimesType DEF Q!Serving, Q!Shaped, Q!Fresh, Q!Kinds, Q!AlarmIsItsOwn, Q!ProbedOnce, Q!OnItsWay, Q!Claimed, Q!Holding, Q!Accounted, Q!Owed,
     Q!Strategy, Q!outside, Q!NoReq, Q!Leave, Q!Registered, Q!Disarmed

LEMMA WorkerGrace ==
  ASSUME Q!Serving, Q!Grace
  PROVE  Q!Serving'
BY TimesType DEF Q!Serving, Q!Shaped, Q!Fresh, Q!Kinds, Q!AlarmIsItsOwn, Q!ProbedOnce, Q!OnItsWay, Q!Claimed, Q!Holding, Q!Accounted, Q!Owed,
     Q!Strategy, Q!outside, Q!NoReq, Q!Grace, Q!Disarmed

LEMMA WorkerRecycle ==
  ASSUME Q!Serving, Q!Recycle
  PROVE  Q!Serving'
BY TimesType DEF Q!Serving, Q!Shaped, Q!Fresh, Q!Kinds, Q!AlarmIsItsOwn, Q!ProbedOnce, Q!OnItsWay, Q!Claimed, Q!Holding, Q!Accounted, Q!Owed,
     Q!Strategy, Q!outside, Q!NoReq, Q!Recycle, Q!Scheduled, Q!Replaced

LEMMA WorkerAnswer ==
  ASSUME Q!Serving, Q!Answer
  PROVE  Q!Serving'
BY TimesType DEF Q!Serving, Q!Shaped, Q!Fresh, Q!Kinds, Q!AlarmIsItsOwn, Q!ProbedOnce, Q!OnItsWay, Q!Claimed, Q!Holding, Q!Accounted, Q!Owed,
     Q!Strategy, Q!outside, Q!NoReq, Q!Answer

LEMMA WorkerReplace ==
  ASSUME Q!Serving, Q!Replace
  PROVE  Q!Serving'
BY TimesType DEF Q!Serving, Q!Shaped, Q!Fresh, Q!Kinds, Q!AlarmIsItsOwn, Q!ProbedOnce, Q!OnItsWay, Q!Claimed, Q!Holding, Q!Accounted, Q!Owed,
     Q!Strategy, Q!outside, Q!NoReq, Q!Replace, Q!Start, Q!Fresh

LEMMA WorkerReceive ==
  ASSUME Q!Serving, Q!Receive
  PROVE  Q!Serving'
<1>1. ASSUME NEW k \in Q!Kinds, Q!Begin(k, FALSE)
      PROVE  Q!Serving'
  BY <1>1, TimesType DEF Q!Serving, Q!Shaped, Q!Fresh, Q!Kinds, Q!AlarmIsItsOwn, Q!ProbedOnce, Q!OnItsWay, Q!Claimed, Q!Holding, Q!Accounted, Q!Owed,
     Q!Strategy, Q!outside, Q!NoReq, Q!Receive, Q!Begin
<1>2. ASSUME NEW due \in SUBSET {"probe", "dry"}, v4' = [Q!NoReq EXCEPT !.windows = due] /\ v5' = "next" /\ UNCHANGED <<v1, v6, v7, v2, v3>>
      PROVE  Q!Serving'
  BY <1>2, TimesType DEF Q!Serving, Q!Shaped, Q!Fresh, Q!Kinds, Q!AlarmIsItsOwn, Q!ProbedOnce, Q!OnItsWay, Q!Claimed, Q!Holding, Q!Accounted, Q!Owed,
     Q!Strategy, Q!outside, Q!NoReq, Q!Receive, Q!Begin
<1> QED BY <1>1, <1>2 DEF Q!Receive, Q!outside

LEMMA WorkerConnectFails ==
  ASSUME Q!Serving, Q!ConnectFails
  PROVE  Q!Serving'
<1>1. CASE v5' = "connect" /\ v4' = [v4 EXCEPT !.open = FALSE, !.tries = IF v5 = "connect" THEN @ - 1 ELSE @] /\ (v5 = "connect" => v4.tries > 1) /\ (v5 = "validate" => v4.tries > 0)
  BY <1>1, TimesType DEF Q!Serving, Q!Shaped, Q!Fresh, Q!Kinds, Q!AlarmIsItsOwn, Q!ProbedOnce, Q!OnItsWay, Q!Claimed, Q!Holding, Q!Accounted, Q!Owed,
     Q!Strategy, Q!outside, Q!NoReq, Q!ConnectFails, Q!Failed, Q!Tail
<1>2. CASE v5' = Q!Tail /\ v4' = Q!Failed(IF v4.kind = "probe" THEN 500 ELSE 503)
  BY <1>2, TimesType DEF Q!Serving, Q!Shaped, Q!Fresh, Q!Kinds, Q!AlarmIsItsOwn, Q!ProbedOnce, Q!OnItsWay, Q!Claimed, Q!Holding, Q!Accounted, Q!Owed,
     Q!Strategy, Q!outside, Q!NoReq, Q!ConnectFails, Q!Failed, Q!Tail
<1> QED BY <1>1, <1>2 DEF Q!ConnectFails, Q!Serving, Q!Shaped

LEMMA WorkerInterrupt ==
  ASSUME Q!Serving, Q!Interrupt
  PROVE  Q!Serving'
BY TimesType DEF Q!Serving, Q!Shaped, Q!Fresh, Q!Kinds, Q!AlarmIsItsOwn, Q!ProbedOnce, Q!OnItsWay, Q!Claimed, Q!Holding, Q!Accounted, Q!Owed,
     Q!Strategy, Q!outside, Q!NoReq, Q!Interrupt

LEMMA WorkerSwallowed ==
  ASSUME Q!Serving, Q!Swallowed
  PROVE  Q!Serving'
BY TimesType DEF Q!Serving, Q!Shaped, Q!Fresh, Q!Kinds, Q!AlarmIsItsOwn, Q!ProbedOnce, Q!OnItsWay, Q!Claimed, Q!Holding, Q!Accounted, Q!Owed,
     Q!Strategy, Q!outside, Q!NoReq, Q!Swallowed

LEMMA WorkerTerminate ==
  ASSUME Q!Serving, Q!Terminate
  PROVE  Q!Serving'
BY TimesType DEF Q!Serving, Q!Shaped, Q!Fresh, Q!Kinds, Q!AlarmIsItsOwn, Q!ProbedOnce, Q!OnItsWay, Q!Claimed, Q!Holding, Q!Accounted, Q!Owed,
     Q!Strategy, Q!outside, Q!NoReq, Q!Terminate

LEMMA WorkerKill ==
  ASSUME Q!Serving, Q!Kill
  PROVE  Q!Serving'
BY TimesType DEF Q!Serving, Q!Shaped, Q!Fresh, Q!Kinds, Q!AlarmIsItsOwn, Q!ProbedOnce, Q!OnItsWay, Q!Claimed, Q!Holding, Q!Accounted, Q!Owed,
     Q!Strategy, Q!outside, Q!NoReq, Q!Kill, Q!Start, Q!Fresh

LEMMA WorkerServesInit ==
  ASSUME Q!Init
  PROVE  Q!Serving
<1> USE DEF Q!Init, Q!Fresh, Q!NoReq, Q!outside, Q!Strategy, Q!Kinds
<1>1. Q!Shaped
  BY DEF Q!Shaped
<1>2. Q!AlarmIsItsOwn /\ Q!OnItsWay
  BY DEF Q!AlarmIsItsOwn, Q!OnItsWay
<1>3. Q!ProbedOnce
  BY DEF Q!ProbedOnce
<1>4. Q!Claimed /\ Q!Holding
  BY DEF Q!Claimed, Q!Holding
<1>5. Q!Accounted
  BY DEF Q!Accounted, Q!Owed
<1> QED BY <1>1, <1>2, <1>3, <1>4, <1>5 DEF Q!Serving

LEMMA WorkerServes ==
  ASSUME Q!Serving, Q!Next \/ UNCHANGED vars
  PROVE  Q!Serving'
<1>1. CASE Q!Next
  <2>1. Q!Next
    BY <1>1
  <2> QED BY <2>1, WorkerNextWindow, WorkerCollect, WorkerBuildReport, WorkerAcquire, WorkerAssign,
      WorkerAdmit, WorkerClaim, WorkerConnect, WorkerValidate, WorkerUse, WorkerRelease, WorkerPersist,
      WorkerLeave, WorkerGrace, WorkerRecycle, WorkerAnswer, WorkerReplace, WorkerReceive,
      WorkerConnectFails, WorkerInterrupt, WorkerSwallowed, WorkerTerminate, WorkerKill
      DEF Q!Next, Q!Going
<1>2. CASE UNCHANGED vars
  BY <1>2 DEF vars, Q!Serving, Q!Shaped, Q!AlarmIsItsOwn, Q!ProbedOnce, Q!OnItsWay, Q!Claimed, Q!Holding,
     Q!Accounted, Q!Owed, Q!Strategy
<1> QED BY <1>1, <1>2

\* A request that fails is told of, but for what the caller tells itself.
LEMMA WorkerFails ==
  ASSUME Q!IInv, NEW code \in {500, 503}, v4' = Q!Failed(code), v5' = Q!Tail, v5 \in {"connect", "validate", "use"}
  PROVE  Q!Reporting'
<1> DEFINE w == v4.kind \in {"run", "dry", "probe"}
           rep == IF v4.report = "none" THEN "none" ELSE "error"
<1>1. v4' = [v4 EXCEPT !.report = rep, !.open = FALSE, !.code = code, !.told = w]
  BY DEF Q!Failed
<1>2. DOMAIN v4 = DOMAIN Q!NoReq
  BY DEF Q!IInv, Q!Serving, Q!Shaped
<1>3. v4.kind = "permission" \/ v5' = "finally"
  BY DEF Q!Tail
<1>4. v5' = "answer" => v4.kind = "permission"
  BY DEF Q!Tail
<1>5. v4.kept = "no" /\ v4.kind \in {"run", "dry", "probe", "reconcile", "permission"}
      /\ v4.kind \in Q!Kinds
  BY DEF Q!IInv, Q!Serving, Q!Shaped, Q!Reporting, Q!Kinds
<1>6. w => v4.kind \in {"run", "dry", "probe"}
  OBVIOUS
<1>7. v4.kind \in {"run", "dry", "probe"} => w
  OBVIOUS
<1> HIDE DEF w, rep
<1>8. v4'.code = code /\ v4'.told = w /\ v4'.kind = v4.kind /\ v4'.kept = v4.kept
      /\ v4'.late = v4.late
  BY <1>1, <1>2 DEF Q!NoReq
<1>9. w => v4'.told
  BY <1>8, Zenon
<1>10. ~v4.late
  BY DEF Q!IInv, Q!Serving, Q!Holding
<1> QED BY <1>3, <1>4, <1>5, <1>7, <1>8, <1>9, <1>10 DEF Q!Reporting, Q!Tail

\* What a request has told and kept, after each step.
LEMMA WorkerReports ==
  ASSUME Q!IInv, Q!Next
  PROVE  Q!Reporting'
<1>0. DOMAIN v4 = DOMAIN Q!NoReq
  BY DEF Q!IInv, Q!Serving, Q!Shaped
<1>1. CASE Q!NextWindow
  BY <1>1 DEF Q!IInv, Q!Serving, Q!Shaped, Q!AlarmIsItsOwn, Q!OnItsWay, Q!Holding, Q!Reporting, Q!Strategy, Q!outside, Q!NoReq,
     Q!NextWindow, Q!Begin, Q!Kinds
<1>2. CASE Q!Collect
  BY <1>2 DEF Q!IInv, Q!Serving, Q!Shaped, Q!AlarmIsItsOwn, Q!OnItsWay, Q!Holding, Q!Reporting, Q!Strategy, Q!outside, Q!NoReq,
     Q!Collect
<1>3. CASE Q!BuildReport
  <2>1. CASE v4' = [v4 EXCEPT !.report = "open"] /\ v5' \in {"plugins", "connect"}
    BY <2>1, <1>0, <1>3 DEF Q!BuildReport, Q!IInv, Q!Reporting, Q!NoReq
  <2>2. CASE v4' = [v4 EXCEPT !.code = 500, !.told = v4.kind # "reconcile"] /\ v5' \in {"leave", "answer"}
    <3> DEFINE w == v4.kind # "reconcile"
    <3>1. v4' = [v4 EXCEPT !.code = 500, !.told = w]
      BY <2>2
    <3>2. v4.kind # "reconcile" => w
      OBVIOUS
    <3> HIDE DEF w
    <3>3. /\ v4'.code = 500 /\ v4'.told = w /\ v4'.kind = v4.kind /\ v4'.kept = v4.kept /\ v4'.report = v4.report
          /\ v4'.late = v4.late
      BY <3>1, <1>0 DEF Q!NoReq
    <3>4. w => v4'.told
      BY <3>3, Zenon
    <3>5. v4.report = "none" /\ v4.kept = "no" /\ ~v4.late /\ v4.kind \in Q!Kinds
      BY <1>3 DEF Q!BuildReport, Q!IInv, Q!Serving, Q!Holding, Q!Reporting
    <3> QED BY <2>2, <3>2, <3>3, <3>4, <3>5 DEF Q!Reporting
  <2> QED BY <1>3, <2>1, <2>2 DEF Q!BuildReport
<1>4. CASE Q!Acquire
  <2>1. CASE v4' = [v4 EXCEPT !.report = "skipped", !.code = 200] /\ v5' = "finally"
    BY <2>1, <1>0, <1>4 DEF Q!Acquire, Q!IInv, Q!Reporting, Q!NoReq
  <2>2. CASE v4' = v4 /\ v5' = "acquired"
    BY <2>2, <1>4 DEF Q!Acquire, Q!IInv, Q!Reporting
  <2> QED BY <1>4, <2>1, <2>2 DEF Q!Acquire
<1>5. CASE Q!Assign
  BY <1>5 DEF Q!IInv, Q!Serving, Q!Shaped, Q!AlarmIsItsOwn, Q!OnItsWay, Q!Holding, Q!Reporting, Q!Strategy, Q!outside, Q!NoReq,
     Q!Assign
<1>6. CASE Q!Admit
  <2>1. CASE v4' = [v4 EXCEPT !.report = "skipped", !.code = 200] /\ v5' = "finally"
    BY <2>1, <1>0, <1>6 DEF Q!Admit, Q!IInv, Q!Reporting, Q!NoReq
  <2>2. CASE v4' = v4 /\ v5' = "connect"
    BY <2>2, <1>6 DEF Q!Admit, Q!IInv, Q!Reporting
  <2> QED BY <1>6, <2>1, <2>2 DEF Q!Admit
<1>7. CASE Q!Claim
  <2>1. v5 = "claim" /\ v4.kind = "permission"
    BY <1>7 DEF Q!Claim, Q!IInv, Q!Serving, Q!OnItsWay
  <2>2. CASE v4' = v4 /\ v5' = "connect"
    BY <2>1, <2>2 DEF Q!IInv, Q!Reporting
  <2>3. CASE v5' = "answer" /\ \E code \in {409, 503} : v4' = [v4 EXCEPT !.code = code]
    BY <2>1, <2>3, <1>0 DEF Q!IInv, Q!Reporting, Q!Serving, Q!Holding, Q!NoReq
  <2> QED BY <1>7, <2>2, <2>3 DEF Q!Claim
<1>8. CASE Q!Connect
  BY <1>8 DEF Q!IInv, Q!Serving, Q!Shaped, Q!AlarmIsItsOwn, Q!OnItsWay, Q!Holding, Q!Reporting, Q!Strategy, Q!outside, Q!NoReq,
     Q!Connect
<1>9. CASE Q!Validate
  <2>1. CASE v4' = v4 /\ v5' = "use"
    BY <2>1, <1>9 DEF Q!Validate, Q!IInv, Q!Reporting
  <2>2. CASE v5' = Q!Tail /\ v4' = Q!Failed(IF v4.kind = "permission" THEN 503 ELSE 500)
    BY <2>2, <1>9, WorkerFails DEF Q!Validate
  <2> QED BY <1>9, <2>1, <2>2 DEF Q!Validate
<1>10. CASE Q!Use
  <2>1. v5 = "use" /\ v5' = Q!Tail /\ v5' \in {"answer", "finally"} /\ (v5' = "answer" => v4.kind = "permission")
    BY <1>10 DEF Q!Use, Q!Tail
  <2>2. CASE \E rep : v4' = [v4 EXCEPT !.open = FALSE, !.report = rep, !.code = 200]
    BY <2>1, <2>2, <1>0 DEF Q!IInv, Q!Serving, Q!Holding, Q!Reporting, Q!NoReq
  <2>3. CASE \E code \in {500, 503} : v4' = Q!Failed(code)
    <3>1. PICK code \in {500, 503} : v4' = Q!Failed(code)
      BY <2>3
    <3>2. v5 \in {"connect", "validate", "use"} /\ v5' = Q!Tail
      BY <2>1
    <3>3. code \in {500, 503} /\ v4' = Q!Failed(code)
      BY <3>1
    <3> QED BY <3>2, <3>3, WorkerFails
  <2>4. CASE v4' = [v4 EXCEPT !.open = FALSE, !.report = IF @ = "none" THEN @ ELSE "ok", !.code = 200]
    BY <2>2, <2>4
  <2>5. CASE v4' = [v4 EXCEPT !.open = FALSE, !.report = "error", !.code = 200]
    BY <2>2, <2>5
  <2> QED BY <1>10, <2>3, <2>4, <2>5 DEF Q!Use
<1>11. CASE Q!Release
  BY <1>11 DEF Q!IInv, Q!Serving, Q!Shaped, Q!AlarmIsItsOwn, Q!OnItsWay, Q!Holding, Q!Reporting, Q!Strategy, Q!outside, Q!NoReq,
     Q!Release
<1>12. CASE Q!Persist
  <2>1. PICK kept \in {"stored", "unsure"} :
          v4' = [v4 EXCEPT !.kept = kept, !.told = v4.told \/ (v4.kind = "run" /\ kept = "unsure" /\ v4.report # "error")]
    BY <1>12 DEF Q!Persist
  <2> DEFINE w == v4.told \/ (v4.kind = "run" /\ kept = "unsure" /\ v4.report # "error")
  <2>2. v4' = [v4 EXCEPT !.kept = kept, !.told = w]
    BY <2>1
  <2>3. (v4.told => w) /\ (v4.kind = "run" /\ kept = "unsure" /\ v4.report # "error" => w)
    OBVIOUS
  <2> HIDE DEF w
  <2>4. /\ v4'.kept = kept /\ v4'.told = w /\ v4'.kind = v4.kind /\ v4'.report = v4.report /\ v4'.late = v4.late
        /\ v4'.code = v4.code
    BY <2>2, <1>0 DEF Q!NoReq
  <2>5. w => v4'.told
    BY <2>4, Zenon
  <2>6. v5 = "persist" /\ v5' = "answer" /\ ~v4.late /\ v4.kind \in Q!Kinds
    BY <1>12 DEF Q!Persist, Q!IInv, Q!Serving, Q!Holding, Q!Reporting
  <2>7. v4'.kept # "no"
    BY <2>1, <2>4
  <2> QED BY <2>1, <2>3, <2>4, <2>5, <2>6, <2>7 DEF Q!IInv, Q!Reporting
<1>13. CASE Q!Leave
  BY <1>13 DEF Q!IInv, Q!Serving, Q!Shaped, Q!AlarmIsItsOwn, Q!OnItsWay, Q!Holding, Q!Reporting, Q!Strategy, Q!outside, Q!NoReq,
     Q!Leave, Q!Registered, Q!Disarmed
<1>14. CASE Q!Grace
  BY <1>14 DEF Q!IInv, Q!Serving, Q!Shaped, Q!AlarmIsItsOwn, Q!OnItsWay, Q!Holding, Q!Reporting, Q!Strategy, Q!outside, Q!NoReq,
     Q!Grace, Q!Disarmed
<1>15. CASE Q!Recycle
  BY <1>15 DEF Q!IInv, Q!Serving, Q!Shaped, Q!AlarmIsItsOwn, Q!OnItsWay, Q!Holding, Q!Reporting, Q!Strategy, Q!outside, Q!NoReq,
     Q!Recycle
<1>16. CASE Q!Answer
  BY <1>16 DEF Q!IInv, Q!Serving, Q!Shaped, Q!AlarmIsItsOwn, Q!OnItsWay, Q!Holding, Q!Reporting, Q!Strategy, Q!outside, Q!NoReq,
     Q!Answer
<1>17. CASE Q!Replace
  BY <1>17 DEF Q!IInv, Q!Serving, Q!Shaped, Q!AlarmIsItsOwn, Q!OnItsWay, Q!Holding, Q!Reporting, Q!Strategy, Q!outside, Q!NoReq,
     Q!Replace, Q!Start
<1>18. CASE Q!Receive
  <2>1. ASSUME NEW k \in Q!Kinds, Q!Begin(k, FALSE)
        PROVE  Q!Reporting'
    BY <2>1 DEF Q!Begin, Q!Reporting, Q!NoReq
  <2>2. CASE v5' = "next" /\ \E due \in SUBSET {"probe", "dry"} : v4' = [Q!NoReq EXCEPT !.windows = due]
    BY <2>2 DEF Q!Reporting, Q!NoReq
  <2> QED BY <1>18, <2>1, <2>2 DEF Q!Receive
<1>19. CASE Q!ConnectFails
  <2>1. CASE v5' = "connect" /\ \E n : v4' = [v4 EXCEPT !.open = FALSE, !.tries = n]
    BY <2>1, <1>0, <1>19 DEF Q!ConnectFails, Q!IInv, Q!Reporting, Q!NoReq
  <2>2. CASE v5' = Q!Tail /\ v4' = Q!Failed(IF v4.kind = "probe" THEN 500 ELSE 503)
    BY <2>2, <1>19, WorkerFails DEF Q!ConnectFails
  <2> QED BY <1>19, <2>1, <2>2 DEF Q!ConnectFails
<1>20. CASE Q!Interrupt
  BY <1>20 DEF Q!IInv, Q!Serving, Q!Shaped, Q!AlarmIsItsOwn, Q!OnItsWay, Q!Holding, Q!Reporting, Q!Strategy, Q!outside, Q!NoReq,
     Q!Interrupt
<1>21. CASE Q!Swallowed
  BY <1>21 DEF Q!IInv, Q!Serving, Q!Shaped, Q!AlarmIsItsOwn, Q!OnItsWay, Q!Holding, Q!Reporting, Q!Strategy, Q!outside, Q!NoReq,
     Q!Swallowed
<1>22. CASE Q!Terminate
  BY <1>22 DEF Q!IInv, Q!Serving, Q!Shaped, Q!AlarmIsItsOwn, Q!OnItsWay, Q!Holding, Q!Reporting, Q!Strategy, Q!outside, Q!NoReq,
     Q!Terminate
<1>23. CASE Q!Kill
  BY <1>23 DEF Q!IInv, Q!Serving, Q!Shaped, Q!AlarmIsItsOwn, Q!OnItsWay, Q!Holding, Q!Reporting, Q!Strategy, Q!outside, Q!NoReq,
     Q!Kill, Q!Start
<1> QED
  BY <1>1, <1>2, <1>3, <1>4, <1>5, <1>6, <1>7, <1>8, <1>9, <1>10, <1>11, <1>12, <1>13, <1>14, <1>15, <1>16, <1>17, <1>18, <1>19, <1>20, <1>21, <1>22, <1>23
     DEF Q!Next, Q!Going

LEMMA WorkerInit ==
  ASSUME Q!Init
  PROVE  Q!IInv
<1>1. Q!Reporting
  BY DEF Q!Init, Q!NoReq, Q!Reporting
<1> QED BY <1>1, WorkerServesInit DEF Q!IInv

LEMMA WorkerStep ==
  ASSUME Q!IInv, Q!Next \/ UNCHANGED vars
  PROVE  Q!IInv'
<1>1. Q!Serving'
  BY WorkerServes DEF Q!IInv
<1>2. CASE Q!Next
  <2>1. Q!Next
    BY <1>2
  <2> QED BY <1>1, <2>1, WorkerReports DEF Q!IInv
<1>3. CASE UNCHANGED vars
  <2>1. v3' = v3 /\ v4' = v4 /\ v5' = v5
    BY <1>3 DEF vars
  <2>2. Q!Reporting'
    BY <2>1 DEF Q!IInv, Q!Reporting
  <2> QED BY <1>1, <2>2 DEF Q!IInv
<1> QED BY <1>2, <1>3

LEMMA WorkerHolds ==
  ASSUME Q!IInv
  PROVE  Q!ProbedOnce /\ Q!AlarmIsItsOwn /\ Q!LeftIsReplaced /\ Q!AllReported
<1>1. Q!LeftIsReplaced
  BY DEF Q!IInv, Q!Serving, Q!Holding, Q!Accounted, Q!Owed, Q!LeftIsReplaced
<1>2. Q!AllReported
  BY DEF Q!IInv, Q!Reporting, Q!AllReported
<1> QED BY <1>1, <1>2 DEF Q!IInv, Q!Serving

----------------------------------------------------------------------------
(* The attempts of the scheduled probe.                                    *)

LEMMA ProbeEntry ==
  ASSUME L!IInv, NEW i \in 1..Len(v5)
  PROVE  /\ v5[i] \in L!Entry /\ v5[i].at \in Nat /\ v5[i].dispatch \in Nat
         /\ v5[i].as \in {"running", "ok", "failed"} /\ v5[i].logged \in BOOLEAN
<1>1. v5[i] \in L!Entry
  BY DEF L!IInv, L!Shaped
<1> QED BY <1>1 DEF L!Entry

\* A step that adds no attempt and sees none: only the place changes.
LEMMA ProbeSame ==
  ASSUME L!IInv, v3' = v3, v4' = v4, v5' = v5, v6' = v6,
         DOMAIN v14' = DOMAIN v14, v14'.posts = v14.posts, v14'.attempted = v14.attempted,
         v12'.last \in Nat, v12'.next \in Nat, v12'.next <= v4,
         v8' = "send" => L!Running = {} /\ v3 + 1 < v4,
         v8' \notin {"idle", "await", "over"} => ~v14.attempted,
         v6 = 0 => v8' = "idle"
  PROVE  L!IInv'
<1>1. L!Running' = L!Running /\ L!Ours' = L!Ours
  BY DEF L!Running, L!Ours
<1>2. L!Shaped'
  BY DEF L!IInv, L!Shaped
<1>3. L!InTime'
  BY DEF L!IInv, L!InTime
<1>4. L!Alone'
  BY <1>1 DEF L!IInv, L!Alone
<1>5. L!Once'
  BY <1>1 DEF L!IInv, L!Once
<1>6. L!RunOnce'
  BY <1>1 DEF L!IInv, L!RunOnce
<1> QED BY <1>2, <1>3, <1>4, <1>5, <1>6 DEF L!IInv

LEMMA ProbeStop ==
  ASSUME L!IInv, NEW as, L!Stop(as), v3' = v3, v4' = v4, v5' = v5, v6' = v6, v6 # 0
  PROVE  L!IInv'
<1>1. /\ DOMAIN v14' = DOMAIN v14 /\ v14'.posts = v14.posts /\ v14'.attempted = v14.attempted
      /\ v12'.last = 0 /\ v12'.next = 0 /\ v8' = "over" /\ v4 \in Nat
  BY DEF L!Stop, L!Forget, L!Nothing, L!IInv, L!Shaped, L!Blank
<1> QED BY <1>1, ProbeSame

LEMMA ProbeGo ==
  ASSUME L!IInv, NEW p, L!Go(p), v3' = v3, v4' = v4, v5' = v5, v6' = v6,
         v8 \notin {"idle", "await", "over"}, p \notin {"idle", "await", "over", "send"}
  PROVE  L!IInv'
<1>1. v14' = v14 /\ v12' = v12 /\ v8' = p
  BY DEF L!Go
<1>2. ~v14.attempted /\ v6 # 0 /\ v12.last \in Nat /\ v12.next \in Nat /\ v12.next <= v4
  BY DEF L!IInv, L!Shaped, L!InTime, L!Once
<1> QED BY <1>1, <1>2, ProbeSame

\* The times of the bridge as they are now.
LEMMA ProbeBridge ==
  ASSUME L!IInv
  PROVE  L!Bridge.last \in Nat /\ L!Bridge.next = v4 /\ v4 \in Nat
<1>1. v5[Len(v5)] \in L!Entry
  BY DEF L!IInv, L!Shaped
<1> QED BY <1>1 DEF L!Bridge, L!Entry, L!IInv, L!Shaped

LEMMA ProbeDeploy ==
  ASSUME L!IInv, L!Deploy
  PROVE  L!IInv'
BY ProbeSame DEF L!Deploy, L!program, L!IInv, L!Shaped, L!InTime, L!Alone, L!Once

LEMMA ProbeReview ==
  ASSUME L!IInv, L!Review
  PROVE  L!IInv'
BY ProbeSame DEF L!Review, L!world, L!IInv, L!Shaped, L!InTime, L!Alone, L!Once

LEMMA ProbeRestart ==
  ASSUME L!IInv, L!Restart
  PROVE  L!IInv'
<1>1. /\ v3' = v3 /\ v4' = v4 /\ v5' = v5 /\ v6' = v6 /\ v14' = v14
      /\ v8' = "prove" /\ v12' = L!Bridge /\ ~v14.attempted /\ v6 # 0
  BY DEF L!Restart, L!world, L!NotYet, L!IInv, L!Shaped
<1> QED BY <1>1, ProbeBridge, ProbeSame

LEMMA ProbeProve ==
  ASSUME L!IInv, L!Prove
  PROVE  L!IInv'
BY ProbeSame DEF L!Prove, L!world, L!IInv, L!Shaped, L!InTime, L!Alone, L!Once

LEMMA ProbeProven ==
  ASSUME L!IInv, L!Proven
  PROVE  L!IInv'
BY ProbeStop, ProbeGo DEF L!Proven, L!kept, L!world, L!IInv, L!Once

LEMMA ProbeReread ==
  ASSUME L!IInv, L!Reread
  PROVE  L!IInv'
BY ProbeStop, ProbeGo DEF L!Reread, L!kept, L!world, L!IInv, L!Once

LEMMA ProbeCheckWindow ==
  ASSUME L!IInv, L!CheckWindow
  PROVE  L!IInv'
BY ProbeStop, ProbeGo DEF L!CheckWindow, L!kept, L!world, L!IInv, L!Once

\* No attempt outlives its deadline: since the last one is long over, none runs.
LEMMA ProbePrevious ==
  ASSUME L!IInv, L!Previous
  PROVE  L!IInv'
<1>1. v3' = v3 /\ v4' = v4 /\ v5' = v5 /\ v6' = v6 /\ v8 = "previous"
  BY DEF L!Previous, L!kept, L!world
<1>2. CASE L!Stop("blocked")
  BY <1>1, <1>2, ProbeStop DEF L!IInv, L!Once
<1>3. CASE /\ L!PreviousEnded /\ L!InWindow
           /\ v8' = "send" /\ v14' = v14 /\ v12' = v12
  <2>1. /\ L!Bridge.last = v12.last /\ v3 - v12.last > 1 /\ v12.next > v3 + 1 /\ v12.next <= v4
        /\ v12.next \in Nat /\ v12.last \in Nat /\ v3 \in Nat /\ v4 \in Nat
    BY <1>3 DEF L!PreviousEnded, L!InWindow, L!Window, L!IInv, L!InTime, L!Shaped
  <2>2. Len(v5) \in 1..Len(v5) /\ v5[Len(v5)].at = v12.last
    BY <2>1 DEF L!Bridge, L!IInv, L!Shaped
  <2>3. ASSUME NEW i \in 1..Len(v5), v5[i].as = "running"
        PROVE  FALSE
    <3>1. v5[i] \in L!Entry /\ i <= Len(v5)
      BY DEF L!IInv, L!Shaped
    <3>2. v3 <= v5[i].at + 1 /\ v5[i].at <= v5[Len(v5)].at
      BY <2>2, <2>3, <3>1 DEF L!IInv, L!InTime
    <3> QED BY <2>1, <2>2, <3>1, <3>2 DEF L!Entry
  <2>4. L!Running = {} /\ v3 + 1 < v4
    BY <2>1, <2>3 DEF L!Running
  <2>5. ~v14.attempted /\ v6 # 0
    BY <1>1 DEF L!IInv, L!Once
  <2> QED BY <1>1, <1>3, <2>1, <2>4, <2>5, ProbeSame
<1> QED BY <1>2, <1>3 DEF L!Previous

LEMMA ProbeAwait ==
  ASSUME L!IInv, L!Await
  PROVE  L!IInv'
<1>1. v3' = v3 /\ v4' = v4 /\ v5' = v5 /\ v6' = v6 /\ v6 # 0
  BY DEF L!Await, L!kept, L!world, L!IInv, L!Once
<1>2. CASE L!Stop("unknown")
  BY <1>1, <1>2, ProbeStop
<1>3. ASSUME NEW s, v8' = "over", v14' = [v14 EXCEPT !.status = "terminal", !.succeeded = s], L!Forget
      PROVE  L!IInv'
  <2>1. /\ DOMAIN v14' = DOMAIN v14 /\ v14'.posts = v14.posts /\ v14'.attempted = v14.attempted
        /\ v12'.last = 0 /\ v12'.next = 0 /\ v4 \in Nat
    BY <1>3 DEF L!Forget, L!Nothing, L!IInv, L!Shaped, L!Blank
  <2> QED BY <1>1, <1>3, <2>1, ProbeSame
<1> QED BY <1>2, <1>3 DEF L!Await

LEMMA ProbeGiveUp ==
  ASSUME L!IInv, L!GiveUp
  PROVE  L!IInv'
BY ProbeStop DEF L!GiveUp, L!kept, L!world, L!IInv, L!Once

LEMMA ProbeFail ==
  ASSUME L!IInv, L!Fail
  PROVE  L!IInv'
BY ProbeStop DEF L!Fail, L!kept, L!world, L!IInv, L!Once

LEMMA ProbeDie ==
  ASSUME L!IInv, L!Die
  PROVE  L!IInv'
<1>1. /\ v3' = v3 /\ v4' = v4 /\ v5' = v5 /\ v6' = v6 /\ v14' = v14 /\ v8' = "idle"
      /\ v12'.last = 0 /\ v12'.next = 0 /\ v4 \in Nat
  BY DEF L!Die, L!kept, L!world, L!Forget, L!Nothing, L!IInv, L!Shaped
<1> QED BY <1>1, ProbeSame

\* A new dispatch has a number and a receipt of its own.
LEMMA ProbeDispatch ==
  ASSUME L!IInv, L!Dispatch
  PROVE  L!IInv'
<1>1. /\ v3' = v3 /\ v4' = v4 /\ v5' = v5 /\ v6' = v6 + 1 /\ v6 \in Nat
      /\ v8' = "prove" /\ v12' = L!Bridge /\ v14' = L!Blank
  BY DEF L!Dispatch, L!world, L!IInv, L!Shaped
<1>2. L!Running' = L!Running /\ L!Ours' = L!Ours
  BY <1>1 DEF L!Running, L!Ours
<1>3. L!Shaped'
  BY <1>1, ProbeBridge DEF L!IInv, L!Shaped, L!Blank
<1>4. L!InTime'
  BY <1>1, ProbeBridge DEF L!IInv, L!InTime
<1>5. L!Alone'
  BY <1>1, <1>2 DEF L!IInv, L!Alone
<1>6. ASSUME NEW i \in L!Ours
      PROVE  v5[i].dispatch < v6 + 1
  <2>1. v5[i] \in L!Entry /\ v5[i].dispatch <= v6
    BY DEF L!IInv, L!Shaped, L!Once, L!Ours
  <2> QED BY <1>1, <2>1 DEF L!Entry
<1>7. L!Once'
  <2>1. v14'.posts = 0 /\ ~v14'.attempted /\ v6' # 0
    BY <1>1 DEF L!Blank
  <2>2. \A i \in L!Ours' : v5'[i].dispatch < v6' /\ v5'[i].dispatch <= v6'
    <3> SUFFICES ASSUME NEW i \in L!Ours
                 PROVE  v5[i].dispatch < v6 + 1 /\ v5[i].dispatch <= v6 + 1
      BY <1>1, <1>2
    <3>1. v5[i].dispatch \in Nat
      BY ProbeEntry DEF L!Ours
    <3> QED BY <1>1, <1>6, <3>1
  <2> QED BY <1>1, <2>1, <2>2 DEF L!Once
<1>8. L!RunOnce'
  BY <1>1, <1>2 DEF L!IInv, L!RunOnce, L!Blank
<1> QED BY <1>3, <1>4, <1>5, <1>7, <1>8 DEF L!IInv

\* Time passes only as far as what runs allows.
LEMMA ProbeTick ==
  ASSUME L!IInv, L!Tick
  PROVE  L!IInv'
<1>1. /\ v3' = v3 + 1 /\ v3 \in Nat /\ v4' = v4 /\ v5' = v5 /\ v6' = v6 /\ v8' = v8 /\ v12' = v12
      /\ v14' = v14 /\ v8 # "send"
  BY DEF L!Tick, L!program, L!IInv, L!Shaped
<1>2. L!Running' = L!Running /\ L!Ours' = L!Ours
  BY <1>1 DEF L!Running, L!Ours
<1>3. \A i \in 1..Len(v5) : v5[i].at \in Nat
  BY ProbeEntry
<1>4. \A i \in 1..Len(v5) : v5[i].as = "running" => v3 + 1 <= v5[i].at + 1
  BY <1>1, <1>3 DEF L!Tick, L!Running
<1>5. L!Shaped'
  BY <1>1 DEF L!IInv, L!Shaped
<1>6. L!InTime'
  BY <1>1, <1>3, <1>4 DEF L!IInv, L!InTime
<1>7. L!Alone'
  BY <1>1, <1>2 DEF L!IInv, L!Alone
<1>8. L!Once' /\ L!RunOnce'
  BY <1>1, <1>2 DEF L!IInv, L!Once, L!RunOnce
<1> QED BY <1>5, <1>6, <1>7, <1>8 DEF L!IInv

\* An attempt that is added is the last one, and of now.
LEMMA ProbeAdded ==
  ASSUME L!IInv, NEW e \in L!Entry, v5' = Append(v5, e), e.at = v3, e.as = "running", ~e.logged
  PROVE  /\ v5' \in Seq(L!Entry) /\ v5' # <<>>
         /\ Len(v5) \in Nat /\ Len(v5') = Len(v5) + 1 /\ v5'[Len(v5) + 1] = e
         /\ \A i \in 1..Len(v5) : v5'[i] = v5[i]
         /\ \A i, j \in 1..Len(v5') : i <= j => v5'[i].at <= v5'[j].at
         /\ \A i \in 1..Len(v5') :
              v5'[i].at <= v3 /\ (v5'[i].as = "running" => v3 <= v5'[i].at + 1 /\ ~v5'[i].logged)
         /\ L!Running' = L!Running \cup {Len(v5) + 1}
         /\ L!Ours' = IF e.by = "ours" THEN L!Ours \cup {Len(v5) + 1} ELSE L!Ours
         /\ Len(v5) + 1 \notin L!Ours
<1>1. v5 \in Seq(L!Entry) /\ v3 \in Nat
  BY DEF L!IInv, L!Shaped
<1>2. /\ v5' \in Seq(L!Entry) /\ v5' # <<>> /\ Len(v5) \in Nat
      /\ Len(v5') = Len(v5) + 1 /\ v5'[Len(v5) + 1] = e
      /\ \A i \in 1..Len(v5) : v5'[i] = v5[i]
  BY <1>1
<1>3. 1..Len(v5') = 1..Len(v5) \cup {Len(v5) + 1} /\ Len(v5) + 1 \notin 1..Len(v5)
  BY <1>2
<1>4. \A i \in 1..Len(v5) : v5[i].at \in Nat /\ v5[i].at <= v3
  BY <1>1, ProbeEntry DEF L!IInv, L!InTime
<1>5. ASSUME NEW i \in 1..Len(v5'), NEW j \in 1..Len(v5'), i <= j
      PROVE  v5'[i].at <= v5'[j].at
  <2>1. CASE j \in 1..Len(v5) /\ i \in 1..Len(v5)
    BY <1>2, <1>5, <2>1 DEF L!IInv, L!InTime
  <2>2. CASE j = Len(v5) + 1
    BY <1>1, <1>2, <1>3, <1>4, <2>2
  <2> QED BY <1>2, <1>3, <1>5, <2>1, <2>2
<1>6. ASSUME NEW i \in 1..Len(v5')
      PROVE  v5'[i].at <= v3 /\ (v5'[i].as = "running" => v3 <= v5'[i].at + 1 /\ ~v5'[i].logged)
  <2>1. CASE i \in 1..Len(v5)
    BY <1>2, <2>1 DEF L!IInv, L!InTime
  <2>2. CASE i = Len(v5) + 1
    BY <1>1, <1>2, <2>2
  <2> QED BY <1>3, <2>1, <2>2
<1>7. L!Running' = L!Running \cup {Len(v5) + 1}
  BY <1>2, <1>3 DEF L!Running
<1>8. L!Ours' = IF e.by = "ours" THEN L!Ours \cup {Len(v5) + 1} ELSE L!Ours
  BY <1>2, <1>3 DEF L!Ours
<1>9. Len(v5) + 1 \notin L!Ours
  BY <1>3 DEF L!Ours
<1> QED BY <1>2, <1>5, <1>6, <1>7, <1>8, <1>9

LEMMA ProbeScheduled ==
  ASSUME L!IInv, L!Scheduled
  PROVE  L!IInv'
<1> DEFINE e == [at |-> v3, by |-> "schedule", dispatch |-> v6, as |-> "running", logged |-> FALSE]
<1>1. /\ v4 = v3 /\ v5' = Append(v5, e) /\ v4' = v3 + 2 * Times
      /\ v3' = v3 /\ v6' = v6 /\ v8' = v8 /\ v12' = v12 /\ v14' = v14
  BY DEF L!Scheduled, L!Attempt, L!program
<1>2. e \in L!Entry /\ e.at = v3 /\ e.as = "running" /\ ~e.logged /\ e.by # "ours"
      /\ v3 \in Nat /\ v4 \in Nat /\ v6 \in Nat
  BY DEF L!IInv, L!Shaped, L!Entry
<1> HIDE DEF e
<1>3. /\ v5' \in Seq(L!Entry) /\ v5' # <<>>
      /\ \A i \in 1..Len(v5) : v5'[i] = v5[i]
      /\ \A i, j \in 1..Len(v5') : i <= j => v5'[i].at <= v5'[j].at
      /\ \A i \in 1..Len(v5') :
           v5'[i].at <= v3 /\ (v5'[i].as = "running" => v3 <= v5'[i].at + 1 /\ ~v5'[i].logged)
      /\ L!Running' = L!Running \cup {Len(v5) + 1} /\ L!Ours' = L!Ours /\ Len(v5) + 1 \notin L!Ours
  BY <1>1, <1>2, ProbeAdded
<1>4. \A i \in L!Ours : i \notin L!Running
  <2> SUFFICES ASSUME NEW i \in L!Ours, i \in L!Running PROVE FALSE
    OBVIOUS
  <2>1. i \in 1..Len(v5) /\ v5[i].at \in Nat /\ v5[i].as = "running"
    BY ProbeEntry DEF L!Ours, L!Running
  <2>2. v5[i].at + 1 < v4 /\ v3 <= v5[i].at + 1
    BY <2>1 DEF L!IInv, L!Alone, L!InTime
  <2> QED BY <1>1, <1>2, <2>1, <2>2
<1>5. L!Shaped'
  BY <1>1, <1>2, <1>3, TimesType DEF L!IInv, L!Shaped
<1>6. L!InTime'
  <2>1. v12.next <= v4'
    BY <1>1, <1>2, TimesType DEF L!IInv, L!InTime, L!Shaped
  <2> QED BY <1>1, <1>3, <2>1 DEF L!InTime
<1>7. L!Alone'
  <2>1. v8 # "send"
    BY <1>1, <1>2 DEF L!IInv, L!Alone
  <2>2. (L!Ours \cap L!Running)' = {}
    BY <1>3, <1>4
  <2> QED BY <1>1, <2>1, <2>2 DEF L!Alone
<1>8. \A i \in L!Ours : v5'[i] = v5[i]
  BY <1>3 DEF L!Ours
<1>9. L!Once'
  BY <1>1, <1>3, <1>8 DEF L!IInv, L!Once
<1>10. L!RunOnce'
  <2> SUFFICES ASSUME NEW i \in L!Ours, NEW j \in L!Ours, v5'[i].dispatch = v5'[j].dispatch
               PROVE  i = j
    BY <1>1, <1>3 DEF L!IInv, L!RunOnce
  <2> QED BY <1>8 DEF L!IInv, L!RunOnce
<1> QED BY <1>5, <1>6, <1>7, <1>9, <1>10 DEF L!IInv

LEMMA ProbeByHand ==
  ASSUME L!IInv, L!ByHand
  PROVE  L!IInv'
<1> DEFINE e == [at |-> v3, by |-> "hand", dispatch |-> v6, as |-> "running", logged |-> FALSE]
<1>1. /\ v8 # "send" /\ L!Running = {} /\ v5' = Append(v5, e)
      /\ v4' = v4 /\ v3' = v3 /\ v6' = v6 /\ v8' = v8 /\ v12' = v12 /\ v14' = v14
  BY DEF L!ByHand, L!Attempt, L!program
<1>2. e \in L!Entry /\ e.at = v3 /\ e.as = "running" /\ ~e.logged /\ e.by # "ours"
  BY DEF L!IInv, L!Shaped, L!Entry
<1> HIDE DEF e
<1>3. /\ v5' \in Seq(L!Entry) /\ v5' # <<>>
      /\ \A i \in 1..Len(v5) : v5'[i] = v5[i]
      /\ \A i, j \in 1..Len(v5') : i <= j => v5'[i].at <= v5'[j].at
      /\ \A i \in 1..Len(v5') :
           v5'[i].at <= v3 /\ (v5'[i].as = "running" => v3 <= v5'[i].at + 1 /\ ~v5'[i].logged)
      /\ L!Running' = L!Running \cup {Len(v5) + 1} /\ L!Ours' = L!Ours /\ Len(v5) + 1 \notin L!Ours
  BY <1>1, <1>2, ProbeAdded
<1>5. L!Shaped'
  BY <1>1, <1>3 DEF L!IInv, L!Shaped
<1>6. L!InTime'
  BY <1>1, <1>3 DEF L!IInv, L!InTime
<1>7. L!Alone'
  <2>1. (L!Ours \cap L!Running)' = {}
    BY <1>1, <1>3
  <2> QED BY <1>1, <2>1 DEF L!Alone
<1>8. \A i \in L!Ours : v5'[i] = v5[i]
  BY <1>3 DEF L!Ours
<1>9. L!Once'
  BY <1>1, <1>3, <1>8 DEF L!IInv, L!Once
<1>10. L!RunOnce'
  <2> SUFFICES ASSUME NEW i \in L!Ours, NEW j \in L!Ours, v5'[i].dispatch = v5'[j].dispatch
               PROVE  i = j
    BY <1>1, <1>3 DEF L!IInv, L!RunOnce
  <2> QED BY <1>8 DEF L!IInv, L!RunOnce
<1> QED BY <1>5, <1>6, <1>7, <1>9, <1>10 DEF L!IInv

\* The request adds the attempt of this dispatch, or none; it is recorded.
LEMMA ProbeSend ==
  ASSUME L!IInv, L!Send
  PROVE  L!IInv'
<1> DEFINE e == [at |-> v3, by |-> "ours", dispatch |-> v6, as |-> "running", logged |-> FALSE]
<1>1. PICK ran, answered \in BOOLEAN :
         /\ v5' = IF ran THEN Append(v5, e) ELSE v5
         /\ v14' = [v14 EXCEPT !.attempted = TRUE, !.posts = @ + 1,
                               !.status = IF answered THEN "dispatched" ELSE "unknown"]
         /\ v8' \in {"await", "over", "idle"}
         /\ v12' = v12 \/ v12' = L!Nothing
  BY DEF L!Send, L!Attempt, L!Recorded, L!Forget
<1>2. v8 = "send" /\ v3' = v3 /\ v4' = v4 /\ v6' = v6
  BY DEF L!Send
<1>3. /\ v3 \in Nat /\ v4 \in Nat /\ v6 \in Nat \ {0} /\ v14.posts = 0 /\ v3 + 1 < v4 /\ L!Running = {}
      /\ \A i \in L!Ours : v5[i].dispatch < v6
  BY <1>2 DEF L!IInv, L!Shaped, L!Alone, L!Once
<1>4. /\ DOMAIN v14' = DOMAIN L!Blank /\ v14'.posts = 1 /\ v14'.attempted = TRUE
      /\ v14'.posts \in Nat /\ v14'.attempted \in BOOLEAN
  BY <1>1, <1>3 DEF L!IInv, L!Shaped, L!Blank
<1>5. v12'.last \in Nat /\ v12'.next \in Nat /\ v12'.next <= v4
  BY <1>1, <1>3 DEF L!IInv, L!Shaped, L!InTime, L!Nothing
<1>6. CASE ~ran
  <2>1. v5' = v5 /\ L!Running' = L!Running /\ L!Ours' = L!Ours
    BY <1>1, <1>6 DEF L!Running, L!Ours
  <2>2. L!Shaped'
    <3>1. v5 \in Seq(L!Entry) /\ v5 # <<>>
      BY DEF L!IInv, L!Shaped
    <3> QED BY <1>2, <1>3, <1>4, <1>5, <2>1, <3>1 DEF L!Shaped
  <2>3. L!InTime'
    BY <1>2, <1>5, <2>1 DEF L!IInv, L!InTime
  <2>4. L!Alone'
    BY <1>1, <1>2, <1>3, <2>1 DEF L!Alone
  <2>5. L!Once'
    BY <1>1, <1>2, <1>4, <2>1 DEF L!IInv, L!Once
  <2>6. L!RunOnce'
    BY <1>4, <2>1 DEF L!IInv, L!RunOnce
  <2> QED BY <2>2, <2>3, <2>4, <2>5, <2>6 DEF L!IInv
<1>7. CASE ran
  <2>1. v5' = Append(v5, e)
    BY <1>1, <1>7
  <2>2. e \in L!Entry /\ e.at = v3 /\ e.as = "running" /\ ~e.logged /\ e.by = "ours" /\ e.dispatch = v6
    BY <1>3 DEF L!Entry
  <2> HIDE DEF e
  <2>3. /\ v5' \in Seq(L!Entry) /\ v5' # <<>> /\ v5'[Len(v5) + 1] = e
        /\ \A i \in 1..Len(v5) : v5'[i] = v5[i]
        /\ \A i, j \in 1..Len(v5') : i <= j => v5'[i].at <= v5'[j].at
        /\ \A i \in 1..Len(v5') :
             v5'[i].at <= v3 /\ (v5'[i].as = "running" => v3 <= v5'[i].at + 1 /\ ~v5'[i].logged)
        /\ L!Running' = L!Running \cup {Len(v5) + 1} /\ L!Ours' = L!Ours \cup {Len(v5) + 1}
        /\ Len(v5) + 1 \notin L!Ours
    BY <2>1, <2>2, ProbeAdded
  <2>4. \A i \in L!Ours : v5'[i] = v5[i] /\ v5'[i].dispatch < v6
    BY <1>3, <2>3 DEF L!Ours
  <2>5. L!Shaped'
    BY <1>2, <1>3, <1>4, <1>5, <2>3 DEF L!Shaped
  <2>6. L!InTime'
    BY <1>2, <1>5, <2>3 DEF L!InTime
  <2>7. L!Alone'
    <3>1. L!Running' = {Len(v5) + 1}
      BY <1>3, <2>3
    <3> QED BY <1>1, <1>2, <1>3, <2>2, <2>3, <3>1 DEF L!Alone
  <2>8. L!Once'
    <3>1. \A i \in L!Ours' : v5'[i].dispatch <= v6
      <4>1. \A i \in L!Ours : v5[i].dispatch \in Nat
        BY ProbeEntry DEF L!Ours
      <4> QED BY <1>3, <2>2, <2>3, <2>4, <4>1
    <3> QED BY <1>1, <1>2, <1>3, <1>4, <3>1 DEF L!Once
  <2>9. L!RunOnce'
    <3> SUFFICES ASSUME NEW i \in L!Ours', NEW j \in L!Ours', v5'[i].dispatch = v5'[j].dispatch
                 PROVE  i = j
      BY <1>4 DEF L!RunOnce
    <3>1. CASE i \in L!Ours /\ j \in L!Ours
      BY <2>4, <3>1 DEF L!IInv, L!RunOnce
    <3>2. CASE i = Len(v5) + 1 /\ j \in L!Ours
      BY <1>3, <2>2, <2>3, <2>4, <3>2
    <3>3. CASE j = Len(v5) + 1 /\ i \in L!Ours
      BY <1>3, <2>2, <2>3, <2>4, <3>3
    <3> QED BY <2>3, <3>1, <3>2, <3>3
  <2> QED BY <2>5, <2>6, <2>7, <2>8, <2>9 DEF L!IInv
<1> QED BY <1>6, <1>7

\* What ends or is logged keeps its time, its origin and its number.
LEMMA ProbeMarked ==
  ASSUME L!IInv, NEW i \in 1..Len(v5), NEW as \in {"running", "ok", "failed"}, NEW logged \in BOOLEAN,
         as = "running" => v5[i].as = "running" /\ ~logged,
         v5' \in Seq(L!Entry), Len(v5') = Len(v5),
         \A j \in 1..Len(v5) : j # i => v5'[j] = v5[j],
         v5'[i].at = v5[i].at, v5'[i].by = v5[i].by, v5'[i].dispatch = v5[i].dispatch,
         v5'[i].as = as, v5'[i].logged = logged,
         v3' = v3, v4' = v4, v6' = v6, v8' = v8, v12' = v12, v14' = v14
  PROVE  L!IInv'
<1>1. \A j \in 1..Len(v5) : /\ v5'[j].at = v5[j].at /\ v5'[j].by = v5[j].by /\ v5'[j].dispatch = v5[j].dispatch
                            /\ v5'[j].as = "running" => v5[j].as = "running"
                            /\ v5'[j].as = "running" /\ ~v5[j].logged => ~v5'[j].logged
  OBVIOUS
<1>2. L!Ours' = L!Ours /\ L!Running' \subseteq L!Running /\ L!Ours \subseteq 1..Len(v5)
  BY <1>1 DEF L!Ours, L!Running
<1>3. L!Shaped'
  <2>1. v5' # <<>>
    BY DEF L!IInv, L!Shaped
  <2> QED BY <2>1 DEF L!IInv, L!Shaped
<1>4. L!InTime'
  BY <1>1 DEF L!IInv, L!InTime
<1>5. L!Alone'
  BY <1>1, <1>2 DEF L!IInv, L!Alone
<1>6. L!Once'
  BY <1>1, <1>2 DEF L!IInv, L!Once
<1>7. L!RunOnce'
  BY <1>1, <1>2 DEF L!IInv, L!RunOnce
<1> QED BY <1>3, <1>4, <1>5, <1>6, <1>7 DEF L!IInv

LEMMA ProbeEnd ==
  ASSUME L!IInv, NEW i \in 1..Len(v5), L!End(i)
  PROVE  L!IInv'
<1>1. /\ v5[i].as = "running" /\ v3' = v3 /\ v4' = v4 /\ v6' = v6 /\ v8' = v8 /\ v12' = v12 /\ v14' = v14
  BY DEF L!End, L!program
<1>2. PICK as \in {"ok", "failed"} : v5' = [v5 EXCEPT ![i].as = as]
  BY DEF L!End
<1>3. v5 \in Seq(L!Entry) /\ v5[i] \in L!Entry /\ v5[i].logged \in BOOLEAN
  BY ProbeEntry DEF L!IInv, L!Shaped
<1>4. [v5[i] EXCEPT !.as = as] \in L!Entry
  BY <1>3 DEF L!Entry
<1> DEFINE r == [v5[i] EXCEPT !.as = as]
<1>5. v5' = [v5 EXCEPT ![i] = r]
  BY <1>2
<1>6. v5' \in Seq(L!Entry) /\ Len(v5') = Len(v5) /\ \A j \in 1..Len(v5) : j # i => v5'[j] = v5[j]
  BY <1>3, <1>4, <1>5
<1>7. v5'[i] = r
  <2> HIDE DEF r
  <2> QED BY <1>3, <1>5
<1>8. /\ v5'[i].at = v5[i].at /\ v5'[i].by = v5[i].by /\ v5'[i].dispatch = v5[i].dispatch
      /\ v5'[i].as = as /\ v5'[i].logged = v5[i].logged
  BY <1>3, <1>7 DEF L!Entry
<1> QED BY <1>1, <1>3, <1>6, <1>8, ProbeMarked

LEMMA ProbeLog ==
  ASSUME L!IInv, NEW i \in 1..Len(v5), L!Log(i)
  PROVE  L!IInv'
<1>1. /\ v5[i].as # "running" /\ v3' = v3 /\ v4' = v4 /\ v6' = v6 /\ v8' = v8 /\ v12' = v12 /\ v14' = v14
  BY DEF L!Log, L!program
<1>2. v5' = [v5 EXCEPT ![i].logged = TRUE]
  BY DEF L!Log
<1>3. v5 \in Seq(L!Entry) /\ v5[i] \in L!Entry /\ v5[i].as \in {"running", "ok", "failed"}
  BY ProbeEntry DEF L!IInv, L!Shaped
<1>4. [v5[i] EXCEPT !.logged = TRUE] \in L!Entry
  BY <1>3 DEF L!Entry
<1> DEFINE r == [v5[i] EXCEPT !.logged = TRUE]
<1>5. v5' = [v5 EXCEPT ![i] = r]
  BY <1>2
<1>6. v5' \in Seq(L!Entry) /\ Len(v5') = Len(v5) /\ \A j \in 1..Len(v5) : j # i => v5'[j] = v5[j]
  BY <1>3, <1>4, <1>5
<1>7. v5'[i] = r
  <2> HIDE DEF r
  <2> QED BY <1>3, <1>5
<1>8. /\ v5'[i].at = v5[i].at /\ v5'[i].by = v5[i].by /\ v5'[i].dispatch = v5[i].dispatch
      /\ v5'[i].as = v5[i].as /\ v5'[i].logged = TRUE
  BY <1>3, <1>7 DEF L!Entry
<1> QED BY <1>1, <1>3, <1>6, <1>8, ProbeMarked

LEMMA ProbeInit ==
  ASSUME L!Init
  PROVE  L!IInv
<1> DEFINE e == [at |-> 0, by |-> "schedule", dispatch |-> 0, as |-> "ok", logged |-> TRUE]
<1>1. /\ v3 = 0 /\ v4 = 2 * Times /\ v5 = <<e>> /\ v6 = 0 /\ v8 = "idle"
      /\ v12 = L!Nothing /\ v14 = L!Blank
  BY DEF L!Init
<1>2. v5 \in Seq(L!Entry) /\ v5 # <<>> /\ 1..Len(v5) = {1} /\ v5[1] = e
  BY <1>1 DEF L!Entry
<1>3. L!Running = {} /\ L!Ours = {}
  BY <1>2 DEF L!Running, L!Ours
<1>4. L!Shaped /\ L!InTime
  BY <1>1, <1>2, TimesType DEF L!Shaped, L!InTime, L!Nothing, L!Blank
<1> QED BY <1>1, <1>3, <1>4 DEF L!IInv, L!Alone, L!Once, L!RunOnce, L!Blank

LEMMA ProbeStep ==
  ASSUME L!IInv, L!Next \/ UNCHANGED vars
  PROVE  L!IInv'
<1>1. CASE L!Next
  <2>1. L!Next
    BY <1>1
  <2> QED BY <2>1, ProbeTick, ProbeScheduled, ProbeByHand, ProbeDeploy, ProbeReview, ProbeEnd, ProbeLog,
      ProbeDispatch, ProbeRestart, ProbeProve, ProbeProven, ProbeReread, ProbeCheckWindow, ProbePrevious,
      ProbeSend, ProbeAwait, ProbeGiveUp, ProbeFail, ProbeDie DEF L!Next
<1>2. CASE UNCHANGED vars
  <2>1. /\ v3' = v3 /\ v4' = v4 /\ v5' = v5 /\ v6' = v6 /\ v8' = v8 /\ v12' = v12 /\ v14' = v14
    BY <1>2 DEF vars
  <2> QED BY <2>1, ProbeSame DEF L!IInv, L!Shaped, L!InTime, L!Alone, L!Once
<1> QED BY <1>1, <1>2

----------------------------------------------------------------------------
(* The releases that move no traffic.                                      *)

\* A release that never moves traffic, and what its receipt tells.
LEMMA PinnedInit == ASSUME P!Init PROVE P!IInv
<1>1. PICK follows \in IF v2 = "absent" THEN BOOLEAN ELSE {FALSE}, serving \in {"orig", "other"} :
        v1 = [config |-> 0, new |-> v2 # "absent", serving |-> serving, follows |-> follows, rv |-> 0]
  BY DEF P!Init
<1>2. v1.config = 0 /\ v1.rv = 0 /\ v1.serving # "cand" /\ v1.follows = follows /\ v6 = v1
  BY <1>1 DEF P!Init
<1>3. P!Shaped
  BY <1>1, <1>2 DEF P!Init, P!Shaped
<1>4. v2 # "absent" => follows = FALSE
  BY <1>1
<1>5. P!NoTraffic
  BY <1>2, <1>4 DEF P!NoTraffic, P!NeverServes
<1> QED BY <1>2, <1>3, <1>5 DEF P!IInv, P!Init, P!SinceRead, P!Noted, P!PassIsBaseline

LEMMA PinnedOthers == ASSUME P!IInv, P!Others PROVE P!IInv'
<1>1. UNCHANGED <<v2, v3, v4, v5, v6, v7, v8>>
  BY DEF P!Others, P!revision
<1>2. /\ DOMAIN v1' = DOMAIN v1 /\ v1'.follows = v1.follows /\ v1'.serving \in {v1.serving, "other"}
      /\ v1'.rv = v1.rv + 1 /\ v1'.config \in Nat /\ v1'.config >= v1.config
  <2>1. CASE v1' = [v1 EXCEPT !.config = @ + 1, !.rv = @ + 1]
    BY <2>1 DEF P!IInv, P!Shaped
  <2>2. CASE v1' = [v1 EXCEPT !.serving = "other", !.rv = @ + 1]
    BY <2>2 DEF P!IInv, P!Shaped
  <2> QED BY <2>1, <2>2 DEF P!Others
<1>3. P!Shaped' /\ P!SinceRead'
  BY <1>1, <1>2 DEF P!IInv, P!Shaped, P!SinceRead
<1>4. P!NoTraffic'
  BY <1>1, <1>2 DEF P!IInv, P!NoTraffic, P!NeverServes
<1> QED BY <1>1, <1>3, <1>4 DEF P!IInv, P!Noted, P!PassIsBaseline

LEMMA PinnedProvider == ASSUME P!IInv, P!Provider PROVE P!IInv' /\ UNCHANGED v1
<1>1. UNCHANGED <<v3, v4, v5, v6, v7, v8>> /\ v2 = "starting" /\ v2' \in {"ready", "failed"}
  BY DEF P!Provider
<1>2. UNCHANGED v1
  BY DEF P!Provider, P!IInv, P!NoTraffic
<1>3. P!Shaped' /\ P!SinceRead' /\ P!NoTraffic'
  BY <1>1, <1>2 DEF P!IInv, P!Shaped, P!SinceRead, P!NoTraffic, P!NeverServes
<1> QED BY <1>1, <1>2, <1>3 DEF P!IInv, P!Noted, P!PassIsBaseline

LEMMA PinnedWrite == ASSUME P!IInv, P!Write PROVE P!IInv'
<1> USE DEF P!IInv, P!Write, P!revision, P!fixed
<1>1. CASE UNCHANGED v1 /\ UNCHANGED v2 /\ UNCHANGED v3
  BY <1>1 DEF P!Shaped, P!NoTraffic, P!NeverServes, P!SinceRead, P!Noted, P!PassIsBaseline
<1>2. CASE P!AtVersion /\ v1' = P!Written /\ v2' = "starting" /\ v3' = P!Written.config
  <2>1. /\ DOMAIN v1' = DOMAIN v1 /\ v1'.follows = FALSE /\ v1'.rv = v1.rv + 1
        /\ v1'.serving = v1.serving /\ v1'.config = v1.config
    BY <1>2 DEF P!Written, P!Follows, P!AtVersion, P!Shaped, P!SinceRead
  <2>2. UNCHANGED v6 /\ DOMAIN v8' = DOMAIN v8 /\ v8'.status # "pass" /\ v8'.written # "no"
    BY DEF P!Shaped
  <2>3. P!Shaped' /\ P!NoTraffic'
    BY <1>2, <2>1, <2>2 DEF P!Shaped, P!NoTraffic, P!NeverServes
  <2>4. P!SinceRead'
    BY <2>1, <2>2 DEF P!Shaped, P!SinceRead
  <2> QED BY <1>2, <2>2, <2>3, <2>4 DEF P!Noted, P!PassIsBaseline
<1> QED BY <1>1, <1>2

LEMMA PinnedRead == ASSUME P!IInv, P!Read PROVE P!IInv'
BY DEF P!IInv, P!Read, P!revision, P!Shaped, P!NoTraffic, P!NeverServes, P!SinceRead, P!Noted, P!PassIsBaseline

\* The steps that change nothing but the receipt.
LEMMA PinnedReceipt ==
  ASSUME P!IInv, P!Admit \/ P!Build \/ P!Compare \/ P!Wait \/ P!Verify \/ P!Readback \/ P!Bind \/ P!Stop
  PROVE  P!IInv'
<1>1. UNCHANGED <<v1, P!revision, P!fixed>>
  BY DEF P!Admit, P!Build, P!Compare, P!Wait, P!Verify, P!Readback, P!Bind, P!Stop
<1>2. P!Shaped' /\ v8'.written = v8.written
  BY <1>1 DEF P!IInv, P!Shaped, P!revision, P!fixed, P!Admit, P!Build, P!Compare, P!Wait, P!Verify, P!Readback, P!Bind, P!Stop
<1>3. v8'.status = "pass" => v5' = "over" /\ v2 = "ready" /\ v3 = v6.config
  <2>1. CASE P!Admit \/ P!Build \/ P!Compare \/ P!Wait
    BY <2>1, <1>2 DEF P!IInv, P!Shaped, P!PassIsBaseline, P!Admit, P!Build, P!Compare, P!Wait
  <2>2. CASE P!Bind \/ P!Stop
    BY <2>2 DEF P!IInv, P!Shaped, P!Bind, P!Stop
  <2>3. CASE P!Verify
    BY <2>3 DEF P!Verify, P!OfTheBaseline
  <2>4. CASE P!Readback
    BY <2>4 DEF P!IInv, P!Shaped, P!SinceRead, P!Readback
  <2> QED BY <2>1, <2>2, <2>3, <2>4
<1> QED BY <1>1, <1>2, <1>3 DEF P!IInv, P!NoTraffic, P!NeverServes, P!SinceRead, P!Noted, P!PassIsBaseline, P!revision, P!fixed

LEMMA PinnedStep == ASSUME P!IInv, P!Next \/ UNCHANGED vars PROVE P!IInv'
<1>1. CASE UNCHANGED vars
  BY <1>1 DEF vars, P!IInv, P!Shaped, P!NoTraffic, P!NeverServes, P!SinceRead, P!Noted, P!PassIsBaseline
<1> QED BY <1>1, PinnedOthers, PinnedProvider, PinnedWrite, PinnedRead, PinnedReceipt DEF P!Next, P!Going

LEMMA PinnedHolds ==
  ASSUME P!IInv
  PROVE  P!NeverServes /\ P!PassIsBaseline /\ P!ReceiptTells
BY DEF P!IInv, P!NoTraffic, P!Noted, P!ReceiptTells

LEMMA PinnedYields == ASSUME P!IInv, P!Next \/ UNCHANGED vars PROVE P!OthersStand
<1> SUFFICES v1'.config >= v1.config /\ (v1.serving = "other" => v1'.serving = "other")
  BY DEF P!OthersStand
<1>1. v1.config \in Nat
  BY DEF P!IInv, P!Shaped
<1>2. CASE P!Others
  <2>1. CASE v1' = [v1 EXCEPT !.config = @ + 1, !.rv = @ + 1]
    BY <1>1, <2>1 DEF P!IInv, P!Shaped
  <2>2. CASE v1' = [v1 EXCEPT !.serving = "other", !.rv = @ + 1]
    BY <1>1, <2>2 DEF P!IInv, P!Shaped
  <2> QED BY <1>2, <2>1, <2>2 DEF P!Others
<1>3. CASE P!Write /\ P!AtVersion /\ v1' = P!Written
  BY <1>1, <1>3 DEF P!AtVersion, P!Written, P!IInv, P!SinceRead, P!Shaped
<1>4. CASE UNCHANGED v1
  BY <1>1, <1>4
<1>5. P!Write => UNCHANGED v1 \/ (P!AtVersion /\ v1' = P!Written)
  BY DEF P!Write
<1> QED BY <1>2, <1>3, <1>4, <1>5, PinnedProvider
        DEF P!Next, P!Going, vars, P!Read, P!Admit, P!Build, P!Compare, P!Wait, P!Verify, P!Readback, P!Bind, P!Stop

----------------------------------------------------------------------------
(* The route of reconcile_cloud_runtime.py.                                *)

\* Routing the targets of a plan, one after the other.
LEMMA RouteInit == ASSUME T!Init PROVE T!IInv
<1>1. 1 \in T!Targets /\ 1 <= T!Last /\ T!Last \in Nat
  BY BoundsAssumption DEF T!Targets, T!Last
<1>2. T!Shaped
  BY <1>1 DEF T!Init, T!Shaped, T!Fresh, T!Modes
<1>3. T!OurOwn
  BY <1>1 DEF T!Init, T!OurOwn, T!Fresh
<1> QED BY <1>1, <1>2, <1>3 DEF T!IInv, T!Init, T!AtHand, T!RoutedAsVerified, T!Behind, T!SinceRead

\* What the world does.
LEMMA RouteHealth == ASSUME T!IInv, NEW t \in T!Targets, T!HealthChanges(t) PROVE T!IInv'
<1>1. UNCHANGED <<v1, v2, v9, v4, v5, v6, v7, v8, v10, v11>>
  BY DEF T!HealthChanges
<1> QED BY <1>1 DEF T!IInv, T!Shaped, T!AtHand, T!Verified, T!RoutedAsVerified, T!WithBaseline, T!Last, T!OurOwn, T!Behind, T!SinceRead

LEMMA RouteWorld ==
  ASSUME T!IInv, NEW t \in T!Targets, UNCHANGED <<v1, v4, v5, v6, v7, v8, v10, v11>>,
         NEW s, v2' = [v2 EXCEPT ![t] = s], DOMAIN s = DOMAIN T!Fresh, s.rv \in Nat, s.rv >= v2[t].rv,
         \/ v9' = v9 \cup {t} /\ s.rv > v2[t].rv /\ s.latest = "alien"
         \/ v9' = v9 /\ s.want = v2[t].want /\ s.have = s.want /\ s.latest = v2[t].latest
  PROVE  T!IInv'
<1>1. T!Shaped'
  BY DEF T!IInv, T!Shaped, T!Last, T!WithBaseline
<1>2. T!AtHand' /\ T!RoutedAsVerified'
  BY DEF T!IInv, T!AtHand, T!RoutedAsVerified, T!Verified, T!WithBaseline
<1>3. T!OurOwn'
  BY DEF T!IInv, T!Shaped, T!OurOwn
<1>4. T!Last \in Nat /\ 1..T!Last \subseteq T!Targets /\ UNCHANGED T!Last
  BY BoundsAssumption DEF T!Last, T!Targets, T!WithBaseline
<1>5. T!Behind'
  <2> SUFFICES ASSUME NEW u \in 1..T!Last, u < v6 \/ v8 = "ok", v1 # "health", u \notin v9'
               PROVE  v2'[u].have = "cand"
    BY <1>4 DEF T!Behind
  <2>1. v2[u].have = "cand"
    BY DEF T!IInv, T!Behind
  <2>2. v2[u].want = "cand"
    BY <1>4, <2>1 DEF T!IInv, T!OurOwn
  <2> QED BY <1>4, <2>1, <2>2 DEF T!IInv, T!Shaped
<1>6. v6 \in T!Targets
  BY <1>4 DEF T!IInv, T!Shaped
<1>7. \A u \in T!Targets \ {t} : v2'[u] = v2[u]
  BY DEF T!IInv, T!Shaped
<1>8. v2'[t] = s
  BY DEF T!IInv, T!Shaped
<1>9. v9' \subseteq {u \in T!Targets : v2'[u].latest = "alien"}
  BY <1>7, <1>8 DEF T!IInv, T!SinceRead
<1>10. v2'[v6].rv >= v2[v6].rv /\ (v6 \in v9' => v6 \in v9 \/ v2'[v6].rv > v2[v6].rv)
  BY <1>6, <1>7, <1>8 DEF T!IInv, T!Shaped
<1>11. v2'[v6].rv \in Nat /\ v2[v6].rv \in Nat
  BY <1>1, <1>6 DEF T!IInv, T!Shaped
<1>12. T!SinceRead'
  BY <1>9, <1>10, <1>11 DEF T!IInv, T!SinceRead
<1> QED BY <1>1, <1>2, <1>3, <1>5, <1>12 DEF T!IInv

LEMMA RouteForeign == ASSUME T!IInv, NEW t \in T!Targets, T!Foreign(t) PROVE T!IInv'
<1> DEFINE s == [rv |-> v2[t].rv + 1, latest |-> "alien", want |-> "alien", have |-> "alien"]
<1>1. v2' = [v2 EXCEPT ![t] = s] /\ v9' = v9 \cup {t}
      /\ UNCHANGED <<v1, v4, v5, v6, v7, v8, v10, v11>>
  BY DEF T!Foreign
<1>2. DOMAIN s = DOMAIN T!Fresh /\ v2[t].rv \in Nat /\ s.rv = v2[t].rv + 1 /\ s.latest = "alien"
  BY DEF T!IInv, T!Shaped, T!Fresh
<1>3. s.rv >= v2[t].rv /\ s.rv > v2[t].rv /\ s.rv \in Nat
  BY <1>2
<1> HIDE DEF s
<1> QED BY <1>1, <1>2, <1>3, RouteWorld

LEMMA RouteLand == ASSUME T!IInv, NEW t \in T!Targets, T!Land(t) PROVE T!IInv'
<1> DEFINE s == [v2[t] EXCEPT !.have = v2[t].want]
<1>1. v2' = [v2 EXCEPT ![t] = s] /\ v9' = v9
      /\ UNCHANGED <<v1, v4, v5, v6, v7, v8, v10, v11>>
  BY DEF T!Land
<1>2. DOMAIN s = DOMAIN T!Fresh /\ v2[t].rv \in Nat /\ s.rv = v2[t].rv /\ s.want = v2[t].want /\ s.have = v2[t].want
      /\ s.latest = v2[t].latest
  BY DEF T!IInv, T!Shaped, T!Fresh
<1>3. s.rv >= v2[t].rv /\ s.rv \in Nat
  BY <1>2
<1> HIDE DEF s
<1> QED BY <1>1, <1>2, <1>3, RouteWorld

\* The run goes on to the next target, or has done the last.
LEMMA RouteNext ==
  ASSUME T!IInv, T!NextTarget, UNCHANGED <<v1, v2, v9, v4, v7, v10>>, v5 # "over",
         \A t \in v10 : T!Verified(t)',
         DOMAIN v11' = T!Targets,
         v1 = "health" \/ v2[v6].have = "cand" \/ v6 \in v9
  PROVE  T!IInv'
<1>1. T!Last \in Nat /\ v6 \in 1..T!Last /\ 1..T!Last \subseteq T!Targets /\ UNCHANGED T!Last
  BY BoundsAssumption DEF T!Last, T!Targets, T!WithBaseline, T!IInv, T!Shaped
<1>2. v8 # "ok"
  BY DEF T!IInv, T!Shaped
<1>3. CASE v6 < T!Last
  <2>1. v5' = "read" /\ v6' = v6 + 1 /\ UNCHANGED v8
    BY <1>3 DEF T!NextTarget
  <2>2. v6' \in 1..T!Last' /\ v6' \notin v10 /\ 1..v6 \subseteq 1..v6'
    BY <1>1, <1>3, <2>1 DEF T!IInv, T!Shaped
  <2>3. T!Shaped' /\ T!AtHand'
    BY <1>2, <2>1, <2>2 DEF T!IInv, T!Shaped, T!AtHand
  <2>4. T!Behind'
    BY <1>1, <1>2, <2>1 DEF T!IInv, T!Behind
  <2>5. T!OurOwn' /\ T!SinceRead'
    BY <2>1 DEF T!IInv, T!OurOwn, T!SinceRead
  <2> QED BY <2>3, <2>4, <2>5 DEF T!IInv, T!RoutedAsVerified
<1>4. CASE ~(v6 < T!Last)
  <2>1. v5' = "over" /\ v8' = "ok" /\ UNCHANGED v6
    BY <1>4 DEF T!NextTarget
  <2>2. v6 = T!Last
    BY <1>1, <1>4
  <2>3. T!Shaped' /\ T!AtHand'
    BY <1>1, <2>1 DEF T!IInv, T!Shaped, T!AtHand
  <2>4. T!Behind'
    BY <1>1, <2>1, <2>2 DEF T!IInv, T!Behind
  <2>5. T!OurOwn' /\ T!SinceRead'
    BY <2>1 DEF T!IInv, T!OurOwn, T!SinceRead
  <2> QED BY <2>3, <2>4, <2>5 DEF T!IInv, T!RoutedAsVerified
<1> QED BY <1>3, <1>4

LEMMA RouteRaise == ASSUME T!IInv, T!Raise PROVE T!IInv'
<1>1. v5' = "over" /\ v8' = "raised" /\ UNCHANGED <<v1, v2, v3, v9, v4, v6, v7, v10, v11>>
  BY DEF T!Raise, T!cloud
<1>2. v8 # "ok"
  BY DEF T!IInv, T!Shaped, T!Raise
<1> QED BY <1>1, <1>2 DEF T!IInv, T!Shaped, T!AtHand, T!Verified, T!RoutedAsVerified, T!WithBaseline, T!Last, T!OurOwn, T!Behind, T!SinceRead

LEMMA RouteRead == ASSUME T!IInv, T!Read PROVE T!IInv'
<1>1. v5 = "read" /\ v5' = "verify" /\ v7' = v2[v6]
      /\ UNCHANGED <<v1, v2, v3, v9, v4, v6, v8, v10, v11>>
  BY DEF T!Read, T!cloud
<1>2. v6 \in T!Targets
  BY BoundsAssumption DEF T!IInv, T!Shaped, T!Last, T!Targets
<1>3. T!SinceRead'
  <2>1. v1 = "initial" => v2[v6].latest = "cand" /\ v2[v6].have = "base"
    BY DEF T!Read, T!WithBaseline, T!Continues
  <2> QED BY <1>1, <1>2, <2>1 DEF T!IInv, T!Shaped, T!SinceRead
<1> QED BY <1>1, <1>3 DEF T!IInv, T!Shaped, T!AtHand, T!Verified, T!RoutedAsVerified, T!WithBaseline, T!Last, T!OurOwn, T!Behind

LEMMA RouteVerify == ASSUME T!IInv, T!Verify PROVE T!IInv'
<1>1. /\ v5 = "verify" /\ T!OnlyPlanned(v6) /\ T!Fit(v6) /\ v11' = [v11 EXCEPT ![v6] = v3[v6]]
      /\ UNCHANGED <<v1, v2, v3, v9, v4, v7, v10>>
  BY DEF T!Verify, T!cloud
<1>2. v6 \in T!Targets /\ v6 \notin v10 /\ v1 \in T!Modes
  BY <1>1, BoundsAssumption DEF T!IInv, T!Shaped, T!AtHand, T!Last, T!Targets
<1>3. DOMAIN v11' = T!Targets /\ v11'[v6] = v3[v6] /\ \A u \in v10 : v11'[u] = v11[u]
  BY <1>1, <1>2, BoundsAssumption DEF T!IInv, T!Shaped
<1>4. \A u \in v10 : T!Verified(u)'
  BY <1>1, <1>3 DEF T!IInv, T!RoutedAsVerified, T!Verified, T!WithBaseline
<1>5. CASE v1 = "health"
  <2>1. T!NextTarget
    BY <1>5 DEF T!Verify
  <2> QED BY <1>1, <1>3, <1>4, <1>5, <2>1, RouteNext
<1>6. CASE v1 # "health"
  <2>1. v5' \in {"confirm", "route"} /\ UNCHANGED <<v6, v8>>
    BY <1>6 DEF T!Verify
  <2>2. T!Verified(v6)'
    <3>1. T!WithBaseline => v6 \in v4
      BY <1>1 DEF T!OnlyPlanned
    <3>2. v1 = "deploy" => v3[v6] = "up"
      BY <1>1 DEF T!Fit
    <3>3. v1 \in {"switch_on", "env", "initial"} => v3[v6] \in {"up", "cold"}
      BY <1>1 DEF T!Fit
    <3> QED BY <1>1, <1>3, <1>6, <2>1, <3>1, <3>2, <3>3 DEF T!Verified, T!WithBaseline
  <2>3. T!Shaped'
    BY <1>1, <1>3, <2>1 DEF T!IInv, T!Shaped, T!Last, T!WithBaseline
  <2>4. T!AtHand' /\ T!RoutedAsVerified'
    BY <1>1, <1>2, <1>4, <2>1, <2>2 DEF T!IInv, T!AtHand, T!RoutedAsVerified
  <2>5. T!OurOwn' /\ T!Behind' /\ T!SinceRead'
    BY <1>1, <2>1 DEF T!IInv, T!OurOwn, T!Behind, T!SinceRead, T!Last, T!WithBaseline
  <2> QED BY <2>3, <2>4, <2>5 DEF T!IInv
<1> QED BY <1>5, <1>6

\* The two writes.
LEMMA RouteWrites ==
  ASSUME T!IInv, v5 = "route", UNCHANGED <<v1, v9, v4, v6, v7, v8, v11>>,
         NEW s, v2' = [v2 EXCEPT ![v6] = s], DOMAIN s = DOMAIN T!Fresh, s.rv \in Nat,
         s.want = "cand", s.have \in {v2[v6].have, "cand"}, s.latest = v2[v6].latest,
         v10' = v10 \cup {v6}, v5' \in {"wait", "confirm"}
  PROVE  T!IInv'
<1>1. v6 \in T!Targets /\ v6 \notin v10 /\ T!Verified(v6)
  BY BoundsAssumption DEF T!IInv, T!Shaped, T!AtHand, T!Last, T!Targets
<1>2. v2'[v6] = s /\ \A u \in T!Targets \ {v6} : v2'[u] = v2[u]
  BY <1>1 DEF T!IInv, T!Shaped
<1>3. DOMAIN v2' = T!Targets /\ \A u \in T!Targets : DOMAIN v2'[u] = DOMAIN T!Fresh /\ v2'[u].rv \in Nat
  BY <1>2 DEF T!IInv, T!Shaped
<1>4. T!Shaped'
  BY <1>1, <1>3, BoundsAssumption DEF T!IInv, T!Shaped, T!Last, T!WithBaseline
<1>5. T!AtHand' /\ T!RoutedAsVerified'
  BY <1>1 DEF T!IInv, T!AtHand, T!RoutedAsVerified, T!Verified, T!WithBaseline
<1>6. T!OurOwn'
  <2> SUFFICES ASSUME NEW u \in T!Targets \ v9
               PROVE  /\ v2'[u].want = IF u \in v10' THEN "cand" ELSE "base"
                      /\ v2'[u].have \in {"base", v2'[u].want}
    BY DEF T!OurOwn
  <2>1. CASE u = v6
    BY <1>1, <1>2, <2>1 DEF T!IInv, T!OurOwn
  <2>2. CASE u # v6
    BY <1>2, <2>2 DEF T!IInv, T!OurOwn
  <2> QED BY <2>1, <2>2
<1>7. T!Behind'
  <2> SUFFICES ASSUME NEW u \in 1..T!Last, u < v6 \/ v8 = "ok", v1 # "health", u \notin v9
               PROVE  v2'[u].have = "cand"
    BY DEF T!Behind, T!Last, T!WithBaseline
  <2>1. v2[u].have = "cand" /\ u \in T!Targets
    BY BoundsAssumption DEF T!IInv, T!Behind, T!Last, T!Targets
  <2> QED BY <1>2, <2>1
<1>8. T!SinceRead'
  BY <1>1, <1>2 DEF T!IInv, T!SinceRead
<1> QED BY <1>4, <1>5, <1>6, <1>7, <1>8 DEF T!IInv

LEMMA RouteAdopt == ASSUME T!IInv, T!Adopt PROVE T!IInv'
<1>1. v5 = "route" /\ UNCHANGED <<v1, v3, v9, v4, v6, v7, v11>>
  BY DEF T!Adopt
<1>2. CASE T!Unchanged(v6)
  <2> DEFINE s == [v2[v6] EXCEPT !.rv = @ + 1, !.want = "cand"]
  <2>1. v2' = [v2 EXCEPT ![v6] = s] /\ v10' = v10 \cup {v6} /\ v5' = "wait" /\ UNCHANGED v8
    BY <1>2 DEF T!Adopt
  <2>2. v2[v6].rv \in Nat /\ DOMAIN v2[v6] = DOMAIN T!Fresh
    BY BoundsAssumption DEF T!IInv, T!Shaped, T!Last, T!Targets
  <2>3. DOMAIN s = DOMAIN T!Fresh /\ s.rv \in Nat /\ s.want = "cand" /\ s.have = v2[v6].have /\ s.latest = v2[v6].latest
    BY <2>2 DEF T!Fresh
  <2> HIDE DEF s
  <2> QED BY <1>1, <2>1, <2>3, RouteWrites
<1>3. CASE ~T!Unchanged(v6)
  <2>1. T!Raise
    BY <1>1, <1>3 DEF T!Adopt, T!Raise, T!cloud
  <2> QED BY <2>1, RouteRaise
<1> QED BY <1>2, <1>3

LEMMA RouteRoute == ASSUME T!IInv, T!Route PROVE T!IInv'
<1> DEFINE s == [v2[v6] EXCEPT !.rv = @ + 1, !.want = "cand", !.have = "cand"]
<1>1. /\ v5 = "route" /\ UNCHANGED <<v1, v3, v9, v4, v6, v7, v8, v11>>
      /\ v2' = [v2 EXCEPT ![v6] = s] /\ v10' = v10 \cup {v6} /\ v5' = "confirm"
  BY DEF T!Route
<1>2. v2[v6].rv \in Nat /\ DOMAIN v2[v6] = DOMAIN T!Fresh
  BY BoundsAssumption DEF T!IInv, T!Shaped, T!Last, T!Targets
<1>3. DOMAIN s = DOMAIN T!Fresh /\ s.rv \in Nat /\ s.want = "cand" /\ s.have = "cand" /\ s.latest = v2[v6].latest
  BY <1>2 DEF T!Fresh
<1> HIDE DEF s
<1> QED BY <1>1, <1>3, RouteWrites

LEMMA RouteConfirm == ASSUME T!IInv, T!Wait \/ T!Confirm PROVE T!IInv'
<1>1. /\ v5 \in {"wait", "confirm"} /\ v2[v6].have = "cand" /\ T!NextTarget
      /\ UNCHANGED <<v1, v2, v3, v9, v4, v7, v10, v11>>
  BY DEF T!Wait, T!Confirm, T!Confirmed, T!cloud
<1>2. \A u \in v10 : T!Verified(u)'
  BY <1>1 DEF T!IInv, T!RoutedAsVerified, T!Verified, T!WithBaseline
<1>3. DOMAIN v11' = T!Targets
  BY <1>1 DEF T!IInv, T!Shaped
<1> QED BY <1>1, <1>2, <1>3, RouteNext

LEMMA RouteStep == ASSUME T!IInv, T!Next \/ UNCHANGED vars PROVE T!IInv'
<1>1. CASE UNCHANGED vars
  BY <1>1 DEF vars, T!cloud, T!IInv, T!Shaped, T!AtHand, T!Verified, T!RoutedAsVerified, T!WithBaseline, T!Last, T!OurOwn, T!Behind, T!SinceRead
<1> QED BY <1>1, RouteHealth, RouteForeign, RouteLand, RouteRaise, RouteRead, RouteVerify, RouteAdopt, RouteRoute,
        RouteConfirm DEF T!Next

LEMMA RouteHolds == ASSUME T!IInv PROVE T!RoutedAsVerified /\ T!InPlanOrder
<1>1. 1..T!Last \subseteq T!Targets /\ T!Last \in Nat /\ v6 \in 1..T!Last /\ v10 \subseteq 1..v6
  BY BoundsAssumption DEF T!Last, T!Targets, T!IInv, T!Shaped
<1>2. ASSUME NEW t \in v10, NEW u \in T!Targets, u < t PROVE u \in v10 \/ u \in v9
  <2>1. u \in 1..T!Last /\ u < v6
    BY <1>1, <1>2 DEF T!Targets
  <2>2. v2[u].have = "cand" \/ u \in v9
    BY <2>1 DEF T!IInv, T!RoutedAsVerified, T!Verified, T!Behind
  <2> QED BY <2>2 DEF T!IInv, T!OurOwn
<1>3. v8 = "ok" /\ v1 # "health" => \A t \in 1..T!Last : v2[t].have = "cand" \/ t \in v9
  BY DEF T!IInv, T!Behind
<1> QED BY <1>2, <1>3 DEF T!IInv, T!InPlanOrder

LEMMA RouteYields == ASSUME T!IInv, T!Next \/ UNCHANGED vars PROVE T!AdoptionYields
<1> SUFFICES ASSUME NEW t \in T!Targets, v1 = "initial", v2[t].want = "alien"
             PROVE  v2'[t].want = "alien"
  BY DEF T!AdoptionYields
<1>1. t \in v9 /\ DOMAIN v2 = T!Targets /\ DOMAIN v2[t] = DOMAIN T!Fresh
  BY DEF T!IInv, T!OurOwn, T!Shaped
<1>2. CASE T!Adopt
  BY <1>1, <1>2 DEF T!Adopt, T!Unchanged, T!IInv, T!SinceRead, T!Shaped
<1>3. ASSUME NEW u \in T!Targets, T!Foreign(u) PROVE v2'[t].want = "alien"
  BY <1>1, <1>3 DEF T!Foreign
<1>4. ASSUME NEW u \in T!Targets, T!Land(u) PROVE v2'[t].want = "alien"
  BY <1>1, <1>4 DEF T!Land, T!Fresh
<1>5. T!Route => FALSE
  BY DEF T!Route
<1>6. UNCHANGED v2 => v2'[t].want = "alien"
  OBVIOUS
<1> QED BY <1>2, <1>3, <1>4, <1>5, <1>6 DEF T!Next, vars, T!cloud, T!Raise, T!Read, T!Verify, T!Wait, T!Confirm, T!HealthChanges

----------------------------------------------------------------------------
(* How a frozen baseline becomes active again.                             *)

\* Recovering the baseline from what was confirmed.
LEMMA PointsMeet ==
  ASSUME NEW a \in K!Point, NEW b \in K!Point, K!AtMost(a, b), K!AtMost(b, a)
  PROVE  a = b
<1>1. a.pos = b.pos /\ a.ord = b.ord
  BY DEF K!Point, K!AtMost
<1> QED BY <1>1 DEF K!Point

LEMMA PointsFollow ==
  ASSUME NEW a \in K!Point, NEW b \in K!Point, NEW c \in K!Point, K!AtMost(a, b), K!AtMost(b, c)
  PROVE  K!AtMost(a, c)
BY DEF K!Point, K!AtMost

LEMMA GoneStays ==
  ASSUME NEW a \in K!Point, NEW b \in K!Point, K!Source.facts \in K!Point, K!Gone(a), K!AtMost(a, b)
  PROVE  K!Gone(b)
<1>1. K!AtMost(K!Source.facts, b)
  BY PointsFollow DEF K!Gone
<1>2. b # K!Source.facts
  BY PointsMeet DEF K!Gone
<1> QED BY <1>1, <1>2 DEF K!Gone

LEMMA ItemIs == ASSUME NEW S, NEW s \in Seq(S), NEW i \in 1..Len(s) PROVE s[i] \in S
OBVIOUS

\* A report that came after the candidate's and shows the same began with the
\* same.
LEMMA SameSince ==
  ASSUME K!IInv, v5.as = "confirmed", NEW j \in K!Ids, j > v5.at, K!SameFacts(j)
  PROVE  K!Proven(j)
<1>1. v5.source \in K!Ids /\ v5.source <= v5.at /\ v5.at \in Nat
  BY DEF K!IInv, K!Shaped, K!now
<1>2. v5.source < j
  BY <1>1 DEF K!Ids
<1>3. K!AtMost(K!Source.facts, v4[j].began) /\ K!AtMost(v4[j].began, v4[j].facts)
  BY <1>1, <1>2 DEF K!IInv, K!History, K!Source
<1>4. K!Source.facts \in K!Point /\ v4[j].began \in K!Point /\ v4[j].facts \in K!Point
  <2>1. v4 \in Seq([facts: K!Point, began: K!Point, rev: Nat])
    BY DEF K!IInv, K!Shaped
  <2>2. v4[v5.source] \in [facts: K!Point, began: K!Point, rev: Nat] /\ v4[j] \in [facts: K!Point, began: K!Point, rev: Nat]
    BY <1>1, <2>1, ItemIs DEF K!Ids
  <2> QED BY <2>2 DEF K!Source
<1>5. v4[j].facts = K!Source.facts
  BY DEF K!SameFacts
<1>6. v4[j].began = K!Source.facts
  BY <1>3, <1>4, <1>5, PointsMeet
<1> QED BY <1>6 DEF K!Proven

LEMMA RecoveryInit == ASSUME K!Init PROVE K!IInv
<1>1. K!now = 0 /\ K!Ids = {} /\ K!Revs = {1} /\ Len(v9) = 1
  BY DEF K!Init, K!now, K!Ids, K!Revs
<1>2. K!Shaped
  <2>1. K!Nothing \in K!Point
    BY DEF K!Nothing, K!Point
  <2>2. v4 \in Seq([facts: K!Point, began: K!Point, rev: Nat])
    BY DEF K!Init
  <2>3. v9 \in Seq([active: BOOLEAN, by: Nat, on: BOOLEAN])
    BY DEF K!Init
  <2>4. v3 \in [on: BOOLEAN, began: K!Point, rev: Nat] /\ {v6, v7} \subseteq [by: Nat, at: 0..K!now, held: BOOLEAN]
    BY <1>1, <2>1 DEF K!Init, K!NoReading, K!NoPlan
  <2>5. v2 \in K!Point /\ DOMAIN v5 = {"source", "as", "at"} /\ v5.at \in 0..K!now /\ v5.as = "none"
    BY <1>1, <2>1 DEF K!Init
  <2>6. DOMAIN v8 = {"version", "serving", "latest", "undone"} /\ {1, v8.serving, v8.latest} \subseteq K!Revs
    BY <1>1 DEF K!Init
  <2>7. DOMAIN v10 = DOMAIN K!NoSync /\ v10.by \in Nat /\ v10.pc = "idle"
    BY DEF K!Init, K!NoSync
  <2> QED BY <2>2, <2>3, <2>4, <2>5, <2>6, <2>7 DEF K!Shaped
<1>3. K!History
  BY <1>1 DEF K!Init, K!History, K!NoReading
<1>4. K!Activated
  BY <1>1 DEF K!Init, K!Activated
<1> QED BY <1>2, <1>3, <1>4 DEF K!IInv, K!Init, K!Grounded, K!Synchronized, K!NoSync, K!NothingUndone

\* What is there of the account only grows.
LEMMA RecoveryTrade == ASSUME K!IInv, K!Trade PROVE K!IInv'
<1>1. PICK d \in {[pos |-> 1, ord |-> 0], [pos |-> 0, ord |-> 1], [pos |-> 1, ord |-> 1]} :
        v2' = [pos |-> v2.pos + d.pos, ord |-> v2.ord + d.ord]
  BY DEF K!Trade
<1>2. UNCHANGED <<v1, v3, v4, v5, v6, v7, v8, v9, v10>>
  BY DEF K!Trade
<1>3. v2 \in K!Point /\ v2' \in K!Point /\ K!AtMost(v2, v2')
  <2>1. v2 \in K!Point /\ d.pos \in {0, 1} /\ d.ord \in {0, 1}
    BY DEF K!IInv, K!Shaped
  <2> QED BY <1>1, <2>1 DEF K!Point, K!AtMost
<1>4. K!Shaped'
  BY <1>2, <1>3 DEF K!IInv, K!Shaped, K!now, K!Ids, K!Revs
<1>5. \A i \in K!Ids : v4[i].facts \in K!Point
  <2>1. v4 \in Seq([facts: K!Point, began: K!Point, rev: Nat])
    BY DEF K!IInv, K!Shaped
  <2>2. \A i \in K!Ids : v4[i] \in [facts: K!Point, began: K!Point, rev: Nat]
    BY <2>1, ItemIs DEF K!Ids
  <2> QED BY <2>2
<1>6. K!History'
  <2>1. v3.on => K!AtMost(v3.began, v2')
    <3>1. v3.began \in K!Point
      BY DEF K!IInv, K!Shaped
    <3> QED BY <1>3, <3>1, PointsFollow DEF K!IInv, K!History
  <2>2. \A i \in K!Ids : K!AtMost(v4[i].facts, v2')
    BY <1>3, <1>5, PointsFollow DEF K!IInv, K!History
  <2>3. K!Ids' = K!Ids
    BY <1>2 DEF K!Ids
  <2> QED BY <1>2, <2>1, <2>2, <2>3 DEF K!IInv, K!History, K!AtMost
<1>7. ASSUME NEW p, K!Grounded(p), p # K!NoPlan PROVE ~p.held => K!Gone(v2')
  <2>1. K!Source.facts \in K!Point
    BY <1>5, <1>7 DEF K!Grounded, K!Proven, K!IInv, K!Shaped, K!Source
  <2> QED BY <1>3, <1>7, <2>1, GoneStays DEF K!Grounded
<1>8. K!Grounded(v6)' /\ K!Grounded(v7)'
  BY <1>2, <1>7 DEF K!IInv, K!Grounded, K!Proven, K!Gone, K!AtMost, K!Source, K!Ids
<1>9. K!Synchronized' /\ K!Activated' /\ K!NothingUndone'
  BY <1>2 DEF K!IInv, K!Synchronized, K!Activated, K!NothingUndone, K!Proven, K!Source, K!Ids, K!Revs
<1> QED BY <1>4, <1>6, <1>8, <1>9 DEF K!IInv

\* Nothing is activated, or kept, before a candidate is confirmed.
LEMMA RecoveryConsole ==
  ASSUME K!IInv, v5.as # "confirmed", UNCHANGED <<v1, v2, v3, v4, v6, v7, v8, v9, v10>>,
         DOMAIN v5' = {"source", "as", "at"}, v5'.at \in 0..K!now, v5'.source \in K!Ids,
         v5'.as = "confirmed" => v5'.source <= v5'.at
  PROVE  K!IInv'
<1>1. v6 = K!NoPlan /\ v7 = K!NoPlan
  BY DEF K!IInv, K!Grounded, K!Proven
<1>2. v10.pc = "idle"
  BY <1>1 DEF K!IInv, K!Synchronized
<1>3. \A r \in K!Revs : ~v9[r].active
  BY DEF K!IInv, K!Activated, K!Proven
<1>4. K!Shaped' /\ K!History'
  BY DEF K!IInv, K!Shaped, K!History, K!AtMost, K!now, K!Ids, K!Revs
<1>5. K!Grounded(v6)' /\ K!Grounded(v7)'
  BY <1>1 DEF K!Grounded
<1>6. K!Synchronized' /\ K!Activated' /\ K!NothingUndone'
  BY <1>2, <1>3 DEF K!IInv, K!Synchronized, K!Activated, K!NothingUndone, K!Revs
<1> QED BY <1>4, <1>5, <1>6 DEF K!IInv

LEMMA RecoveryConfirm == ASSUME K!IInv, K!Confirm PROVE K!IInv'
<1>1. v5.as = "published" /\ v5' = [v5 EXCEPT !.as = "confirmed", !.at = K!now]
      /\ UNCHANGED <<v1, v2, v3, v4, v6, v7, v8, v9, v10>>
  BY DEF K!Confirm
<1>2. DOMAIN v5 = {"source", "as", "at"} /\ v5.source \in K!Ids /\ K!now \in Nat /\ K!Ids = 1..K!now
  BY <1>1 DEF K!IInv, K!Shaped, K!now, K!Ids
<1>3. DOMAIN v5' = {"source", "as", "at"} /\ v5'.at = K!now /\ v5'.source = v5.source
  BY <1>1, <1>2
<1>4. v5'.at \in 0..K!now /\ v5'.source \in K!Ids /\ v5'.source <= v5'.at
  BY <1>2, <1>3
<1> QED BY <1>1, <1>3, <1>4, RecoveryConsole

LEMMA RecoveryPublish == ASSUME K!IInv, NEW i \in K!Ids, K!Publish(i) PROVE K!IInv'
<1>1. v5.as = "none" /\ v5' = [v5 EXCEPT !.source = i, !.as = "published"]
      /\ UNCHANGED <<v1, v2, v3, v4, v6, v7, v8, v9, v10>>
  BY DEF K!Publish
<1>2. DOMAIN v5 = {"source", "as", "at"} /\ v5.at \in 0..K!now
  BY DEF K!IInv, K!Shaped
<1>3. DOMAIN v5' = {"source", "as", "at"} /\ v5'.at = v5.at /\ v5'.source = i /\ v5'.as = "published"
  BY <1>1, <1>2
<1> QED BY <1>1, <1>2, <1>3, RecoveryConsole

\* The readings.
LEMMA RecoveryRead == ASSUME K!IInv, K!Read PROVE K!IInv'
<1>1. /\ v6 = K!NoPlan /\ v3' = [on |-> TRUE, began |-> v2, rev |-> v8.serving]
      /\ UNCHANGED <<v1, v2, v4, v5, v6, v7, v8, v9, v10>>
  BY DEF K!Read, K!Free
<1>2. v2 \in K!Point /\ v8.serving \in Nat
  BY DEF K!IInv, K!Shaped, K!Revs
<1>3. K!Shaped'
  BY <1>1, <1>2 DEF K!IInv, K!Shaped, K!now, K!Ids, K!Revs
<1>4. K!AtMost(v2, v2)
  BY <1>2 DEF K!Point, K!AtMost
<1>5. K!History'
  <2>1. K!Ids' = K!Ids
    BY <1>1 DEF K!Ids
  <2> QED BY <1>1, <1>4, <2>1 DEF K!IInv, K!History, K!AtMost
<1>6. K!Grounded(v6)' /\ K!Grounded(v7)'
  BY <1>1 DEF K!IInv, K!Grounded, K!Proven, K!Gone, K!AtMost, K!Source, K!Ids
<1>7. K!Synchronized' /\ K!Activated' /\ K!NothingUndone'
  BY <1>1 DEF K!IInv, K!Synchronized, K!Activated, K!NothingUndone, K!Proven, K!Source, K!Ids, K!Revs
<1> QED BY <1>3, <1>5, <1>6, <1>7 DEF K!IInv

LEMMA RecoveryReport == ASSUME K!IInv, K!Report PROVE K!IInv'
<1>1. v3.on /\ v3' = K!NoReading
      /\ UNCHANGED <<v1, v2, v5, v6, v7, v8, v9, v10>>
  BY DEF K!Report
<1>2. /\ v2 \in K!Point /\ v3.began \in K!Point /\ v3.rev \in Nat /\ K!now \in Nat /\ K!Ids = 1..K!now
      /\ v4 \in Seq([facts: K!Point, began: K!Point, rev: Nat])
  BY DEF K!IInv, K!Shaped, K!now, K!Ids
<1>3. v3' \in [on: BOOLEAN, began: K!Point, rev: Nat] /\ ~v3'.on
  BY <1>1 DEF K!NoReading, K!Nothing, K!Point
<1>4. CASE v4' = v4
  <2>1. K!Ids' = K!Ids /\ K!now' = K!now /\ K!Revs' = K!Revs
    BY <1>1, <1>4 DEF K!Ids, K!now, K!Revs
  <2>2. K!Shaped'
    BY <1>1, <1>3, <1>4, <2>1 DEF K!IInv, K!Shaped
  <2>3. K!History'
    BY <1>1, <1>3, <1>4, <2>1 DEF K!IInv, K!History, K!AtMost
  <2>4. K!Grounded(v6)' /\ K!Grounded(v7)'
    BY <1>1, <1>3, <1>4, <2>1 DEF K!IInv, K!Grounded, K!Proven, K!Gone, K!AtMost, K!Source
  <2>5. K!Synchronized' /\ K!Activated' /\ K!NothingUndone'
    BY <1>1, <1>4, <2>1 DEF K!IInv, K!Synchronized, K!Activated, K!NothingUndone, K!Proven, K!Source
  <2> QED BY <2>2, <2>3, <2>4, <2>5 DEF K!IInv
<1>5. CASE v4' = Append(v4, K!Observed)
  <2>1. K!Observed.facts \in K!Point /\ K!Observed.began = v3.began /\ K!Observed.rev \in Nat
        /\ K!Observed \in [facts: K!Point, began: K!Point, rev: Nat]
    BY <1>2 DEF K!Observed, K!Point
  <2>2. K!Observed.facts.pos = v3.began.pos /\ K!Observed.facts.ord = v2.ord
    BY DEF K!Observed
  <2>3. K!now' = K!now + 1 /\ K!Ids' = 1..(K!now + 1) /\ \A i \in K!Ids : v4'[i] = v4[i]
    BY <1>2, <1>5, <2>1 DEF K!now, K!Ids
  <2>4. v4'[K!now + 1] = K!Observed
    BY <1>2, <1>5, <2>1 DEF K!now
  <2>5. v4' \in Seq([facts: K!Point, began: K!Point, rev: Nat])
    BY <1>2, <1>5, <2>1
  <2>6. \A i \in K!Ids : i \in K!Ids'
    BY <1>2, <2>3
  <2>7. \A i \in K!Ids' : i \in K!Ids \/ i = K!now + 1
    BY <1>2, <2>3
  <2>8. K!Shaped'
    <3>1. v5'.at \in 0..K!now' /\ {v6', v7'} \subseteq [by: Nat, at: 0..K!now', held: BOOLEAN]
      <4>1. 0..K!now \subseteq 0..K!now'
        BY <1>2, <2>3
      <4>2. v5.at \in 0..K!now /\ {v6, v7} \subseteq [by: Nat, at: 0..K!now, held: BOOLEAN]
        BY DEF K!IInv, K!Shaped
      <4>3. ASSUME NEW p \in [by: Nat, at: 0..K!now, held: BOOLEAN] PROVE p \in [by: Nat, at: 0..K!now', held: BOOLEAN]
        BY <4>1
      <4> QED BY <1>1, <4>1, <4>2, <4>3
    <3>2. K!Revs' = K!Revs
      BY <1>1 DEF K!Revs
    <3>3. v5'.as # "none" => v5'.source \in K!Ids'
      BY <1>1, <2>6 DEF K!IInv, K!Shaped
    <3> QED BY <1>1, <1>3, <2>5, <3>1, <3>2, <3>3 DEF K!IInv, K!Shaped
  <2>9. v3.on => K!AtMost(v3.began, v2)
    BY DEF K!IInv, K!History
  <2>10. K!AtMost(K!Observed.began, K!Observed.facts) /\ K!AtMost(K!Observed.facts, v2)
    BY <1>1, <1>2, <2>1, <2>2, <2>9 DEF K!AtMost, K!Point
  <2>11. K!History'
    <3>1. ASSUME NEW i \in K!Ids'
          PROVE  /\ v4'[i].facts.pos = v4'[i].began.pos
                 /\ K!AtMost(v4'[i].began, v4'[i].facts)
                 /\ K!AtMost(v4'[i].facts, v2')
      <4>1. CASE i \in K!Ids
        BY <1>1, <2>3, <4>1 DEF K!IInv, K!History
      <4>2. CASE i = K!now + 1
        BY <1>1, <2>1, <2>2, <2>4, <2>10, <4>2
      <4> QED BY <2>7, <4>1, <4>2
    <3>2. ASSUME NEW i \in K!Ids', NEW j \in K!Ids', i < j PROVE K!AtMost(v4'[i].facts, v4'[j].began)
      <4>1. i \in K!Ids
        BY <1>2, <2>3, <3>2
      <4>2. CASE j \in K!Ids
        BY <2>3, <3>2, <4>1, <4>2 DEF K!IInv, K!History
      <4>3. CASE j = K!now + 1
        BY <1>1, <2>1, <2>3, <2>4, <4>1, <4>3 DEF K!IInv, K!History
      <4> QED BY <2>7, <4>2, <4>3
    <3> QED BY <1>3, <3>1, <3>2 DEF K!History, K!AtMost
  <2>12. v5.as = "confirmed" => K!Source' = K!Source
    BY <1>1, <2>3 DEF K!IInv, K!Shaped, K!Source
  <2>13. \A i : K!Proven(i) => K!Proven(i)'
    BY <1>1, <2>3, <2>6, <2>12 DEF K!Proven
  <2>14. ASSUME NEW p, K!Grounded(p), p # K!NoPlan
         PROVE  /\ K!Proven(p.by)' /\ v5'.at <= p.at
                /\ ~p.held => K!Gone(v2)' /\ \A i \in K!Ids' : i > p.at => K!Gone(v4[i].began)'
    <3>1. K!Proven(p.by) /\ v5.at <= p.at /\ v5.as = "confirmed"
      BY <2>14 DEF K!Grounded, K!Proven
    <3>2. K!Source' = K!Source
      BY <2>12, <3>1
    <3>3. ~p.held => K!Gone(v2)'
      BY <1>1, <2>14, <3>2 DEF K!Grounded, K!Gone, K!AtMost
    <3>4. ASSUME ~p.held, NEW i \in K!Ids', i > p.at PROVE K!Gone(v4[i].began)'
      <4>1. CASE i \in K!Ids
        BY <2>3, <2>14, <3>2, <3>4, <4>1 DEF K!Grounded, K!Gone, K!AtMost
      <4>2. CASE i = K!now + 1
        BY <1>1, <2>1, <2>4, <2>14, <3>2, <3>4, <4>2 DEF K!Grounded, K!Gone, K!AtMost
      <4> QED BY <2>7, <4>1, <4>2
    <3> QED BY <1>1, <2>13, <3>1, <3>3, <3>4
  <2>15. K!Grounded(v6)' /\ K!Grounded(v7)'
    BY <1>1, <1>3, <2>14 DEF K!IInv, K!Grounded
  <2>16. K!Synchronized' /\ K!Activated' /\ K!NothingUndone'
    BY <1>1, <2>13 DEF K!IInv, K!Synchronized, K!Activated, K!NothingUndone, K!Revs
  <2> QED BY <2>8, <2>11, <2>15, <2>16 DEF K!IInv
<1> QED BY <1>4, <1>5 DEF K!Report

\* The plan.
LEMMA RecoveryVerify == ASSUME K!IInv, NEW j \in K!Ids, K!Verify(j) PROVE K!IInv'
<1>1. /\ ~v3.on /\ v5.as = "confirmed" /\ j > v5.at /\ K!SameFacts(j)
      /\ v6' = [by |-> j, at |-> K!now, held |-> v2 = K!Source.facts]
      /\ UNCHANGED <<v1, v2, v3, v4, v5, v7, v8, v9, v10>>
  BY DEF K!Verify, K!Free, K!Reobserved
<1>2. K!Proven(j)
  BY <1>1, SameSince
<1>3. K!now \in Nat /\ K!Ids = 1..K!now /\ v5.at \in 0..K!now /\ v5.source \in K!Ids
  BY <1>1 DEF K!IInv, K!Shaped, K!now, K!Ids
<1>4. K!now' = K!now /\ K!Ids' = K!Ids /\ K!Revs' = K!Revs /\ K!Source' = K!Source
  BY <1>1 DEF K!now, K!Ids, K!Revs, K!Source
<1>5. v6' \in [by: Nat, at: 0..K!now, held: BOOLEAN]
  BY <1>1, <1>3
<1>6. K!Shaped' /\ K!History'
  BY <1>1, <1>4, <1>5 DEF K!IInv, K!Shaped, K!History, K!AtMost
<1>7. \A i : K!Proven(i)' <=> K!Proven(i)
  BY <1>1, <1>4 DEF K!Proven
<1>8. K!Grounded(v7)' /\ K!Synchronized' /\ K!Activated' /\ K!NothingUndone'
  BY <1>1, <1>4, <1>7 DEF K!IInv, K!Grounded, K!Gone, K!AtMost, K!Synchronized, K!Activated, K!NothingUndone
<1>9. K!Grounded(v6)'
  <2>1. v6'.by = j /\ v6'.at = K!now /\ (v6'.held <=> v2 = K!Source.facts)
    BY <1>1
  <2>2. \A i \in K!Ids : ~(i > K!now)
    BY <1>3
  <2>3. K!AtMost(K!Source.facts, v2)
    BY <1>3 DEF K!IInv, K!History, K!Source
  <2>4. v2 # K!Source.facts => K!Gone(v2)'
    BY <1>1, <1>4, <2>3 DEF K!Gone, K!AtMost
  <2> QED BY <1>1, <1>2, <1>3, <1>4, <1>7, <2>1, <2>2, <2>4 DEF K!Grounded
<1> QED BY <1>6, <1>8, <1>9 DEF K!IInv

LEMMA RecoveryArchive == ASSUME K!IInv, K!Archive PROVE K!IInv'
<1>1. /\ v6' = K!NoPlan /\ (v7' = v7 \/ (v7 = K!NoPlan /\ v7' = v6))
      /\ UNCHANGED <<v1, v2, v3, v4, v5, v8, v9, v10>>
  BY DEF K!Archive, K!Absent
<1>2. K!now' = K!now /\ K!Ids' = K!Ids /\ K!Revs' = K!Revs /\ K!Source' = K!Source /\ K!now \in Nat
  BY <1>1 DEF K!now, K!Ids, K!Revs, K!Source, K!IInv, K!Shaped
<1>3. K!NoPlan \in [by: Nat, at: 0..K!now, held: BOOLEAN]
  BY <1>2 DEF K!NoPlan
<1>4. K!Shaped' /\ K!History'
  BY <1>1, <1>2, <1>3 DEF K!IInv, K!Shaped, K!History, K!AtMost
<1>5. \A i : K!Proven(i)' <=> K!Proven(i)
  BY <1>1, <1>2 DEF K!Proven
<1>6. \A p : K!Grounded(p) => K!Grounded(p)'
  BY <1>1, <1>2, <1>5 DEF K!Grounded, K!Gone, K!AtMost
<1>7. K!Grounded(v6)' /\ K!Grounded(v7)'
  <2>1. K!Grounded(v6)'
    BY <1>1 DEF K!Grounded
  <2>2. K!Grounded(v7)'
    BY <1>1, <1>2, <1>5 DEF K!IInv, K!Grounded, K!Gone, K!AtMost
  <2> QED BY <2>1, <2>2
<1>8. v7 # K!NoPlan => v7' = v7
  BY <1>1
<1>9. K!NoPlan.held = FALSE
  BY DEF K!NoPlan
<1>10. K!Synchronized'
  BY <1>1, <1>5, <1>8 DEF K!IInv, K!Synchronized
<1>11. K!Activated' /\ K!NothingUndone'
  BY <1>1, <1>2, <1>5, <1>8, <1>9 DEF K!IInv, K!Activated, K!NothingUndone
<1> QED BY <1>4, <1>7, <1>10, <1>11 DEF K!IInv

\* What serves.
LEMMA RecoveryService ==
  ASSUME K!IInv, UNCHANGED K!others, NEW r \in [active: BOOLEAN, by: Nat, on: BOOLEAN],
         v9' = Append(v9, r), r.active => K!Proven(r.by) /\ (v1 => v7.held),
         DOMAIN v8' = DOMAIN v8, v8'.serving \in K!Revs \/ v8'.serving = Len(v9) + 1,
         v8'.latest = Len(v9) + 1, v8'.undone = v8.undone,
         \/ v10' = v10 \/ v10' = K!NoSync
         \/ v10.pc = "valid" /\ v10' = [v10 EXCEPT !.pc = "staged", !.rev = Len(v9) + 1]
  PROVE  K!IInv'
<1>1. UNCHANGED <<v1, v2, v3, v4, v5, v6, v7>>
  BY DEF K!others
<1>2. K!now' = K!now /\ K!Ids' = K!Ids /\ K!Source' = K!Source
  BY <1>1 DEF K!now, K!Ids, K!Source
<1>3. \A i : K!Proven(i)' <=> K!Proven(i)
  BY <1>1, <1>2 DEF K!Proven
<1>4. v9 \in Seq([active: BOOLEAN, by: Nat, on: BOOLEAN]) /\ Len(v9) \in Nat /\ {1, v8.serving, v8.latest} \subseteq K!Revs
      /\ DOMAIN v10 = DOMAIN K!NoSync /\ v10.by \in Nat
  BY DEF K!IInv, K!Shaped
<1>5. v9' \in Seq([active: BOOLEAN, by: Nat, on: BOOLEAN]) /\ Len(v9') = Len(v9) + 1
  BY <1>4
<1>6. /\ K!Revs' = 1..(Len(v9) + 1) /\ K!Revs = 1..Len(v9)
      /\ \A k \in K!Revs : v9'[k] = v9[k]
  BY <1>4, <1>5 DEF K!Revs
<1>7. v9'[Len(v9) + 1] = r
  BY <1>4
<1>8. K!Revs \subseteq K!Revs' /\ Len(v9) + 1 \in K!Revs' /\ \A k \in K!Revs' : k \in K!Revs \/ k = Len(v9) + 1
  BY <1>4, <1>6
<1>9. K!Shaped'
  <2>1. DOMAIN v10' = DOMAIN K!NoSync /\ v10'.by \in Nat /\ (v10'.pc \in {"staged", "adopt"} => v10'.rev \in K!Revs')
    <3>1. CASE v10' = v10
      BY <1>4, <1>8, <3>1 DEF K!IInv, K!Shaped
    <3>2. CASE v10' = K!NoSync
      BY <3>2 DEF K!NoSync
    <3>3. CASE v10' = [v10 EXCEPT !.pc = "staged", !.rev = Len(v9) + 1]
      BY <1>4, <1>8, <3>3 DEF K!NoSync
    <3> QED BY <3>1, <3>2, <3>3
  <2>2. {1, v8'.serving, v8'.latest} \subseteq K!Revs' /\ DOMAIN v8' = {"version", "serving", "latest", "undone"}
    BY <1>4, <1>8 DEF K!IInv, K!Shaped
  <2> QED BY <1>1, <1>2, <1>5, <2>1, <2>2 DEF K!IInv, K!Shaped
<1>10. K!History' /\ K!Grounded(v6)' /\ K!Grounded(v7)'
  BY <1>1, <1>2, <1>3 DEF K!IInv, K!History, K!Grounded, K!Gone, K!AtMost
<1>11. K!Activated'
  <2>1. ASSUME NEW k \in K!Revs', v9'[k].active PROVE K!Proven(v9[k].by)' /\ (v1' => v7'.held)
    <3>1. CASE k \in K!Revs
      <4>1. v9'[k] = v9[k] /\ v9[k].active
        BY <1>6, <2>1, <3>1
      <4>2. K!Proven(v9[k].by) /\ (v1 => v7.held)
        BY <3>1, <4>1 DEF K!IInv, K!Activated
      <4> QED BY <1>1, <1>2, <4>1, <4>2 DEF K!Proven
    <3>2. CASE k = Len(v9) + 1
      <4>1. v9'[k] = r /\ r.active
        BY <1>7, <2>1, <3>2
      <4> QED BY <1>1, <1>2, <4>1 DEF K!Proven
    <3> QED BY <1>8, <3>1, <3>2
  <2> QED BY <2>1 DEF K!Activated
<1>12. K!Synchronized'
  <2>1. CASE v10' = v10
    BY <1>1, <1>3, <2>1 DEF K!IInv, K!Synchronized
  <2>2. CASE v10' = K!NoSync
    BY <2>2 DEF K!Synchronized, K!NoSync
  <2>3. CASE v10.pc = "valid" /\ v10' = [v10 EXCEPT !.pc = "staged", !.rev = Len(v9) + 1]
    <3>1. v10'.pc = "staged" /\ v10'.by = v10.by
      BY <1>4, <2>3 DEF K!NoSync
    <3> QED BY <1>1, <1>3, <2>3, <3>1 DEF K!IInv, K!Synchronized
  <2> QED BY <2>1, <2>2, <2>3
<1> QED BY <1>9, <1>10, <1>11, <1>12 DEF K!IInv, K!NothingUndone

LEMMA RecoveryDeploy == ASSUME K!IInv, K!Deploy PROVE K!IInv'
<1>1. PICK on \in BOOLEAN, from \in {1, v8.latest} : K!Serves([v9[from] EXCEPT !.on = on])
  BY DEF K!Deploy
<1> DEFINE r == [v9[from] EXCEPT !.on = on]
<1>2. UNCHANGED K!others /\ v10' = v10
  BY DEF K!Deploy, K!others
<1>3. from \in K!Revs /\ DOMAIN v8 = {"version", "serving", "latest", "undone"}
  BY DEF K!IInv, K!Shaped
<1>4. v9[from] \in [active: BOOLEAN, by: Nat, on: BOOLEAN]
  <2>1. v9 \in Seq([active: BOOLEAN, by: Nat, on: BOOLEAN])
    BY DEF K!IInv, K!Shaped
  <2> QED BY <1>3, <2>1, ItemIs DEF K!Revs
<1>5. r \in [active: BOOLEAN, by: Nat, on: BOOLEAN] /\ r.active = v9[from].active /\ r.by = v9[from].by
  BY <1>4
<1>6. r.active => K!Proven(r.by) /\ (v1 => v7.held)
  BY <1>3, <1>5 DEF K!IInv, K!Activated
<1>7. v9' = Append(v9, r) /\ v8' = [v8 EXCEPT !.version = @ + 1, !.serving = Len(v9) + 1, !.latest = Len(v9) + 1]
  BY <1>1 DEF K!Serves
<1>8. DOMAIN v8' = DOMAIN v8 /\ v8'.serving = Len(v9) + 1 /\ v8'.latest = Len(v9) + 1 /\ v8'.undone = v8.undone
  BY <1>3, <1>7
<1> HIDE DEF r
<1> QED BY <1>2, <1>5, <1>6, <1>7, <1>8, RecoveryService

LEMMA RecoverySync == ASSUME K!IInv, K!Sync PROVE K!IInv'
<1> DEFINE r == [active |-> TRUE, by |-> v7.by, on |-> v9[v8.serving].on]
<1>1. ~v1 /\ v7 # K!NoPlan /\ K!Serves(r) /\ UNCHANGED K!others /\ v10' = v10
  BY DEF K!Sync
<1>2. v8.serving \in K!Revs /\ DOMAIN v8 = {"version", "serving", "latest", "undone"}
  BY DEF K!IInv, K!Shaped
<1>3. v9[v8.serving] \in [active: BOOLEAN, by: Nat, on: BOOLEAN] /\ v7.by \in Nat
  <2>1. v9 \in Seq([active: BOOLEAN, by: Nat, on: BOOLEAN]) /\ v7 \in [by: Nat, at: 0..K!now, held: BOOLEAN]
    BY DEF K!IInv, K!Shaped
  <2>2. v9[v8.serving] \in [active: BOOLEAN, by: Nat, on: BOOLEAN]
    BY <1>2, <2>1, ItemIs DEF K!Revs
  <2> QED BY <2>1, <2>2
<1>4. r \in [active: BOOLEAN, by: Nat, on: BOOLEAN] /\ r.by = v7.by
  BY <1>3
<1>5. K!Proven(r.by)
  BY <1>1, <1>4 DEF K!IInv, K!Grounded
<1>6. v9' = Append(v9, r) /\ v8' = [v8 EXCEPT !.version = @ + 1, !.serving = Len(v9) + 1, !.latest = Len(v9) + 1]
  BY <1>1 DEF K!Serves
<1>7. DOMAIN v8' = DOMAIN v8 /\ v8'.serving = Len(v9) + 1 /\ v8'.latest = Len(v9) + 1 /\ v8'.undone = v8.undone
  BY <1>2, <1>6
<1> HIDE DEF r
<1> QED BY <1>1, <1>4, <1>5, <1>6, <1>7, RecoveryService

LEMMA RecoveryStage == ASSUME K!IInv, K!Stage PROVE K!IInv'
<1> DEFINE r == [active |-> TRUE, by |-> v10.by, on |-> FALSE]
<1>1. /\ v10.pc = "valid" /\ v8.version = v10.version /\ v9' = Append(v9, r) /\ UNCHANGED K!others
      /\ v8' = [K!Written EXCEPT !.latest = Len(v9) + 1]
      /\ (v10' = [v10 EXCEPT !.pc = "staged", !.rev = Len(v9) + 1] \/ v10' = K!NoSync)
  BY DEF K!Stage, K!SameVersion
<1>2. v8.serving \in K!Revs /\ DOMAIN v8 = {"version", "serving", "latest", "undone"} /\ v10.by \in Nat
  BY DEF K!IInv, K!Shaped
<1>3. r \in [active: BOOLEAN, by: Nat, on: BOOLEAN] /\ r.by = v10.by
  BY <1>2
<1>4. K!Proven(r.by) /\ v7.held
  BY <1>1, <1>3 DEF K!IInv, K!Synchronized
<1>5. v8' = [v8 EXCEPT !.version = @ + 1, !.undone = @ \/ FALSE, !.latest = Len(v9) + 1]
  BY <1>1, <1>2 DEF K!Written
<1>6. DOMAIN v8' = DOMAIN v8 /\ v8'.serving = v8.serving /\ v8'.latest = Len(v9) + 1
  BY <1>2, <1>5
<1>7. v8.undone = FALSE
  BY DEF K!IInv, K!NothingUndone
<1>8. v8'.undone = v8.undone
  BY <1>2, <1>5, <1>7
<1> HIDE DEF r
<1> QED BY <1>1, <1>2, <1>3, <1>4, <1>6, <1>8, RecoveryService

\* The synchronization of a first enrolment.
LEMMA RecoverySteps ==
  ASSUME K!IInv, UNCHANGED <<K!others, v9>>, DOMAIN v8' = DOMAIN v8, v8'.undone = v8.undone,
         {v8'.serving, v8'.latest} \subseteq K!Revs, DOMAIN v10' = DOMAIN K!NoSync, v10'.by \in Nat,
         v10'.pc \in {"staged", "adopt"} => v10'.rev \in K!Revs,
         v10'.pc # "idle" => v1 /\ v7 # K!NoPlan,
         v10'.pc \notin {"idle", "read"} => K!Proven(v10'.by) /\ v7.held
  PROVE  K!IInv'
<1>1. UNCHANGED <<v1, v2, v3, v4, v5, v6, v7>>
  BY DEF K!others
<1>2. K!now' = K!now /\ K!Ids' = K!Ids /\ K!Source' = K!Source /\ K!Revs' = K!Revs
  BY <1>1 DEF K!now, K!Ids, K!Source, K!Revs
<1>3. \A i : K!Proven(i)' <=> K!Proven(i)
  BY <1>1, <1>2 DEF K!Proven
<1>4. K!Shaped'
  BY <1>1, <1>2 DEF K!IInv, K!Shaped
<1>5. K!History' /\ K!Grounded(v6)' /\ K!Grounded(v7)'
  BY <1>1, <1>2, <1>3 DEF K!IInv, K!History, K!Grounded, K!Gone, K!AtMost
<1>6. K!Synchronized' /\ K!Activated' /\ K!NothingUndone'
  BY <1>1, <1>2, <1>3 DEF K!IInv, K!Synchronized, K!Activated, K!NothingUndone
<1> QED BY <1>4, <1>5, <1>6 DEF K!IInv

LEMMA RecoveryBaseline == ASSUME K!IInv, K!Baseline PROVE K!IInv'
<1>1. /\ v1 /\ v7 # K!NoPlan /\ UNCHANGED <<K!others, v8, v9>>
      /\ v10' = [K!NoSync EXCEPT !.pc = "read", !.version = v8.version, !.base = v8.serving]
  BY DEF K!Baseline
<1>2. DOMAIN v10' = DOMAIN K!NoSync /\ v10'.by = 0 /\ v10'.pc = "read"
  BY <1>1 DEF K!NoSync
<1>3. {v8.serving, v8.latest} \subseteq K!Revs
  BY DEF K!IInv, K!Shaped
<1> QED BY <1>1, <1>2, <1>3, RecoverySteps

LEMMA RecoveryValidate == ASSUME K!IInv, NEW j \in K!Ids, K!Validate(j) PROVE K!IInv'
<1>1. /\ v10.pc = "read" /\ K!SameFacts(j) /\ j > v7.at /\ UNCHANGED <<K!others, v8, v9>>
      /\ v10' = [v10 EXCEPT !.pc = "valid", !.by = j]
  BY DEF K!Validate, K!ShownSince, K!Shown
<1>2. DOMAIN v10 = DOMAIN K!NoSync /\ {v8.serving, v8.latest} \subseteq K!Revs
  BY DEF K!IInv, K!Shaped
<1>3. DOMAIN v10' = DOMAIN K!NoSync /\ v10'.by = j /\ v10'.pc = "valid"
  BY <1>1, <1>2 DEF K!NoSync
<1>4. v1 /\ v7 # K!NoPlan /\ K!Proven(v7.by) /\ v5.at <= v7.at
  BY <1>1 DEF K!IInv, K!Synchronized, K!Grounded
<1>5. v5.as = "confirmed" /\ v7.at \in Nat /\ v5.at \in Nat /\ j \in Nat /\ K!now \in Nat
  BY <1>4 DEF K!IInv, K!Shaped, K!Proven, K!Ids, K!now
<1>6. j > v5.at
  BY <1>1, <1>4, <1>5
<1>7. K!Proven(j)
  BY <1>1, <1>5, <1>6, SameSince
<1>8. v7.held
  BY <1>1, <1>4, <1>7 DEF K!IInv, K!Grounded, K!Gone, K!Proven
<1> QED BY <1>1, <1>2, <1>3, <1>4, <1>5, <1>7, <1>8, RecoverySteps

LEMMA RecoveryAgain == ASSUME K!IInv, K!ReadAgain PROVE K!IInv'
<1>1. v10.pc = "staged" /\ UNCHANGED <<K!others, v8, v9>> /\ v10' = [v10 EXCEPT !.pc = "adopt", !.version = v8.version]
  BY DEF K!ReadAgain
<1>2. DOMAIN v10 = DOMAIN K!NoSync /\ {v8.serving, v8.latest} \subseteq K!Revs /\ v10.by \in Nat /\ v10.rev \in K!Revs
  BY <1>1 DEF K!IInv, K!Shaped
<1>3. DOMAIN v10' = DOMAIN K!NoSync /\ v10'.by = v10.by /\ v10'.pc = "adopt" /\ v10'.rev = v10.rev
  BY <1>1, <1>2 DEF K!NoSync
<1>4. v1 /\ v7 # K!NoPlan /\ K!Proven(v10.by) /\ v7.held
  BY <1>1 DEF K!IInv, K!Synchronized
<1> QED BY <1>1, <1>2, <1>3, <1>4, RecoverySteps

LEMMA RecoveryAdopt == ASSUME K!IInv, K!Adopt PROVE K!IInv'
<1>1. /\ v10.pc = "adopt" /\ v8.version = v10.version /\ UNCHANGED <<K!others, v9>> /\ v10' = K!NoSync
      /\ v8' = [K!Written EXCEPT !.serving = v10.rev]
  BY DEF K!Adopt, K!SameVersion
<1>2. DOMAIN v8 = {"version", "serving", "latest", "undone"} /\ v8.latest \in K!Revs /\ v10.rev \in K!Revs
  BY <1>1 DEF K!IInv, K!Shaped
<1>3. v8' = [v8 EXCEPT !.version = @ + 1, !.undone = @ \/ FALSE, !.serving = v10.rev]
  BY <1>1, <1>2 DEF K!Written
<1>4. DOMAIN v8' = DOMAIN v8 /\ v8'.serving = v10.rev /\ v8'.latest = v8.latest
  BY <1>2, <1>3
<1>5. v8.undone = FALSE
  BY DEF K!IInv, K!NothingUndone
<1>6. v8'.undone = v8.undone
  BY <1>2, <1>3, <1>5
<1>7. v10'.pc = "idle" /\ v10'.by = 0
  BY <1>1 DEF K!NoSync
<1> QED BY <1>1, <1>2, <1>4, <1>6, <1>7, RecoverySteps

LEMMA RecoveryStop == ASSUME K!IInv, K!Stop PROVE K!IInv'
<1>1. UNCHANGED <<K!others, v8, v9>> /\ v10' = K!NoSync
  BY DEF K!Stop
<1>2. {v8.serving, v8.latest} \subseteq K!Revs /\ v10'.pc = "idle" /\ v10'.by = 0
  BY <1>1 DEF K!IInv, K!Shaped, K!NoSync
<1> QED BY <1>1, <1>2, RecoverySteps

LEMMA RecoveryStep == ASSUME K!IInv, K!Next \/ UNCHANGED vars PROVE K!IInv'
<1>1. CASE UNCHANGED vars
  <2>1. UNCHANGED <<K!others, v8, v9, v10>>
    BY <1>1 DEF vars, K!others
  <2>2. /\ {v8.serving, v8.latest} \subseteq K!Revs /\ DOMAIN v10 = DOMAIN K!NoSync /\ v10.by \in Nat
        /\ v10.pc \in {"staged", "adopt"} => v10.rev \in K!Revs
    BY DEF K!IInv, K!Shaped
  <2>3. /\ v10.pc # "idle" => v1 /\ v7 # K!NoPlan
        /\ v10.pc \notin {"idle", "read"} => K!Proven(v10.by) /\ v7.held
    BY DEF K!IInv, K!Synchronized
  <2> QED BY <2>1, <2>2, <2>3, RecoverySteps
<1>2. CASE K!Next
  BY <1>2, RecoveryTrade, RecoveryDeploy, RecoveryConfirm, RecoveryRead, RecoveryReport, RecoveryArchive,
     RecoverySync, RecoveryBaseline, RecoveryPublish, RecoveryVerify, RecoveryValidate, RecoveryStage,
     RecoveryAgain, RecoveryAdopt, RecoveryStop DEF K!Next
<1> QED BY <1>1, <1>2

\* What is active was held, as the invariant says.
LEMMA RecoveryHolds == ASSUME K!IInv PROVE K!ActiveWasHeld /\ K!VerifiedWasHeld /\ K!NothingUndone
BY DEF K!IInv, K!Activated, K!Proven, K!ActiveWasHeld, K!VerifiedWasHeld

LEMMA RecoveryYields == ASSUME K!Next \/ UNCHANGED vars PROVE K!LedgerStands
<1> SUFFICES ASSUME v7 # K!NoPlan PROVE v7' = v7
  BY DEF K!LedgerStands
<1>1. CASE UNCHANGED vars
  BY <1>1 DEF vars
<1>2. CASE K!Archive
  BY <1>2 DEF K!Archive, K!Absent
<1>3. CASE K!Trade \/ K!Deploy \/ K!Confirm \/ K!Read \/ K!Report
  BY <1>3 DEF K!Trade, K!Deploy, K!Confirm, K!Read, K!Report
<1>4. CASE K!Sync \/ K!Baseline \/ K!Stage \/ K!ReadAgain \/ K!Adopt \/ K!Stop
  BY <1>4 DEF K!Sync, K!Baseline, K!Stage, K!ReadAgain, K!Adopt, K!Stop, K!others
<1>5. CASE \E i \in K!Ids : K!Publish(i) \/ K!Verify(i) \/ K!Validate(i)
  BY <1>5 DEF K!Publish, K!Verify, K!Validate, K!others
<1> QED BY <1>1, <1>2, <1>3, <1>4, <1>5 DEF K!Next

----------------------------------------------------------------------------
(* The revision of run_pilot_cloud_tcp.py.                                 *)

LEMMA SpareInit == ASSUME R!Init PROVE R!IInv
BY DEF R!Init, R!Fresh, R!IInv, R!Versioned

LEMMA SpareStart == ASSUME R!IInv, R!Start PROVE R!IInv'
BY DEF R!IInv, R!Versioned, R!Start, R!cloudState, R!Fresh, R!OursStill, R!Unused

\* A step that leaves the service alone.
LEMMA SpareReads ==
  ASSUME R!IInv, R!Prepare \/ R!Wait \/ R!Measure \/ R!Raise \/ R!Restore \/ R!Readback \/ R!Fail \/ R!StartCleanup \/ R!Tidy \/ R!Recheck
                 \/ R!GiveUpTidying \/ R!Kill \/ R!Delete \/ R!Remove \/ UNCHANGED vars
  PROVE  R!IInv' /\ UNCHANGED v1 /\ (v2' = v2 \/ v4 \in {"delete", "remove"})
<1>1. UNCHANGED <<v1, v3, v5>> /\ (v6' = v6 \/ v6' = v1)
  BY DEF R!Prepare, R!Wait, R!Measure, R!Raise, R!Restore, R!Readback, R!Fail, R!StartCleanup, R!Tidy, R!Recheck, R!GiveUpTidying, R!Kill,
         R!Delete, R!Remove, R!DeleteFrom, R!cloudState, vars
<1>2. R!Versioned'
  BY <1>1 DEF R!IInv, R!Versioned
<1>3. v4' = "idle" => v4 = "idle"
  BY DEF R!Prepare, R!Wait, R!Measure, R!Raise, R!Restore, R!Readback, R!Fail, R!StartCleanup, R!Tidy, R!Recheck, R!GiveUpTidying, R!Kill,
         R!Delete, R!Remove, R!DeleteFrom, vars
<1>4. v4' = "put" => R!OursStill(v6)'
  BY <1>1 DEF R!Prepare, R!Wait, R!Measure, R!Raise, R!Restore, R!Readback, R!Fail, R!StartCleanup, R!Tidy, R!Recheck, R!GiveUpTidying, R!Kill,
         R!Delete, R!Remove, R!DeleteFrom, vars, R!IInv, R!OursStill, R!Protected
<1>5. v4' \in {"delete", "remove"} => R!Unused'
  BY <1>1 DEF R!Prepare, R!Wait, R!Measure, R!Raise, R!Restore, R!Readback, R!Fail, R!StartCleanup, R!Tidy, R!Recheck, R!GiveUpTidying, R!Kill,
         R!Delete, R!Remove, R!DeleteFrom, vars, R!IInv, R!Unused
<1>6. v2' = v2 \/ v4 \in {"delete", "remove"}
  BY DEF R!Prepare, R!Wait, R!Measure, R!Raise, R!Restore, R!Readback, R!Fail, R!StartCleanup, R!Tidy, R!Recheck, R!GiveUpTidying, R!Kill,
         R!Delete, R!Remove, R!DeleteFrom, R!cloudState, vars
<1> QED BY <1>1, <1>2, <1>3, <1>4, <1>5, <1>6 DEF R!IInv

LEMMA SpareDeploy == ASSUME R!IInv, R!Deploy PROVE R!IInv' /\ R!TheirsStands /\ v2' \in {v2, "starting"}
<1>1. UNCHANGED <<v5, v6>> /\ v4' \in {"wait", "restore"} /\ v2' \in {v2, "starting"}
  BY DEF R!Deploy, R!cloudState
<1>2. CASE v1' = v1
  BY <1>1, <1>2 DEF R!IInv, R!Versioned, R!TheirsStands
<1>3. CASE R!AtVersion(v5) /\ v1' = [v1 EXCEPT !.template = "probe", !.route = TRUE, !.rv = @ + 1]
  <2>1. v1.template = "base"
    BY <1>3 DEF R!AtVersion, R!IInv, R!Versioned
  <2>2. DOMAIN v1' = DOMAIN v1 /\ v1'.rv = v1.rv + 1 /\ v1'.rest = v1.rest
    BY <1>3 DEF R!IInv, R!Versioned, R!Fresh
  <2> QED BY <1>1, <2>1, <2>2 DEF R!IInv, R!Versioned, R!TheirsStands
<1> QED BY <1>2, <1>3 DEF R!Deploy, R!cloudState

LEMMA SparePut == ASSUME R!IInv, R!Put PROVE R!IInv' /\ R!TheirsStands /\ v2' = v2
<1>1. UNCHANGED <<v5, v6, v2>> /\ v4' \in {"readback", "again"} /\ v4 = "put"
  BY DEF R!Put
<1>2. CASE v1' = v1
  BY <1>1, <1>2 DEF R!IInv, R!Versioned, R!TheirsStands
<1>3. CASE R!AtVersion(v6) /\ v1' = [v5 EXCEPT !.rv = v1.rv + 1]
  <2>1. v1.rest = v5.rest /\ v1.template = "probe"
    BY <1>1, <1>3 DEF R!AtVersion, R!IInv, R!Versioned, R!OursStill, R!Protected
  <2>2. DOMAIN v1' = DOMAIN v1 /\ v1'.rv = v1.rv + 1 /\ v1'.rest = v5.rest
    BY <1>3 DEF R!IInv, R!Versioned, R!Fresh
  <2> QED BY <1>1, <2>1, <2>2 DEF R!IInv, R!Versioned, R!TheirsStands
<1> QED BY <1>2, <1>3 DEF R!Put

LEMMA SpareOthers == ASSUME R!IInv, R!Others PROVE R!IInv' /\ R!TheirsStands /\ v2' = v2
<1>1. UNCHANGED <<v2, v4, v5, v6>> /\ v4 # "idle"
  BY DEF R!Others
<1>2. /\ DOMAIN v1' = DOMAIN v1 /\ v1'.rv = v1.rv + 1 /\ v1'.rest \in {v1.rest, v1.rest + 1} /\ v1'.route = v1.route
      /\ v1'.template \in {v1.template, "theirs"} /\ (v3' = v3 \/ v3' = FALSE)
  BY DEF R!Others, R!IInv, R!Versioned, R!Fresh
<1> QED BY <1>1, <1>2 DEF R!IInv, R!Versioned, R!TheirsStands, R!OursStill, R!Protected, R!Unused

LEMMA SpareProvider == ASSUME R!IInv, R!Provider PROVE R!IInv' /\ R!TheirsStands /\ (v2' = v2 \/ v2' = "ready")
BY DEF R!Provider, R!IInv, R!Versioned, R!TheirsStands, R!OursStill, R!Protected, R!Unused

LEMMA SpareStep ==
  ASSUME R!IInv, R!Next \/ UNCHANGED vars
  PROVE  R!IInv' /\ R!TheirsStands /\ R!InUseStands
<1>1. CASE R!Start
  BY <1>1, SpareStart DEF R!Start, R!cloudState, R!TheirsStands, R!InUseStands, R!IInv, R!Versioned
<1>2. ASSUME R!IInv', UNCHANGED v1, v2' = v2 \/ v4 \in {"delete", "remove"} PROVE R!IInv' /\ R!TheirsStands /\ R!InUseStands
  BY <1>2 DEF R!TheirsStands, R!InUseStands, R!IInv, R!Versioned, R!Unused
<1> QED BY <1>1, <1>2, SpareReads, SpareDeploy, SparePut, SpareOthers, SpareProvider DEF R!Next, R!Going, R!InUseStands

----------------------------------------------------------------------------
(* The switch of a live service.                                           *)

LEMMA WholeDomain ==
  ASSUME NEW c, O!Whole(c)
  PROVE  DOMAIN c = {"on", "target", "force", "opt", "extra"}
BY DEF O!Whole

LEMMA SwitchInit == ASSUME O!Init PROVE O!IInv
<1>1. PICK i \in Wanted :
        O!Admitted(i) /\ v3 = i /\ v4 = O!Applied([on |-> "on", target |-> "active", force |-> FALSE, opt |-> "-", extra |-> FALSE], i)
  BY DEF O!Init
<1>2. O!Whole(v4)
  BY <1>1 DEF O!Whole, O!Applied, O!Set
<1>3. v5 = v4 /\ v6 = [tmpl |-> v4, serving |-> v4, at |-> "base", latest |-> "base"] /\ v1 = "idle"
  BY DEF O!Init
<1> QED BY <1>1, <1>2, <1>3 DEF O!IInv

LEMMA SwitchDispatch == ASSUME O!IInv, O!Dispatch PROVE O!IInv' /\ v6' = v6
<1>1. /\ v4' = v6.serving /\ v5' = v6.serving /\ v6' = v6 /\ v1' \in {"update", "jobs", "read"}
      /\ (v2' # "switch" => O!Admitted(v3)') /\ (v1' = "update" => v2' # "switch")
  BY DEF O!Dispatch, O!Go, O!Plannable
<1> QED BY <1>1 DEF O!IInv

LEMMA SwitchRead == ASSUME O!IInv, O!Read PROVE O!IInv' /\ v6'.at = "base"
<1>1. /\ v4' = v6.serving /\ UNCHANGED <<v2, v3, v5>> /\ v1' = IF v2 = "switch" THEN "check" ELSE "update"
      /\ v6' = [v6 EXCEPT !.at = "base", !.latest = "base"]
  BY DEF O!Read, O!Go
<1>2. DOMAIN v6' = DOMAIN v6 /\ v6'.tmpl = v6.tmpl /\ v6'.serving = v6.serving /\ v6'.at = "base"
  BY <1>1 DEF O!IInv
<1> QED BY <1>1, <1>2 DEF O!IInv, O!Admitted

LEMMA SwitchUpdate == ASSUME O!IInv, O!Update PROVE O!IInv' /\ v6'.at = v6.at
<1>1. /\ v5' = O!Updated(v6.tmpl) /\ UNCHANGED <<v2, v3, v4, v8, v9>> /\ v1' \in {"idle", "route"}
      /\ v6' = [v6 EXCEPT !.tmpl = O!Updated(v6.tmpl), !.latest = "cand"] /\ v1 = "update"
  BY DEF O!Update, O!Go, O!At
<1>2. DOMAIN v6.tmpl = {"on", "target", "force", "opt", "extra"} /\ O!Whole(v6.tmpl)
  BY WholeDomain DEF O!IInv
<1>3. O!Whole(v5') /\ (v2 # "switch" => v5'.on = v3.on /\ v5'.force = v3.force)
  <2>1. CASE v2 = "switch"
    <3>1. v5' = [v6.tmpl EXCEPT !.on = v3.on]
      BY <1>1, <2>1 DEF O!Updated
    <3> QED BY <1>2, <2>1, <3>1 DEF O!Whole
  <2>2. CASE v2 # "switch"
    <3>1. v5' = [v6.tmpl EXCEPT !.on = v3.on, !.target = v3.target, !.force = v3.force, !.opt = O!Layered(v3)]
      BY <1>1, <2>2 DEF O!Updated, O!Applied, O!Set
    <3> QED BY <1>2, <3>1 DEF O!Whole
  <2> QED BY <2>1, <2>2
<1>4. DOMAIN v6' = DOMAIN v6 /\ v6'.tmpl = v5' /\ v6'.serving = v6.serving /\ v6'.at = v6.at
  BY <1>1 DEF O!IInv
<1> QED BY <1>1, <1>3, <1>4 DEF O!IInv, O!Admitted

\* What is routed is what served, but for the switch.
LEMMA SwitchShift == ASSUME O!IInv, O!Shift PROVE O!IInv' /\ O!SwitchedAlone /\ O!NeverForcedLive
<1>1. /\ UNCHANGED <<v2, v3, v4, v5, v8, v9>> /\ v1 = "shift" /\ v1' = "verify"
      /\ v6' = [v6 EXCEPT !.serving = v5, !.at = "cand"]
  BY DEF O!Shift, O!Go, O!At
<1>2. DOMAIN v6' = DOMAIN v6 /\ v6'.tmpl = v6.tmpl /\ v6'.serving = v5
  BY <1>1 DEF O!IInv
<1>3. O!IInv'
  BY <1>1, <1>2 DEF O!IInv, O!Admitted
<1>4. O!SwitchedAlone
  <2> SUFFICES ASSUME v2 = "switch"
               PROVE  v5 = [v4 EXCEPT !.on = v3.on] /\ (v3.on = "off" /\ ~v8 => ~v9)
    BY <1>2 DEF O!SwitchedAlone
  <2>1. v5.on = v3.on /\ [v5 EXCEPT !.on = v4.on] = v4
    BY <1>1 DEF O!IInv, O!SwitchAlone
  <2>2. O!Whole(v5) /\ O!Whole(v4)
    BY DEF O!IInv
  <2>3. v4.target = v5.target /\ v4.force = v5.force /\ v4.opt = v5.opt /\ v4.extra = v5.extra
    BY <2>1, <2>2 DEF O!Whole
  <2>4. [v4 EXCEPT !.on = v3.on] = [on |-> v3.on, target |-> v4.target, force |-> v4.force, opt |-> v4.opt, extra |-> v4.extra]
    BY <2>2 DEF O!Whole
  <2> QED BY <1>1, <2>1, <2>2, <2>3, <2>4 DEF O!IInv, O!Whole
<1>5. O!NeverForcedLive
  BY <1>1, <1>2 DEF O!NeverForcedLive, O!IInv, O!Admitted, O!ForcedLive, O!Enabled
<1> QED BY <1>3, <1>4, <1>5

LEMMA SwitchOther == ASSUME O!IInv, O!Other PROVE O!IInv' /\ (v6'.at = v6.at \/ v6'.at = "other")
<1>1. UNCHANGED <<v1, v2, v3, v4, v5, v11>> /\ v8'
  BY DEF O!Other
<1>2. \/ v6' = v6 /\ v7' = v7
      \/ v6' = [v6 EXCEPT !.tmpl.extra = ~v6.tmpl.extra, !.latest = "other"] /\ v7' = FALSE
      \/ v6' = [v6 EXCEPT !.serving = v6.tmpl, !.at = "other"] /\ v7' = FALSE
  BY DEF O!Other
<1>3. CASE v6' = v6 /\ v7' = v7
  BY <1>1, <1>3 DEF O!IInv, O!Admitted, O!SwitchAlone, O!ServesWanted
<1>4. CASE v6' = [v6 EXCEPT !.tmpl.extra = ~v6.tmpl.extra, !.latest = "other"] /\ v7' = FALSE
  <2>1. DOMAIN v6' = DOMAIN v6 /\ v6'.serving = v6.serving /\ v6'.at = v6.at /\ v6'.tmpl = [v6.tmpl EXCEPT !.extra = ~v6.tmpl.extra]
    BY <1>4 DEF O!IInv
  <2>2. O!Whole(v6.tmpl)
    BY DEF O!IInv
  <2>3. O!Whole(v6'.tmpl)
    BY <2>1, <2>2 DEF O!Whole
  <2> QED BY <1>1, <1>4, <2>1, <2>3 DEF O!IInv, O!Admitted, O!SwitchAlone
<1>5. CASE v6' = [v6 EXCEPT !.serving = v6.tmpl, !.at = "other"] /\ v7' = FALSE
  <2>1. DOMAIN v6' = DOMAIN v6 /\ v6'.serving = v6.tmpl /\ v6'.at = "other" /\ v6'.tmpl = v6.tmpl
    BY <1>5 DEF O!IInv
  <2> QED BY <1>1, <1>5, <2>1 DEF O!IInv, O!Admitted, O!SwitchAlone
<1> QED BY <1>2, <1>3, <1>4, <1>5

\* A step that leaves the service alone.
LEMMA SwitchSame ==
  ASSUME O!IInv, O!Check \/ O!Stop \/ O!Pause \/ O!Paused \/ O!Again \/ O!Route \/ O!Verify \/ O!Sched \/ O!Unchanged \/ O!SetJob \/ O!Readback
                 \/ O!SyncMain \/ O!SyncPre \/ O!Synced \/ O!Fail \/ UNCHANGED vars
  PROVE  O!IInv' /\ v6' = v6
<1>1. UNCHANGED <<v2, v3, v4, v5, v6, v8>>
  BY DEF O!Check, O!Stop, O!Pause, O!Paused, O!Again, O!Route, O!Verify, O!Sched, O!Unchanged, O!SetJob, O!Readback, O!SyncMain, O!SyncPre,
         O!Synced, O!Fail, vars
<1>2. v1' \in {"route", "shift"} => v1' = v1 \/ (v1 = "route" /\ O!SwitchAlone)
  BY DEF O!Check, O!Stop, O!Pause, O!Paused, O!Again, O!Route, O!Verify, O!Sched, O!Unchanged, O!SetJob, O!Readback, O!SyncMain, O!SyncPre,
         O!Synced, O!Fail, vars, O!At, O!Go, O!StopFirst
<1>3. v1' = "shift" => O!SwitchAlone'
  BY <1>1, <1>2 DEF O!IInv, O!SwitchAlone
<1>4. v2 = "switch" /\ v3.on = "off" /\ ~v8 /\ v1' \in {"paused", "again", "update", "route", "shift"} => ~v9'
  BY DEF O!Check, O!Stop, O!Pause, O!Paused, O!Again, O!Route, O!Verify, O!Sched, O!Unchanged, O!SetJob, O!Readback, O!SyncMain, O!SyncPre,
         O!Synced, O!Fail, vars, O!At, O!Go, O!StopFirst, O!IInv
<1>5. v1' \in {"check", "stop", "pause", "paused", "again"} => v2 = "switch"
  BY DEF O!Check, O!Stop, O!Pause, O!Paused, O!Again, O!Route, O!Verify, O!Sched, O!Unchanged, O!SetJob, O!Readback, O!SyncMain, O!SyncPre,
         O!Synced, O!Fail, vars, O!At, O!Go, O!StopFirst, O!IInv
<1>6. v1' \in {"unchanged", "set"} /\ v7' => O!ServesWanted /\ v11' = v11
  BY DEF O!Check, O!Stop, O!Pause, O!Paused, O!Again, O!Route, O!Verify, O!Sched, O!Unchanged, O!SetJob, O!Readback, O!SyncMain, O!SyncPre,
         O!Synced, O!Fail, vars, O!At, O!Go, O!StopFirst, O!IInv, O!Compared
<1>7. v1' \in {"unchanged", "set"} /\ v7' => O!ServesWanted'
  BY <1>1, <1>6 DEF O!ServesWanted
<1> QED BY <1>1, <1>2, <1>3, <1>4, <1>5, <1>7 DEF O!IInv, O!Admitted

LEMMA SwitchResumes == ASSUME O!IInv, O!Next \/ UNCHANGED vars PROVE O!ResumedWhenServing
<1> SUFFICES ASSUME v2 = "switch", v1 = "set", v1' = "readback", v7, ~v9, v9'
             PROVE  v6.serving.on = "on" /\ O!Permits(v6.serving)
  BY DEF O!ResumedWhenServing, O!At
<1>1. O!SetJob
  BY DEF O!Next, O!Dispatch, O!Read, O!Check, O!Stop, O!Pause, O!Paused, O!Again, O!Update, O!Route, O!Shift, O!Verify, O!Sched, O!Unchanged,
         O!Readback, O!SyncMain, O!SyncPre, O!Synced, O!Fail, O!Other, vars, O!At, O!Go
<1>2. v3.on = "on" /\ O!ServesWanted
  BY <1>1 DEF O!SetJob, O!IInv
<1> QED BY <1>2 DEF O!ServesWanted, O!ValidSwitch, O!SameTarget, O!Standard, O!Permits

LEMMA SwitchStep ==
  ASSUME O!IInv, O!Next \/ UNCHANGED vars
  PROVE  O!IInv' /\ O!SwitchedAlone /\ O!ResumedWhenServing /\ O!NeverForcedLive
<1>1. ASSUME O!IInv', v6' = v6 \/ v6'.at # "cand" \/ v6'.at = v6.at PROVE O!IInv' /\ O!SwitchedAlone /\ O!NeverForcedLive
  BY <1>1 DEF O!SwitchedAlone, O!NeverForcedLive
<1>2. O!IInv' /\ O!SwitchedAlone /\ O!NeverForcedLive
  BY <1>1, SwitchDispatch, SwitchRead, SwitchUpdate, SwitchShift, SwitchOther, SwitchSame DEF O!Next
<1> QED BY <1>2, SwitchResumes

----------------------------------------------------------------------------
(* The version that the scheduled probe was reviewed with.                 *)

\* What was reviewed, and whose the attempts are since the request.
LEMMA AttestShape ==
  ASSUME L!IInv
  PROVE  /\ v3 \in Nat /\ v4 \in Nat /\ v6 \in Nat /\ Len(v5) \in Nat
         /\ \A i \in 1..Len(v5) : v5[i] \in L!Entry /\ v5[i].at \in Nat /\ v5[i].at <= v3
<1>1. v5 \in Seq(L!Entry)
  BY DEF L!IInv, L!Shaped
<1>2. \A i \in 1..Len(v5) : v5[i] \in L!Entry
  BY <1>1
<1>3. \A i \in 1..Len(v5) : v5[i].at \in Nat
  BY <1>2 DEF L!Entry
<1> QED BY <1>1, <1>2, <1>3 DEF L!IInv, L!Shaped, L!InTime

\* A step that adds no attempt.
LEMMA AttestSame ==
  ASSUME L!IInv, L!Attested, UNCHANGED <<v1, v2, v3, v4, v5, v6, v9>>,
         {v10', v11'} \subseteq 0..v1,
         v14'.succeeded => v14.succeeded \/ \E i \in L!Ours : v5[i].dispatch = v6 /\ v5[i].as = "ok",
         v8' \in {"proven", "reread"} => v10' <= v11',
         v8' = "reread" => v2[v11'],
         v8' = "send" => v13' = v3 /\ v13' + L!Window < v4 /\ \A i \in 1..Len(v5) : v5[i].at < v3,
         v8' = "await" => v8 = "await" /\ v13' = v13,
         v8' \in {"window", "previous", "send", "await"} => v10' = v9 /\ v11' = v9 /\ v2[v9]
  PROVE  L!Attested'
<1>1. L!AsReviewed'
  BY DEF L!AsReviewed
<1>2. L!Ours' = L!Ours
  BY DEF L!Ours
<1>3. L!SuccessIsOurs'
  BY <1>2 DEF L!Attested, L!SuccessIsOurs
<1>4. v8' \in {"send", "await"} => v13' \in Nat /\ v13' + L!Window < v4
  BY AttestShape DEF L!Attested
<1>5. v8' = "await" => \E k \in L!Ours' : /\ v5'[k].dispatch = v6'
                                          /\ \A i \in 1..Len(v5') : v5'[i].at \in v13'..(v13' + L!Window) => i = k
  BY <1>2 DEF L!Attested
<1> QED BY <1>1, <1>3, <1>4, <1>5 DEF L!Attested

LEMMA AttestInit == ASSUME L!Init PROVE L!Attested
<1>1. L!Ours = {}
  BY DEF L!Init, L!Ours
<1> QED BY <1>1 DEF L!Init, L!Attested, L!AsReviewed, L!SuccessIsOurs, L!Blank

LEMMA AttestStop ==
  ASSUME L!IInv, L!Attested, NEW as, L!Stop(as), UNCHANGED L!kept
  PROVE  L!Attested'
<1>1. v8' = "over" /\ v11' = 0 /\ v14' = [v14 EXCEPT !.status = as] /\ v10' = v10
      /\ UNCHANGED <<v1, v2, v3, v4, v5, v6, v9>>
  BY DEF L!Stop, L!Forget, L!kept, L!world
<1>2. v14'.succeeded = v14.succeeded
  BY <1>1 DEF L!IInv, L!Shaped, L!Blank
<1>3. {v10', v11'} \subseteq 0..v1
  BY <1>1 DEF L!Attested
<1> QED BY <1>1, <1>2, <1>3, AttestSame

\* The program's own steps.
LEMMA AttestReads == ASSUME L!IInv, L!Attested, L!Dispatch \/ L!Restart \/ L!Prove \/ L!Proven \/ L!Reread \/ L!CheckWindow PROVE L!Attested'
<1>1. CASE L!Dispatch
  <2>1. UNCHANGED <<v1, v2, v3, v4, v5, v9>> /\ v8' = "prove" /\ v10' = v1 /\ v11' = v11
        /\ v14' = L!Blank
    BY <1>1 DEF L!Dispatch, L!world
  <2>2. L!AsReviewed' /\ L!SuccessIsOurs'
    BY <2>1 DEF L!AsReviewed, L!SuccessIsOurs, L!Blank
  <2> QED BY <2>1, <2>2 DEF L!Attested
<1>2. CASE L!Restart
  <2>1. UNCHANGED <<v1, v2, v3, v4, v5, v6, v9, v14>> /\ v8' = "prove" /\ v10' = v1 /\ v11' = v11
    BY <1>2 DEF L!Restart, L!world
  <2>2. {v10', v11'} \subseteq 0..v1
    BY <2>1 DEF L!Attested
  <2> QED BY <2>1, <2>2, AttestSame
<1>3. CASE L!Prove
  <2>1. UNCHANGED <<v1, v2, v3, v4, v5, v6, v9, v14>> /\ v8' = "proven" /\ v10' = v10 /\ v11' = v1
    BY <1>3 DEF L!Prove, L!world
  <2>2. {v10', v11'} \subseteq 0..v1 /\ v10' <= v11'
    BY <2>1 DEF L!Attested
  <2> QED BY <2>1, <2>2, AttestSame
<1>4. CASE L!Proven
  <2>1. CASE L!Stop("blocked")
    BY <1>4, <2>1, AttestStop DEF L!Proven
  <2>2. CASE L!Go("reread") /\ v2[v11]
    <3>1. v8 = "proven" /\ UNCHANGED <<v1, v2, v3, v4, v5, v6, v9, v14, v10, v11>> /\ v8' = "reread"
      BY <1>4, <2>2 DEF L!Proven, L!kept, L!world, L!Go
    <3>2. {v10', v11'} \subseteq 0..v1 /\ v10' <= v11'
      BY <3>1 DEF L!Attested
    <3> QED BY <2>2, <3>1, <3>2, AttestSame
  <2> QED BY <1>4, <2>1, <2>2 DEF L!Proven
<1>5. CASE L!Reread
  <2>1. CASE \E as : L!Stop(as)
    BY <1>5, <2>1, AttestStop DEF L!Reread
  <2>2. CASE L!Go("window") /\ v1 = v10 /\ v10 = v9
    <3>1. v8 = "reread" /\ UNCHANGED <<v1, v2, v3, v4, v5, v6, v9, v14, v10, v11>> /\ v8' = "window"
      BY <1>5, <2>2 DEF L!Reread, L!kept, L!world, L!Go
    <3>2. {v10, v11} \subseteq 0..v1 /\ v10 <= v11 /\ v1 \in Nat /\ v2[v11]
      BY <3>1 DEF L!Attested
    <3>3. v11 = v10
      BY <2>2, <3>2
    <3> QED BY <2>2, <3>1, <3>2, <3>3, AttestSame
  <2> QED BY <1>5, <2>1, <2>2 DEF L!Reread, L!Unchanged
<1>6. CASE L!CheckWindow
  <2>1. CASE L!Stop("blocked")
    BY <1>6, <2>1, AttestStop DEF L!CheckWindow
  <2>2. CASE L!Go("previous")
    <3>1. v8 = "window" /\ UNCHANGED <<v1, v2, v3, v4, v5, v6, v9, v14, v10, v11>> /\ v8' = "previous"
      BY <1>6, <2>2 DEF L!CheckWindow, L!kept, L!world, L!Go
    <3>2. {v10, v11} \subseteq 0..v1 /\ v10 = v9 /\ v11 = v9 /\ v2[v9]
      BY <3>1 DEF L!Attested, L!AsReviewed
    <3> QED BY <3>1, <3>2, AttestSame
  <2> QED BY <1>6, <2>1, <2>2 DEF L!CheckWindow
<1> QED BY <1>1, <1>2, <1>3, <1>4, <1>5, <1>6

LEMMA AttestPrevious == ASSUME L!IInv, L!Attested, L!Previous PROVE L!Attested'
<1>1. CASE L!Stop("blocked")
  BY <1>1, AttestStop DEF L!Previous
<1>2. CASE L!PreviousEnded /\ L!InWindow /\ v8' = "send" /\ v13' = v3 /\ UNCHANGED <<v14, v11, v12>>
  <2>1. v8 = "previous" /\ UNCHANGED <<v1, v2, v3, v4, v5, v6, v9, v14, v10, v11>>
    BY <1>2 DEF L!Previous, L!kept, L!world
  <2>2. {v10, v11} \subseteq 0..v1 /\ v10 = v9 /\ v11 = v9 /\ v2[v9]
    BY <2>1 DEF L!Attested, L!AsReviewed
  <2>3. v12.last \in Nat /\ v12.next \in Nat /\ v12.next <= v4 /\ v3 - v12.last > 1 /\ v12.next > v3 + 1
        /\ v5[Len(v5)].at = v12.last /\ Len(v5) \in 1..Len(v5)
    <3>1. Len(v5) \in 1..Len(v5)
      BY DEF L!IInv, L!Shaped
    <3> QED BY <1>2, <3>1 DEF L!IInv, L!Shaped, L!InTime, L!InWindow, L!Window, L!PreviousEnded, L!Bridge
  <2>4. v3 + L!Window < v4
    BY <2>3, AttestShape DEF L!Window
  <2>5. \A i \in 1..Len(v5) : v5[i].at < v3
    <3> SUFFICES ASSUME NEW i \in 1..Len(v5) PROVE v5[i].at < v3
      OBVIOUS
    <3>1. v5[i].at <= v5[Len(v5)].at
      BY <2>3, AttestShape DEF L!IInv, L!InTime
    <3> QED BY <2>3, <3>1, AttestShape
  <2> QED BY <1>2, <2>1, <2>2, <2>4, <2>5, AttestSame
<1> QED BY <1>1, <1>2 DEF L!Previous

\* An attempt is added: only ours in the time that is looked at.
LEMMA AttestAdds ==
  ASSUME L!IInv, L!Attested, NEW a, v5' = Append(v5, a), UNCHANGED <<v1, v2, v3, v6, v9, v10, v11>>,
         v14'.succeeded = v14.succeeded
  PROVE  /\ Len(v5') = Len(v5) + 1 /\ v5'[Len(v5) + 1] = a
         /\ \A i \in 1..Len(v5) : v5'[i] = v5[i]
         /\ \A i \in 1..Len(v5') : i \in 1..Len(v5) \/ i = Len(v5) + 1
         /\ \A i \in L!Ours : i \in L!Ours'
         /\ L!SuccessIsOurs'
<1>1. Len(v5') = Len(v5) + 1 /\ v5'[Len(v5) + 1] = a
      /\ \A i \in 1..Len(v5) : v5'[i] = v5[i]
  BY DEF L!IInv, L!Shaped
<1>2. \A i \in 1..Len(v5') : i \in 1..Len(v5) \/ i = Len(v5) + 1
  BY <1>1, AttestShape
<1>3. \A i \in 1..Len(v5) : i \in 1..Len(v5')
  BY <1>1, AttestShape
<1>4. \A i \in L!Ours : i \in L!Ours' /\ v5'[i] = v5[i]
  BY <1>1, <1>3 DEF L!Ours
<1>5. L!SuccessIsOurs'
  BY <1>4 DEF L!Attested, L!SuccessIsOurs
<1> QED BY <1>1, <1>2, <1>4, <1>5

LEMMA AttestOthers == ASSUME L!IInv, L!Attested, L!Scheduled \/ L!ByHand PROVE L!Attested'
<1>1. PICK a : v5' = Append(v5, a) /\ a.at = v3
  BY DEF L!Scheduled, L!ByHand, L!Attempt
<1>2. UNCHANGED <<v1, v2, v3, v6, v8, v9, v10, v11, v13, v14>>
  BY DEF L!Scheduled, L!ByHand, L!program
<1>3. v4' >= v4 /\ (v8 \in {"send", "await"} => v4 = v3)
  BY AttestShape, TimesType DEF L!Scheduled, L!ByHand
<1>4. /\ Len(v5') = Len(v5) + 1 /\ v5'[Len(v5) + 1] = a
      /\ \A i \in 1..Len(v5) : v5'[i] = v5[i]
      /\ \A i \in 1..Len(v5') : i \in 1..Len(v5) \/ i = Len(v5) + 1
      /\ \A i \in L!Ours : i \in L!Ours'
      /\ L!SuccessIsOurs'
  BY <1>1, <1>2, AttestAdds
<1>5. v8 # "send"
  BY <1>3, AttestShape DEF L!Attested, L!Window
<1>6. L!AsReviewed'
  BY <1>2 DEF L!Attested, L!AsReviewed
<1>7. v8 = "await" => v13' \in Nat /\ v13' + L!Window < v4'
  <2>1. v8 = "await" => v13 \in Nat /\ v13 + L!Window < v4 /\ v4 \in Nat
    BY AttestShape DEF L!Attested
  <2>2. v4' \in Int
    BY AttestShape, TimesType DEF L!Scheduled, L!ByHand
  <2> QED BY <1>2, <1>3, <2>1, <2>2 DEF L!Window
<1>8. ASSUME v8 = "await"
      PROVE  \E k \in L!Ours' : /\ v5'[k].dispatch = v6'
                                /\ \A i \in 1..Len(v5') : v5'[i].at \in v13'..(v13' + L!Window) => i = k
  <2>1. PICK k \in L!Ours : /\ v5[k].dispatch = v6
                            /\ \A i \in 1..Len(v5) : v5[i].at \in v13..(v13 + L!Window) => i = k
    BY <1>8 DEF L!Attested
  <2>2. a.at \notin v13..(v13 + L!Window)
    BY <1>1, <1>3, <1>8, AttestShape DEF L!Attested, L!Window
  <2>3. k \in L!Ours' /\ v5'[k].dispatch = v6'
    BY <1>2, <1>4, <2>1 DEF L!Ours
  <2>4. ASSUME NEW i \in 1..Len(v5'), v5'[i].at \in v13'..(v13' + L!Window) PROVE i = k
    <3>1. CASE i \in 1..Len(v5)
      BY <1>2, <1>4, <2>1, <2>4, <3>1
    <3>2. CASE i = Len(v5) + 1
      BY <1>2, <1>4, <2>2, <2>4, <3>2
    <3> QED BY <1>4, <3>1, <3>2
  <2> QED BY <2>3, <2>4
<1> QED BY <1>2, <1>4, <1>5, <1>6, <1>7, <1>8 DEF L!Attested

LEMMA AttestSend == ASSUME L!IInv, L!Attested, L!Send PROVE L!Attested'
<1>1. PICK ran \in BOOLEAN, answered \in BOOLEAN :
        /\ v5' = IF ran THEN Append(v5, L!Attempt(v3, "ours")) ELSE v5
        /\ (answered => ran)
        /\ v14' = [v14 EXCEPT !.attempted = L!Recorded(answered), !.posts = @ + 1,
                     !.status = IF answered THEN "dispatched" ELSE "unknown"]
        /\ IF answered THEN v8' = "await" /\ UNCHANGED <<v11, v12, v13>>
                       ELSE v8' \in {"over", "idle"} /\ L!Forget
  BY DEF L!Send
<1>2. v8 = "send" /\ UNCHANGED <<v1, v2, v3, v4, v6, v9, v10>>
  BY DEF L!Send
<1>3. v14'.succeeded = v14.succeeded
  BY <1>1 DEF L!IInv, L!Shaped, L!Blank
<1>4. v11' \in {0, v11} /\ {v10', v11'} \subseteq 0..v1
  BY <1>1, <1>2 DEF L!Forget, L!Attested
<1>5. v13 = v3 /\ v13 \in Nat /\ v13 + L!Window < v4 /\ \A i \in 1..Len(v5) : v5[i].at < v3
  BY <1>2 DEF L!Attested
<1>6. v10 = v9 /\ v11 = v9 /\ v2[v9]
  BY <1>2 DEF L!Attested, L!AsReviewed
<1>7. CASE ~ran
  <2>1. v8' \in {"over", "idle"} /\ v5' = v5
    BY <1>1, <1>7
  <2> QED BY <1>2, <1>3, <1>4, <2>1, AttestSame
<1>8. CASE ran
  <2> DEFINE a == L!Attempt(v3, "ours")
  <2>1. v5' = Append(v5, a) /\ a.at = v3 /\ a.by = "ours" /\ a.dispatch = v6
    BY <1>1, <1>8 DEF L!Attempt
  <2> HIDE DEF a
  <2>2. /\ Len(v5') = Len(v5) + 1 /\ v5'[Len(v5) + 1] = a
        /\ \A i \in 1..Len(v5) : v5'[i] = v5[i]
        /\ \A i \in 1..Len(v5') : i \in 1..Len(v5) \/ i = Len(v5) + 1
        /\ \A i \in L!Ours : i \in L!Ours'
    <3>1. Len(v5') = Len(v5) + 1 /\ v5'[Len(v5) + 1] = a
          /\ \A i \in 1..Len(v5) : v5'[i] = v5[i]
      BY <2>1 DEF L!IInv, L!Shaped
    <3>2. \A i \in 1..Len(v5') : i \in 1..Len(v5) \/ i = Len(v5) + 1
      BY <3>1, AttestShape
    <3>3. \A i \in 1..Len(v5) : i \in 1..Len(v5')
      BY <3>1, AttestShape
    <3> QED BY <3>1, <3>2, <3>3 DEF L!Ours
  <2>3. L!SuccessIsOurs'
    BY <1>2, <1>3, <2>2 DEF L!Attested, L!SuccessIsOurs, L!Ours
  <2>4. Len(v5) + 1 \in L!Ours' /\ v5'[Len(v5) + 1].dispatch = v6'
    BY <1>2, <2>1, <2>2, AttestShape DEF L!Ours
  <2>5. CASE answered
    <3>1. v8' = "await" /\ v11' = v11 /\ v13' = v13
      BY <1>1, <2>5
    <3>2. ASSUME NEW i \in 1..Len(v5'), v5'[i].at \in v13'..(v13' + L!Window) PROVE i = Len(v5) + 1
      <4>1. CASE i \in 1..Len(v5)
        <5>1. v5'[i].at < v13' /\ v5'[i].at \in Nat /\ v13' \in Nat
          BY <1>5, <2>2, <3>1, <4>1, AttestShape
        <5> QED BY <3>2, <5>1 DEF L!Window
      <4> QED BY <2>2, <4>1
    <3>3. L!AsReviewed'
      BY <1>2, <1>6, <3>1 DEF L!AsReviewed
    <3> QED BY <1>2, <1>4, <1>5, <2>3, <2>4, <3>1, <3>2, <3>3 DEF L!Attested
  <2>6. CASE ~answered
    <3>1. v8' \in {"over", "idle"}
      BY <1>1, <2>6
    <3>2. L!AsReviewed'
      BY <3>1 DEF L!AsReviewed
    <3> QED BY <1>2, <1>4, <2>3, <3>1, <3>2 DEF L!Attested
  <2> QED BY <2>5, <2>6
<1> QED BY <1>7, <1>8

\* A success is that of the one attempt since.
LEMMA AttestAwait == ASSUME L!IInv, L!Attested, L!Await \/ L!GiveUp \/ L!Fail \/ L!Die PROVE L!Attested'
<1>1. CASE L!Await
  <2>1. PICK i \in L!Entries :
          \/ /\ v8' = "over" /\ v14' = [v14 EXCEPT !.status = "terminal", !.succeeded = L!Succeeded(i)] /\ L!Forget
          \/ L!Stop("unknown")
    BY <1>1 DEF L!Await
  <2>2. UNCHANGED L!kept /\ v8 = "await"
    BY <1>1 DEF L!Await
  <2>3. CASE L!Stop("unknown")
    BY <2>2, <2>3, AttestStop
  <2>4. CASE v8' = "over" /\ v14' = [v14 EXCEPT !.status = "terminal", !.succeeded = L!Succeeded(i)] /\ L!Forget
    <3>1. PICK k \in L!Ours : /\ v5[k].dispatch = v6
                              /\ \A j \in 1..Len(v5) : v5[j].at \in v13..(v13 + L!Window) => j = k
      BY <2>2 DEF L!Attested
    <3>2. i = k
      BY <3>1 DEF L!Entries
    <3>3. v14'.succeeded => v5[k].as = "ok"
      BY <2>4, <3>2 DEF L!IInv, L!Shaped, L!Blank, L!Succeeded
    <3>4. UNCHANGED <<v1, v2, v3, v4, v5, v6, v9, v10>> /\ v11' = 0
      BY <2>2, <2>4 DEF L!kept, L!world, L!Forget
    <3>5. {v10', v11'} \subseteq 0..v1
      BY <3>4 DEF L!Attested
    <3> QED BY <2>4, <3>1, <3>3, <3>4, <3>5, AttestSame
  <2> QED BY <2>1, <2>3, <2>4
<1>2. CASE L!GiveUp \/ L!Fail
  BY <1>2, AttestStop DEF L!GiveUp, L!Fail
<1>3. CASE L!Die
  <2>1. v8' = "idle" /\ v11' = 0 /\ UNCHANGED <<v1, v2, v3, v4, v5, v6, v9, v10, v14>>
    BY <1>3 DEF L!Die, L!Forget, L!kept, L!world
  <2>2. {v10', v11'} \subseteq 0..v1
    BY <2>1 DEF L!Attested
  <2> QED BY <2>1, <2>2, AttestSame
<1> QED BY <1>1, <1>2, <1>3

\* An attempt ends or its entries appear.
LEMMA AttestMarked == ASSUME L!IInv, L!Attested, NEW i \in 1..Len(v5), L!End(i) \/ L!Log(i) PROVE L!Attested'
<1>1. UNCHANGED <<v1, v2, v3, v4, v6, v8, v9, v10, v11, v13, v14>>
  BY DEF L!End, L!Log, L!program
<1>2. /\ Len(v5') = Len(v5)
      /\ \A j \in 1..Len(v5) : /\ v5'[j].at = v5[j].at /\ v5'[j].by = v5[j].by
                               /\ v5'[j].dispatch = v5[j].dispatch
                               /\ v5[j].as = "ok" => v5'[j].as = "ok"
  <2>1. v5 \in Seq(L!Entry)
    BY DEF L!IInv, L!Shaped
  <2>2. CASE L!End(i)
    <3>1. PICK as : v5' = [v5 EXCEPT ![i].as = as] /\ v5[i].as = "running"
      BY <2>2 DEF L!End
    <3> DEFINE r == [v5[i] EXCEPT !.as = as]
    <3>2. v5' = [v5 EXCEPT ![i] = r]
      BY <3>1
    <3>3. v5[i] \in L!Entry
      BY <2>1
    <3>4. r.at = v5[i].at /\ r.by = v5[i].by /\ r.dispatch = v5[i].dispatch
          /\ (v5[i].as = "ok" => r.as = "ok")
      BY <3>1, <3>3 DEF L!Entry
    <3> HIDE DEF r
    <3>5. Len(v5') = Len(v5) /\ v5'[i] = r /\ \A j \in (1..Len(v5)) \ {i} : v5'[j] = v5[j]
      BY <2>1, <3>2
    <3> QED BY <3>4, <3>5
  <2>3. CASE L!Log(i)
    <3>1. v5' = [v5 EXCEPT ![i].logged = TRUE]
      BY <2>3 DEF L!Log
    <3> DEFINE r == [v5[i] EXCEPT !.logged = TRUE]
    <3>2. v5' = [v5 EXCEPT ![i] = r]
      BY <3>1
    <3>3. v5[i] \in L!Entry
      BY <2>1
    <3>4. r.at = v5[i].at /\ r.by = v5[i].by /\ r.dispatch = v5[i].dispatch
          /\ (v5[i].as = "ok" => r.as = "ok")
      BY <3>1, <3>3 DEF L!Entry
    <3> HIDE DEF r
    <3>5. Len(v5') = Len(v5) /\ v5'[i] = r /\ \A j \in (1..Len(v5)) \ {i} : v5'[j] = v5[j]
      BY <2>1, <3>2
    <3> QED BY <3>4, <3>5
  <2> QED BY <2>2, <2>3
<1>3. L!Ours' = L!Ours
  BY <1>2 DEF L!Ours
<1>4. L!AsReviewed'
  BY <1>1 DEF L!Attested, L!AsReviewed
<1>5. L!SuccessIsOurs'
  BY <1>1, <1>2, <1>3 DEF L!Attested, L!SuccessIsOurs, L!Ours
<1>6. ASSUME v8 = "await"
      PROVE  \E k \in L!Ours' : /\ v5'[k].dispatch = v6'
                                /\ \A j \in 1..Len(v5') : v5'[j].at \in v13'..(v13' + L!Window) => j = k
  BY <1>1, <1>2, <1>3, <1>6 DEF L!Attested, L!Ours
<1>7. \A j \in 1..Len(v5') : v5'[j].at = v5[j].at
  BY <1>2
<1> QED BY <1>1, <1>2, <1>4, <1>5, <1>6, <1>7 DEF L!Attested

LEMMA AttestWorld == ASSUME L!IInv, L!Attested, L!Tick \/ L!Deploy \/ L!Review \/ UNCHANGED vars PROVE L!Attested'
<1>1. CASE L!Tick
  <2>1. UNCHANGED <<v1, v2, v4, v5, v6, v8, v9, v10, v11, v13, v14>> /\ v8 # "send"
    BY <1>1 DEF L!Tick, L!program
  <2> QED BY <2>1 DEF L!Attested, L!AsReviewed, L!SuccessIsOurs, L!Ours
<1>2. CASE L!Deploy
  <2>1. UNCHANGED <<v2, v3, v4, v5, v6, v8, v9, v10, v11, v13, v14>> /\ v1' = v1 + 1
    BY <1>2 DEF L!Deploy, L!program
  <2>2. v1' \in Nat /\ {v10, v11} \subseteq 0..v1'
    BY <2>1 DEF L!Attested
  <2> QED BY <2>1, <2>2 DEF L!Attested, L!AsReviewed, L!SuccessIsOurs, L!Ours
<1>3. CASE L!Review \/ UNCHANGED vars
  <2>1. UNCHANGED <<v1, v2, v3, v4, v5, v6, v8, v10, v11, v13, v14>>
        /\ (v9' = v9 \/ v8 = "over")
    BY <1>3 DEF L!Review, L!world, vars
  <2> QED BY <2>1 DEF L!Attested, L!AsReviewed, L!SuccessIsOurs, L!Ours
<1> QED BY <1>1, <1>2, <1>3

LEMMA AttestStep == ASSUME L!IInv, L!Attested, L!Next \/ UNCHANGED vars PROVE L!Attested'
BY AttestReads, AttestPrevious, AttestOthers, AttestSend, AttestAwait, AttestMarked, AttestWorld DEF L!Next

----------------------------------------------------------------------------
(* The file of the guard.                                                  *)

LEMMA GuardWholeInit == ASSUME G!IInv, G!Init PROVE G!FileIsWhole
BY DEF G!Init, G!FileIsWhole, G!Blank

LEMMA GuardWholeOutside == ASSUME G!IInv, G!FileIsWhole, G!Tick \/ G!Lose \/ (\E l \in G!Logs : G!Fail(l)) \/ UNCHANGED vars
                           PROVE  G!FileIsWhole' /\ G!ToldAgainWhenDue
<1>1. CASE G!Tick
  <2>1. v1' = v1 + 1 /\ UNCHANGED <<v2, v3, v5, v6>> /\ v4' = G!NoRun /\ v1 \in Int
    BY <1>1 DEF G!Tick, G!IInv
  <2> QED BY <2>1, TimesType DEF G!FileIsWhole, G!ToldAgainWhenDue, G!NoRun
<1>2. CASE G!Lose
  <2>1. UNCHANGED <<v1, v2>> /\ v4' = G!NoRun /\ v5' = {} /\ v6' = {} /\ v3' = G!Blank
    BY <1>2 DEF G!Lose
  <2> QED BY <2>1 DEF G!FileIsWhole, G!ToldAgainWhenDue, G!NoRun, G!Blank
<1>3. CASE \E l \in G!Logs : G!Fail(l)
  <2>1. PICK l \in G!Logs : /\ v2' = Append(v2, [from |-> l, at |-> v1]) /\ v4' = G!NoRun
                            /\ UNCHANGED <<v1, v3, v5, v6>>
    BY <1>3 DEF G!Fail
  <2>2. Len(v2') = Len(v2) + 1 /\ \A i \in 1..Len(v2) : v2'[i] = v2[i]
    BY <2>1 DEF G!IInv
  <2>3. v2'[Len(v2) + 1].at = v1 /\ Len(v2) \in Nat /\ v1 \in Nat
    BY <2>1 DEF G!IInv, G!FileIsWhole
  <2>4. DOMAIN v2 = 1..Len(v2) /\ DOMAIN v2' = 1..(Len(v2) + 1)
    BY <2>1, <2>2 DEF G!IInv
  <2>5. \A i \in DOMAIN v2' : i \in DOMAIN v2 \/ i = Len(v2) + 1
    BY <2>3, <2>4
  <2>6. \A i \in DOMAIN v2 : i \in DOMAIN v2' /\ v2'[i] = v2[i]
    BY <2>2, <2>3, <2>4
  <2> QED BY <2>1, <2>3, <2>5, <2>6 DEF G!FileIsWhole, G!ToldAgainWhenDue, G!NoRun
<1>4. CASE UNCHANGED vars
  BY <1>4 DEF vars, G!FileIsWhole, G!ToldAgainWhenDue
<1> QED BY <1>1, <1>2, <1>3, <1>4

\* A failure that is found and was told is in what is kept of the file.
LEMMA GuardKnows ==
  ASSUME G!IInv, G!FileIsWhole, NEW answered, NEW ready \in {0, v1}, NEW i \in G!FoundIn(answered, ready)
  PROVE  /\ i \in DOMAIN v2 /\ i \in G!Ids
         /\ (i \in v6 => G!Pruned(v3).events[i] # -1)
         /\ (G!Pruned(v3).events[i] # -1 => i \in v6 /\ G!Pruned(v3).events[i] = v3.events[i])
<1>1. i \in DOMAIN v2 /\ v2[i].at >= G!Since(ready)
  BY DEF G!FoundIn, G!Found
<1>2. G!Since(ready) >= v1 - 1 /\ v1 \in Nat /\ v2[i].at \in Nat
  BY <1>1, TimesType DEF G!Since, G!FileIsWhole
<1>3. i \in G!Ids
  BY <1>1, TimesType DEF G!IInv, G!Ids
<1>4. G!Pruned(v3).events[i] = IF v3.events[i] >= v1 - 2 THEN v3.events[i] ELSE -1
  BY <1>3 DEF G!Pruned, G!IInv, G!Blank
<1>5. v3.events[i] \in Int /\ G!Since(ready) \in Int
  BY <1>2, <1>3, TimesType DEF G!FileIsWhole, G!Since
<1>6. v2[i].at >= v1 - 2
  BY <1>1, <1>2, <1>5, TimesType
<1>7. i \in v6 => v3.events[i] >= v2[i].at
  BY <1>2, <1>6, TimesType DEF G!FileIsWhole
<1>8. i \in v6 => G!Pruned(v3).events[i] # -1
  BY <1>2, <1>4, <1>5, <1>6, <1>7, TimesType
<1>9. G!Pruned(v3).events[i] # -1 => i \in v6 /\ G!Pruned(v3).events[i] = v3.events[i]
  BY <1>3, <1>4 DEF G!IInv, G!FileIsTrue
<1> QED BY <1>1, <1>3, <1>8, <1>9

LEMMA GuardWholeGuard ==
  ASSUME G!IInv, G!FileIsWhole, NEW answered, NEW succeeded, NEW ready \in {0, v1}, NEW kept, G!Guard(answered, succeeded, ready, kept)
  PROVE  G!FileIsWhole' /\ G!ToldAgainWhenDue
<1> DEFINE ids == G!FoundIn(answered, ready)
           types == G!TypesOf(ids, answered, succeeded)
           state == G!Pruned(v3)
           again == G!Repeats(types, ids, state)
<1>1. /\ UNCHANGED <<v1, v2>>
      /\ v4' = [is |-> IF types = {} THEN "healthy" ELSE IF again THEN "repeat" ELSE "alert", types |-> types, ids |-> ids]
  BY DEF G!Guard
<1>2. \/ UNCHANGED <<v3, v5, v6>>
      \/ types = {} /\ v3' = G!Forgotten(state) /\ v5' = {} /\ v6' = v6
      \/ /\ types # {} /\ v3' = G!Recorded(types, ids, state)
         /\ v5' = (IF again THEN v5 ELSE v5 \cup {[types |-> types, at |-> v1]})
         /\ v6' = (IF again THEN v6 ELSE v6 \cup ids)
  BY DEF G!Guard
<1>3. \A i \in ids : /\ i \in DOMAIN v2 /\ i \in G!Ids /\ (i \in v6 => state.events[i] # -1)
                     /\ state.events[i] # -1 => i \in v6 /\ state.events[i] = v3.events[i]
  BY GuardKnows
<1>4. /\ DOMAIN state = {"events", "issues"} /\ DOMAIN state.events = G!Ids /\ state.issues = v3.issues
      /\ \A i \in G!Ids : state.events[i] = (IF v3.events[i] >= v1 - 2 THEN v3.events[i] ELSE -1)
  BY DEF G!Pruned, G!IInv, G!Blank
<1>5. again = (G!New(ids, state) = {} /\ \E x \in v3.issues : x.types = types /\ v1 - x.at < 2)
  BY <1>4 DEF G!Repeats, G!Lately, G!Last
<1>6. G!New(ids, state) = {i \in ids : state.events[i] = -1}
  BY DEF G!New
<1>7. \A y \in v3.issues : y.at \in Int /\ y.at <= v1
  BY DEF G!IInv, G!FileIsTrue, G!FileIsWhole
<1>8. v1 \in Nat /\ \A i \in DOMAIN v2 : v2[i].at \in Nat /\ v2[i].at <= v1
  BY DEF G!FileIsWhole
<1>9. \A i \in v6 : i \in G!Ids /\ i \in DOMAIN v2
  BY TimesType DEF G!FileIsWhole, G!IInv, G!Ids
<1> HIDE DEF ids, types, state, again
<1>10. G!ToldAgainWhenDue
  <2> SUFFICES ASSUME NEW x \in v5, v4'.is = "alert", v4'.types = x.types, v4'.ids \subseteq v6
               PROVE  v1 - x.at >= 2
    BY DEF G!ToldAgainWhenDue
  <2>1. types = x.types /\ ids \subseteq v6 /\ ~again
    BY <1>1
  <2>2. G!New(ids, state) = {}
    BY <1>3, <1>6, <2>1
  <2>3. PICK y \in v3.issues : y.types = x.types /\ y.at >= x.at
    BY DEF G!FileIsWhole
  <2>4. x.at \in Int /\ y.at \in Int /\ ~(v1 - y.at < 2)
    BY <1>5, <1>7, <2>1, <2>2, <2>3 DEF G!FileIsWhole
  <2> QED BY <1>8, <2>3, <2>4, TimesType
<1>11. \A i \in v6 : state.events[i] >= v2[i].at \/ v2[i].at < v1 - 2
  BY <1>4, <1>8, <1>9, TimesType DEF G!FileIsWhole
<1>12. \A i \in G!Ids : state.events[i] \in Int
  BY <1>4 DEF G!FileIsWhole
<1>13. CASE UNCHANGED <<v3, v5, v6>>
  BY <1>1, <1>10, <1>13 DEF G!FileIsWhole, G!Ids
<1>14. CASE types = {} /\ v3' = G!Forgotten(state) /\ v5' = {} /\ v6' = v6
  <2>1. v3'.events = state.events /\ v1' = v1 /\ v2' = v2
    BY <1>1, <1>4, <1>14 DEF G!Forgotten
  <2>2. v1' \in Nat /\ \A i \in DOMAIN v2' : v2'[i].at \in Nat /\ v2'[i].at <= v1'
    BY <1>8, <2>1
  <2>3. \A i \in G!Ids : v3'.events[i] \in Int
    BY <1>12, <2>1
  <2>4. \A i \in v6' : i \in DOMAIN v2' /\ (v3'.events[i] >= v2'[i].at \/ v2'[i].at < v1' - 2)
    BY <1>9, <1>11, <1>14, <2>1
  <2>5. \A x \in v5' : x.at \in Int /\ x.at <= v1' /\ \E y \in v3'.issues : y.types = x.types /\ y.at >= x.at
    BY <1>14
  <2> QED BY <1>10, <2>2, <2>3, <2>4, <2>5 DEF G!FileIsWhole, G!Ids
<1>15. CASE /\ types # {} /\ v3' = G!Recorded(types, ids, state)
            /\ v5' = (IF again THEN v5 ELSE v5 \cup {[types |-> types, at |-> v1]})
            /\ v6' = (IF again THEN v6 ELSE v6 \cup ids)
  <2>1. /\ v3'.events = [i \in G!Ids |-> IF i \in G!New(ids, state) THEN v1 ELSE state.events[i]]
        /\ v3'.issues = IF again THEN v3.issues
                        ELSE {x \in v3.issues : ~(x.types = types)} \cup {[types |-> types, at |-> v1]}
    BY <1>4, <1>15 DEF G!Recorded, again, G!Last
  <2>2. \A i \in G!Ids : v3'.events[i] \in Int
    BY <1>8, <1>12, <2>1
  <2>3. \A i \in v6' : i \in G!Ids /\ i \in DOMAIN v2
    BY <1>3, <1>9, <1>15
  <2>4. \A i \in v6' : v3'.events[i] >= v2[i].at \/ v2[i].at < v1 - 2
    <3> SUFFICES ASSUME NEW i \in v6', i \in G!Ids, i \in DOMAIN v2 PROVE v3'.events[i] >= v2[i].at \/ v2[i].at < v1 - 2
      BY <2>3
    <3>1. CASE i \in G!New(ids, state)
      BY <1>8, <2>1, <3>1
    <3>2. CASE i \notin G!New(ids, state)
      <4>1. i \in v6
        BY <1>3, <1>6, <1>15, <3>2
      <4> QED BY <1>11, <2>1, <3>2, <4>1
    <3> QED BY <3>1, <3>2
  <2>5. ASSUME NEW x \in v5' PROVE x.at \in Int /\ x.at <= v1 /\ \E y \in v3'.issues : y.types = x.types /\ y.at >= x.at
    <3>1. CASE x \in v5 /\ again
      BY <2>1, <3>1 DEF G!FileIsWhole
    <3>2. CASE x \in v5 /\ ~again
      <4>1. PICK y \in v3.issues : y.types = x.types /\ y.at >= x.at
        BY <3>2 DEF G!FileIsWhole
      <4>2. x.at \in Int /\ x.at <= v1
        BY <3>2 DEF G!FileIsWhole
      <4>3. CASE x.types = types
        <5> DEFINE z == [types |-> types, at |-> v1]
        <5>1. z \in v3'.issues /\ z.types = types /\ z.at = v1
          BY <2>1, <3>2
        <5> HIDE DEF z
        <5> QED BY <1>8, <4>2, <4>3, <5>1
      <4>4. CASE x.types # types
        BY <2>1, <3>2, <4>1, <4>2, <4>4
      <4> QED BY <4>3, <4>4
    <3>3. CASE x \notin v5
      <4> DEFINE z == [types |-> types, at |-> v1]
      <4>1. x = z /\ ~again
        BY <1>15, <2>5, <3>3
      <4>2. z \in v3'.issues /\ z.types = types /\ z.at = v1
        BY <2>1, <4>1
      <4> HIDE DEF z
      <4> QED BY <1>8, <4>1, <4>2
    <3> QED BY <3>1, <3>2, <3>3
  <2>6. v1' = v1 /\ v2' = v2
    BY <1>1
  <2>7. v1' \in Nat /\ \A i \in DOMAIN v2' : v2'[i].at \in Nat /\ v2'[i].at <= v1'
    BY <1>8, <2>6
  <2>8. \A i \in v6' : i \in DOMAIN v2' /\ (v3'.events[i] >= v2'[i].at \/ v2'[i].at < v1' - 2)
    BY <2>3, <2>4, <2>6
  <2>9. \A x \in v5' : x.at \in Int /\ x.at <= v1' /\ \E y \in v3'.issues : y.types = x.types /\ y.at >= x.at
    BY <2>5, <2>6
  <2> QED BY <1>10, <2>2, <2>7, <2>8, <2>9 DEF G!FileIsWhole, G!Ids
<1> QED BY <1>2, <1>10, <1>13, <1>14, <1>15

LEMMA GuardWholeStep ==
  ASSUME G!IInv, G!FileIsWhole, G!Next \/ UNCHANGED vars
  PROVE  G!FileIsWhole' /\ G!ToldAgainWhenDue
<1>1. ASSUME NEW reply \in Answers, NEW ready \in {0, v1}, NEW kept \in BOOLEAN,
             G!Guard(reply.answered, reply.succeeded, ready, kept)
      PROVE  G!FileIsWhole' /\ G!ToldAgainWhenDue
  BY <1>1, GuardWholeGuard
<1> QED BY <1>1, GuardWholeOutside DEF G!Next

----------------------------------------------------------------------------
(* What an observer had read when it wrote.                                *)

LEMMA ReadInTimeInit == ASSUME I!Init PROVE I!ReadInTime
<1>1. PICK open : v1 = [r \in I!Reasons |-> IF \E f \in open : I!Reason(f) = r
                                            THEN [ver |-> 1, active |-> TRUE, at |-> 0, gen |-> 1] ELSE I!NoMark]
  BY DEF I!Init
<1>2. \A r \in I!Reasons : v1[r].at \in Nat
  BY <1>1 DEF I!NoMark
<1>3. \A o \in I!Observers : v3[o].at \in Nat /\ v5[o].at \in Nat /\ v4[o] # "reserve"
  BY DEF I!Init, I!NoMark
<1> QED BY <1>2, <1>3 DEF I!ReadInTime

\* A step with which no marker is read or written.
LEMMA ReadInTimeSame ==
  ASSUME I!IInv, I!ReadInTime, NEW o \in I!Observers,
         I!Persist(o) \/ I!NextRecovery(o) \/ I!AddReason(o) \/ I!Send(o) \/ I!IncidentFails(o)
  PROVE  I!ReadInTime' /\ v1' = v1
<1>1. UNCHANGED <<v1, v3>> /\ (v5' = v5 \/ v5' = [v5 EXCEPT ![o] = I!NoMark])
  BY DEF I!Persist, I!NextRecovery, I!AddReason, I!Send, I!IncidentFails, I!markers
<1>2. \E p \in {"next", "over", "index", "observe", "record"} : v4' = [v4 EXCEPT ![o] = p]
  BY DEF I!Persist, I!NextRecovery, I!AddReason, I!Send, I!IncidentFails
<1>3. \A q \in I!Observers : (v4'[q] = "reserve" => q # o /\ v4[q] = "reserve") /\ (q # o => v5'[q] = v5[q])
                             /\ v5'[q] \in {v5[q], I!NoMark}
  BY <1>1, <1>2 DEF I!IInv, I!Sending, I!Shaped
<1>4. I!NoMark.at = 0
  BY DEF I!NoMark
<1> QED BY <1>1, <1>3, <1>4 DEF I!ReadInTime

LEMMA ReadInTimeClassify ==
  ASSUME I!IInv, I!ReadInTime, NEW o \in I!Observers, I!Classify(o)
  PROVE  I!ReadInTime' /\ v1' = v1
<1>1. PICK at \in 1..o : \E src \in {"cycle", "monitor"}, c \in I!Classes :
        v3' = [v3 EXCEPT ![o] = [src |-> src, at |-> at, kind |-> c.kind, urgent |-> c.urgent]]
  BY DEF I!Classify
<1>2. UNCHANGED <<v1, v5>> /\ v4[o] = "classify" /\ \E p \in {"persist", "over"} : v4' = [v4 EXCEPT ![o] = p]
  BY DEF I!Classify, I!markers
<1>3. at \in Nat
  BY TimesType DEF I!Observers
<1>4. v3'[o].at \in Nat /\ \A q \in I!Observers : q # o => v3'[q] = v3[q]
  BY <1>1, <1>3 DEF I!IInv, I!Telling
<1>5. \A q \in I!Observers : v4'[q] = "reserve" => q # o /\ v4[q] = "reserve"
  BY <1>2 DEF I!IInv, I!Sending, I!Shaped
<1> QED BY <1>2, <1>4, <1>5 DEF I!ReadInTime

LEMMA ReadInTimeRead ==
  ASSUME I!IInv, I!ReadInTime, NEW o \in I!Observers, I!ReadMarker(o)
  PROVE  I!ReadInTime' /\ v1' = v1
<1>1. /\ UNCHANGED <<v1, v3>> /\ v5' = [v5 EXCEPT ![o] = I!Mine(o)] /\ v4' = [v4 EXCEPT ![o] = "reserve"] /\ ~(I!Mine(o).at > v3[o].at)
  BY DEF I!ReadMarker, I!markers, I!Late
<1>2. I!Mine(o).at \in Nat /\ v3[o].at \in Nat
  BY DEF I!IInv, I!Sending, I!Shaped, I!ReadInTime, I!Mine, I!Reason, I!Reasons
<1>3. v5'[o] = I!Mine(o) /\ \A q \in I!Observers : q # o => v5'[q] = v5[q] /\ v4'[q] = v4[q]
  BY <1>1 DEF I!IInv, I!Sending, I!Shaped
<1> QED BY <1>1, <1>2, <1>3 DEF I!ReadInTime

\* The marker is written, with the time of the observation.
LEMMA ReadInTimeWrite ==
  ASSUME I!IInv, I!ReadInTime, NEW o \in I!Observers, I!Cursor(o) \/ I!RecordDelivery(o)
  PROVE  I!ReadInTime' /\ \A r \in I!Reasons : v1'[r].active = v1[r].active
<1> DEFINE m == I!Reason(v7[o].family)
<1>1. /\ UNCHANGED <<v3, v5>> /\ v4' = [v4 EXCEPT ![o] = "next"]
      /\ v1' = v1 \/ v1' = [v1 EXCEPT ![m].ver = @ + 1, ![m].at = v3[o].at]
  BY DEF I!Cursor, I!RecordDelivery
<1>2. \A q \in I!Observers : v4'[q] = "reserve" => v4[q] = "reserve"
  BY <1>1 DEF I!IInv, I!Sending, I!Shaped
<1>3. CASE v1' = v1
  BY <1>1, <1>2, <1>3 DEF I!ReadInTime
<1>4. CASE v1' = [v1 EXCEPT ![m].ver = @ + 1, ![m].at = v3[o].at]
  <2> DEFINE n == [v1[m] EXCEPT !.ver = @ + 1, !.at = v3[o].at]
  <2>1. m \in I!Reasons /\ DOMAIN v1 = I!Reasons /\ DOMAIN v1[m] = DOMAIN I!NoMark
    BY DEF I!IInv, I!Sending, I!Shaped, I!Reason, I!Reasons
  <2>2. n.at = v3[o].at /\ n.active = v1[m].active
    BY <2>1 DEF I!NoMark
  <2>3. v1' = [v1 EXCEPT ![m] = n]
    BY <1>4
  <2> HIDE DEF n, m
  <2>4. v1'[m] = n /\ \A r \in I!Reasons : r # m => v1'[r] = v1[r]
    BY <2>1, <2>3
  <2> QED BY <1>1, <1>2, <2>2, <2>4 DEF I!ReadInTime
<1> QED BY <1>1, <1>3, <1>4

LEMMA ReadInTimeReserve ==
  ASSUME I!IInv, I!ReadInTime, NEW o \in I!Observers, I!Reserve(o)
  PROVE  I!ReadInTime' /\ I!LateClosesNothing
<1> DEFINE m == I!Reason(v7[o].family)
           n == I!Observed(o)
<1>1. /\ UNCHANGED v3 /\ v5' = [v5 EXCEPT ![o] = I!NoMark] /\ v4[o] = "reserve"
      /\ \E p \in {"observe", "send", "cursor"} : v4' = [v4 EXCEPT ![o] = p]
      /\ \/ v1' = v1
         \/ /\ v1' = [v1 EXCEPT ![m] = n] /\ I!Unmoved(o)
            /\ v7[o].act = "raise" \/ v7[o].act = "recover"
  BY DEF I!Reserve
<1>2. \A q \in I!Observers : (v4'[q] = "reserve" => q # o /\ v4[q] = "reserve") /\ (q # o => v5'[q] = v5[q])
                             /\ v5'[q] \in {v5[q], I!NoMark}
  BY <1>1 DEF I!IInv, I!Sending, I!Shaped
<1>3. I!NoMark.at = 0
  BY DEF I!NoMark
<1>4. m \in I!Reasons /\ DOMAIN v1 = I!Reasons
  BY DEF I!IInv, I!Sending, I!Shaped, I!Reason, I!Reasons
<1>5. n.at = v3[o].at /\ n.active = (v7[o].act # "recover")
  BY DEF I!IInv, I!Sending, I!Shaped, I!Observed, I!NoMark
<1>6. CASE v1' = v1
  BY <1>1, <1>2, <1>3, <1>6 DEF I!ReadInTime, I!LateClosesNothing
<1>7. CASE /\ v1' = [v1 EXCEPT ![m] = n] /\ I!Unmoved(o)
           /\ v7[o].act = "raise" \/ v7[o].act = "recover"
  <2>1. v5[o] = v1[m]
    BY <1>1, <1>7 DEF I!Unmoved, I!Mine, I!IInv, I!Sending, I!ReadIsPresent
  <2>2. v1[m].at <= v3[o].at /\ v3[o].at \in Nat /\ v1[m].at \in Nat
    BY <1>1, <1>4, <2>1 DEF I!ReadInTime
  <2> HIDE DEF n
  <2>3. v1'[m] = n /\ \A r \in I!Reasons : r # m => v1'[r] = v1[r]
    BY <1>4, <1>7
  <2>4. I!ReadInTime'
    BY <1>1, <1>2, <1>3, <1>5, <2>2, <2>3 DEF I!ReadInTime
  <2>5. I!LateClosesNothing
    BY <1>1, <1>5, <1>7, <2>2, <2>3 DEF I!LateClosesNothing
  <2> QED BY <2>4, <2>5
<1> QED BY <1>1, <1>6, <1>7

LEMMA ReadInTimeStep ==
  ASSUME I!IInv, I!ReadInTime, I!Next \/ UNCHANGED vars
  PROVE  I!ReadInTime' /\ I!LateClosesNothing
<1>1. ASSUME I!ReadInTime', \A r \in I!Reasons : v1'[r].active = v1[r].active PROVE I!ReadInTime' /\ I!LateClosesNothing
  BY <1>1 DEF I!LateClosesNothing
<1>2. CASE UNCHANGED vars
  BY <1>1, <1>2 DEF vars, I!ReadInTime
<1>3. ASSUME NEW o \in I!Observers,
             \/ I!Classify(o) \/ I!Persist(o) \/ I!NextRecovery(o) \/ I!AddReason(o) \/ I!ReadMarker(o) \/ I!Reserve(o) \/ I!Cursor(o)
             \/ I!Send(o) \/ I!RecordDelivery(o) \/ I!IncidentFails(o)
      PROVE  I!ReadInTime' /\ I!LateClosesNothing
  BY <1>1, <1>3, ReadInTimeSame, ReadInTimeClassify, ReadInTimeRead, ReadInTimeWrite, ReadInTimeReserve
<1> QED BY <1>2, <1>3 DEF I!Next

==============================================================================
