-------------------------- MODULE DigestCandidates --------------------------
(***************************************************************************)
(* The digest of one day and target: notifications/unified_adapter.py,     *)
(* persist_candidate, with scripts/project_digest_candidates.py,           *)
(* project_notification_events.  Observers of one run (its cycle, its      *)
(* monitors, the archive, the settlement of its order) store their facts   *)
(* side by side: merged into a state document by compare-and-set, then     *)
(* published as an object that carries the document's revision.            *)
(***************************************************************************)
EXTENDS Naturals

CONSTANT Observers   \* bound: the observers of the run

\* What the events of a run tell: nothing, an order, something urgent, an
\* order whose status is unknown, the settlement of one.
Kinds == {"routine", "order", "alert", "unknown", "settlement"}

VARIABLES
  doc,      \* the state document: its generation, revision and events
  obj,      \* the published object: its generation, revision and events, and
            \* whether the day's slot is this account's
  fact,     \* of each observer: what it stores
  pc,
  seen      \* what it has read of the document or the object

vars == <<doc, obj, fact, pc, seen>>

\* An event of the document; seq is that of a settlement, 2 when terminal,
\* count the number of orders, 0 when unknown.
Rec    == [in: BOOLEAN, count: 0..2, conflict: BOOLEAN, seq: 0..2]
NoRec  == [in |-> FALSE, count |-> 0, conflict |-> FALSE, seq |-> 0]
Events == [Kinds -> Rec]
Empty  == [k \in Kinds |-> NoRec]
Nothing == [ver |-> 0, rev |-> 0, ev |-> Empty]

Facts ==
  [kind: {"routine", "alert", "unknown"}, count: {0}, seq: {0}]
  \cup [kind: {"order"}, count: 0..2, seq: {0}] \cup [kind: {"settlement"}, count: {0}, seq: 1..2]
Routine == [kind |-> "routine", count |-> 0, seq |-> 0]

TypeOK ==
  /\ doc.ver \in Nat /\ doc.rev \in Nat /\ doc.ev \in Events
  /\ obj.gen \in Nat /\ obj.rev \in Nat /\ obj.ev \in Events /\ obj.ours \in BOOLEAN
  /\ fact \in [Observers -> Facts]
  /\ pc \in [Observers -> {"read", "merge", "object", "put", "stored", "raised"}]
  /\ \A o \in Observers : seen[o].ev \in Events

Init ==
  /\ doc = [ver |-> 0, rev |-> 0, ev |-> Empty]
  /\ \E ours \in BOOLEAN : obj = [gen |-> IF ours THEN 0 ELSE 1, rev |-> 0, ev |-> Empty, ours |-> ours]
  /\ fact \in [Observers -> Facts]
  /\ pc = [o \in Observers |-> "read"]
  /\ seen = [o \in Observers |-> Nothing]

ReadDoc(o) ==
  /\ pc[o] = "read"
  /\ seen' = [seen EXCEPT ![o] = doc]
  /\ pc' = [pc EXCEPT ![o] = "merge"]
  /\ UNCHANGED <<doc, obj, fact>>

\* A later snapshot of a settlement wins; counts that differ are in conflict
\* for good, one that was unknown is filled in.
Merged(o, prior) ==
  LET f == fact[o] IN
  IF ~prior.in THEN [in |-> TRUE, count |-> f.count, conflict |-> FALSE, seq |-> f.seq]
  ELSE IF f.kind = "settlement" THEN [prior EXCEPT !.seq = IF f.seq > @ THEN f.seq ELSE @]
  ELSE [prior EXCEPT !.count = IF @ = 0 THEN f.count ELSE @,
                     !.conflict = @ \/ (prior.count # 0 /\ f.count # 0 /\ prior.count # f.count)]

\* A plausible slip: written without the generation.
WriteAnyway(o, ver) == TRUE

\* compare_and_set: only what was read may be replaced.
Unmoved(o, ver) == seen[o].ver = ver

\* The document with the fact, written unless nothing changed.
MergeDoc(o) ==
  /\ pc[o] = "merge"
  /\ LET new == [seen[o].ev EXCEPT ![fact[o].kind] = Merged(o, @)]
         rev == seen[o].rev + (IF new # seen[o].ev THEN 1 ELSE 0)
     IN IF new # seen[o].ev /\ ~Unmoved(o, doc.ver)
        THEN /\ pc' = [pc EXCEPT ![o] = "read"]
             /\ seen' = [seen EXCEPT ![o] = Nothing]
             /\ UNCHANGED doc
        ELSE /\ doc' = IF new # seen[o].ev THEN [ver |-> doc.ver + 1, rev |-> rev, ev |-> new] ELSE doc
             /\ seen' = [seen EXCEPT ![o] = [ver |-> 0, rev |-> rev, ev |-> new]]
             /\ pc' = [pc EXCEPT ![o] = "object"]
  /\ UNCHANGED <<obj, fact>>

\* A plausible slip: the revision of the object is not looked at.
NothingNewer(o) == FALSE

\* publish: a revision that is as new stands.
NewerStands(o) == obj.gen > 0 /\ obj.rev >= seen[o].rev

\* Another account's object refuses.
ReadObject(o) ==
  /\ pc[o] = "object" /\ obj.ours
  /\ IF NewerStands(o)
     THEN pc' = [pc EXCEPT ![o] = "stored"] /\ UNCHANGED seen
     ELSE /\ seen' = [seen EXCEPT ![o] = [@ EXCEPT !.ver = obj.gen]]
          /\ pc' = [pc EXCEPT ![o] = "put"]
  /\ UNCHANGED <<doc, obj, fact>>

PutObject(o) ==
  /\ pc[o] = "put"
  /\ IF Unmoved(o, obj.gen)
     THEN /\ obj' = [obj EXCEPT !.gen = @ + 1, !.rev = seen[o].rev, !.ev = seen[o].ev]
          /\ pc' = [pc EXCEPT ![o] = "stored"]
     ELSE pc' = [pc EXCEPT ![o] = "object"] /\ UNCHANGED obj
  /\ UNCHANGED <<doc, fact, seen>>

\* A call that raises; a write that raises may have taken effect.
Raise(o) ==
  /\ pc[o] \in {"read", "merge", "object", "put"}
  /\ pc' = [pc EXCEPT ![o] = "raised"]
  /\ seen' = [seen EXCEPT ![o] = Nothing]
  /\ UNCHANGED <<doc, obj, fact>>

WriteUnanswered(o) ==
  /\ \/ /\ pc[o] = "merge" /\ Unmoved(o, doc.ver)
        /\ LET new == [doc.ev EXCEPT ![fact[o].kind] = Merged(o, @)] IN
             new # doc.ev /\ doc' = [ver |-> doc.ver + 1, rev |-> doc.rev + 1, ev |-> new]
        /\ UNCHANGED obj
     \/ /\ pc[o] = "put" /\ Unmoved(o, obj.gen)
        /\ obj' = [obj EXCEPT !.gen = @ + 1, !.rev = seen[o].rev, !.ev = seen[o].ev]
        /\ UNCHANGED doc
  /\ pc' = [pc EXCEPT ![o] = "raised"]
  /\ seen' = [seen EXCEPT ![o] = Nothing]
  /\ UNCHANGED fact

\* Nothing makes an observer go on: one that stops was killed.
Next == \E o \in Observers :
  ReadDoc(o) \/ MergeDoc(o) \/ ReadObject(o) \/ PutObject(o) \/ Raise(o) \/ WriteUnanswered(o)

Spec == Init /\ [][Next]_vars

(***************************************************************************)
(* The digest's row of the run (project_notification_events,               *)
(* project_settlement_rows).                                               *)
(***************************************************************************)

InConflict(ev) == \E k \in Kinds : ev[k].conflict
Alerting(ev) == InConflict(ev) \/ ev["alert"].in

\* The one settlement covers one order; with it the pending evidence of the
\* same run is superseded.
Settled(ev) == ev["settlement"].seq = 2 /\ ev["order"].count = 1 /\ ~InConflict(ev)

Row(ev) ==
  [ok    |-> ~Alerting(ev) /\ (ev["unknown"].in \/ ev["settlement"].in => Settled(ev)),
   count |-> IF InConflict(ev) THEN 0 ELSE ev["order"].count]

(***************************************************************************)
(* Properties.                                                             *)
(***************************************************************************)

\* What an observer was told is stored is in the day's object and stays there,
\* whoever publishes beside it (persist_candidate, publish): the row it was
\* urgent for is no good row, and shows no other count than its own.
StoredIsShown ==
  \A o \in Observers : pc[o] = "stored" =>
    LET f == fact[o]  row == Row(obj.ev) IN
    /\ obj.ev[f.kind].in /\ obj.ev[f.kind].seq >= f.seq
    /\ f.kind = "alert" => ~row.ok
    /\ f.kind = "unknown" => ~row.ok \/ Settled(obj.ev)
    /\ f.count # 0 => row.count \in {0, f.count}

\* The object never goes back: no older revision, no settlement undone, no
\* conflict forgotten (the revision in its metadata, merge_settlement_record).
NeverBack ==
  /\ obj'.rev >= obj.rev
  /\ \A k \in Kinds : /\ obj.ev[k].in => obj'.ev[k].in
                      /\ obj'.ev[k].seq >= obj.ev[k].seq
                      /\ obj.ev[k].conflict => obj'.ev[k].conflict

(***************************************************************************)
(* The inductive invariant behind both.                                    *)
(***************************************************************************)

\* A document that tells all that another tells.
Covers(new, old) ==
  \A k \in Kinds : /\ old[k].in => new[k].in
                   /\ new[k].seq >= old[k].seq
                   /\ old[k].count # 0 => new[k].count = old[k].count
                   /\ old[k].conflict => new[k].conflict
Follows(new, old) == new.rev >= old.rev => Covers(new.ev, old.ev)

\* What of TypeOK the rest of it needs.
Telling(ev) ==
  /\ DOMAIN ev = Kinds
  /\ \A k \in Kinds : /\ DOMAIN ev[k] = DOMAIN NoRec /\ ev[k].count \in Nat /\ ev[k].seq \in Nat
                      /\ ev[k].in \/ (ev[k].count = 0 /\ ev[k].seq = 0 /\ ~ev[k].conflict)
Shaped ==
  /\ DOMAIN doc = DOMAIN Nothing /\ doc.ver \in Nat /\ doc.rev \in Nat /\ Telling(doc.ev)
  /\ DOMAIN obj = {"gen", "rev", "ev", "ours"} /\ obj.gen \in Nat /\ obj.rev \in Nat /\ Telling(obj.ev)
  /\ DOMAIN seen = Observers /\ DOMAIN pc = Observers /\ fact \in [Observers -> Facts]
  /\ \A o \in Observers : /\ DOMAIN seen[o] = DOMAIN Nothing /\ seen[o].ver \in Nat /\ seen[o].rev \in Nat
                          /\ Telling(seen[o].ev)

\* What is in hand or published was a revision of the document; of two of them
\* the later one covers the other.
Agree(a, b) == Follows(a, b) /\ Follows(b, a)
InHand == {o \in Observers : pc[o] \in {"merge", "object", "put"}}
OneHistory ==
  /\ obj.rev <= doc.rev /\ Agree(doc, obj)
  /\ obj.gen = 0 => obj.rev = 0 /\ obj.ev = Empty
  /\ \A o \in InHand :
       /\ seen[o].rev <= doc.rev /\ Agree(doc, seen[o]) /\ Agree(obj, seen[o])
       /\ \A p \in InHand : Agree(seen[p], seen[o])

\* A version is that of one document, or of one object.
ReadIsPresent ==
  \A o \in Observers :
    /\ pc[o] = "merge" => seen[o].ver <= doc.ver /\ (seen[o].ver = doc.ver => seen[o] = doc)
    /\ pc[o] = "put" =>
         seen[o].ver <= obj.gen /\ (seen[o].ver = obj.gen => obj.gen = 0 \/ obj.rev < seen[o].rev)

\* The fact of an observer is in what it goes on with.
Holds(f, ev) ==
  /\ ev[f.kind].in /\ ev[f.kind].seq >= f.seq
  /\ f.count # 0 => ev[f.kind].count = f.count \/ ev[f.kind].conflict
Held ==
  \A o \in Observers : /\ pc[o] \in {"object", "put"} => Holds(fact[o], seen[o].ev)
                       /\ pc[o] = "stored" => Holds(fact[o], obj.ev)
IInv == Shaped /\ OneHistory /\ ReadIsPresent /\ Held
=============================================================================
