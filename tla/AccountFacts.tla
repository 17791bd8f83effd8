---------------------------- MODULE AccountFacts ----------------------------
(***************************************************************************)
(* scripts/publish_account_facts_from_report.py: one report of the service *)
(* is chosen from the bucket, held against the revision that serves, and   *)
(* posted once to the receiver of account facts; and                       *)
(* scripts/publish_account_facts_archive.py: reports that a person has     *)
(* reviewed are appended to its history.  Reports arrive, a new revision   *)
(* takes over and objects are written anew while the programs run; every   *)
(* call may fail, and the answer to a post may be lost.                    *)
(***************************************************************************)
EXTENDS Integers, Sequences, FiniteSets

CONSTANTS
  Reports,    \* bound: reports in the bucket
  Reads,      \* _REPORT_READ_LIMIT
  Changes     \* bound: takeovers of revisions, and objects written anew

Revs == {"r1", "r2"}
\* A fresh snapshot of the account, the report of a cycle that a closed market
\* ended, any other.
Kinds == {"facts", "closed", "other"}

VARIABLES
  store,      \* the reports, oldest first: what each is, its revision, its version
  serving,    \* the revision with all the traffic, or "split"
  changes,
  how,        \* "latest", "serving" or "named"
  pc,
  expected,   \* expected_runtime_revision
  newest,     \* the report the first listing ended with
  listed,     \* how many the last listing held
  at,         \* the report that is read, or chosen
  confirmed,  \* history: what served when the choice was confirmed
  stored,     \* the receiver: observations it took
  days,       \* the archive: what was reviewed, the payloads read, how many written
  result

vars == <<store, serving, changes, how, pc, expected, newest, listed, at, confirmed,
          stored, days, result>>
world == <<store, serving, changes>>
chosen == <<how, expected, newest, listed, confirmed>>

Report == [is: Kinds, rev: Revs, version: 0..Changes]
NoDays == [reviewed |-> <<>>, payloads |-> <<>>, written |-> 0]

TypeOK ==
  /\ store \in Seq(Report) /\ Len(store) <= Reports
  /\ serving \in Revs \cup {"split"}
  /\ changes \in 0..Changes
  /\ how \in {"none", "latest", "serving", "named", "archive"}
  /\ pc \in {"idle", "resolve", "list", "first", "again", "older", "confirm", "publish",
             "qualify", "append", "over"}
  /\ expected \in Revs
  /\ newest \in 0..Reports /\ listed \in 0..Reports /\ at \in 0..Reports
  /\ confirmed \in Revs \cup {"none"}
  /\ stored \subseteq [of: 1..Reports, version: 0..Changes]
  /\ {days.reviewed, days.payloads} \subseteq Seq([of: 1..Reports, version: 0..Changes])
  /\ days.written <= Len(days.payloads) /\ Len(days.payloads) <= Len(days.reviewed)
  /\ result \in {"none", "published", "unchanged", "skipped"}

Init ==
  /\ store \in UNION {[1..n -> {r \in Report : r.version = 0 /\ r.rev = "r1"}] : n \in 0..Reports - 1}
  /\ serving = "r1" /\ changes = 0
  /\ how = "none" /\ pc = "idle" /\ expected = "r1"
  /\ newest = 0 /\ listed = 0 /\ at = 0 /\ confirmed = "none"
  /\ stored = {} /\ days = NoDays /\ result = "none"

----------------------------------------------------------------------------
(* The service and its reports.                                            *)

running == <<how, pc, expected, newest, listed, at, confirmed, stored, days, result>>

\* What arrives after the last listing is left to the next run.
Arrive(kind, rev) ==
  /\ pc \in {"resolve", "list", "first", "again"} /\ Len(store) < Reports
  /\ serving \in {rev, "split"}
  /\ store' = Append(store, [is |-> kind, rev |-> rev, version |-> 0])
  /\ UNCHANGED <<serving, changes, running>>

Takeover(to) ==
  /\ how # "archive" /\ pc \notin {"idle", "over"} /\ changes < Changes /\ to # serving
  /\ serving' = to /\ changes' = changes + 1
  /\ UNCHANGED <<store, running>>

WriteAnew(i) ==
  /\ how = "archive" /\ pc # "over" /\ changes < Changes
  /\ store' = [store EXCEPT ![i].version = @ + 1] /\ changes' = changes + 1
  /\ UNCHANGED <<serving, running>>

----------------------------------------------------------------------------
(* The choice.                                                             *)

Stop(as) == pc' = "over" /\ result' = as
Skipped == Stop("skipped") /\ UNCHANGED <<world, chosen, at, stored, days>>

\* A named report goes with the configured revision.
Start(as) ==
  /\ pc = "idle"
  /\ how' = as
  /\ pc' = IF as = "serving" THEN "resolve" ELSE "list"
  /\ UNCHANGED <<world, expected, newest, listed, at, confirmed, stored, days, result>>

\* One revision with all the traffic, or nothing.
Resolve ==
  /\ pc = "resolve" /\ serving \in Revs
  /\ expected' = serving /\ pc' = "list"
  /\ UNCHANGED <<world, how, newest, listed, at, confirmed, stored, days, result>>

List ==
  /\ pc = "list" /\ store # <<>>
  /\ \E i \in IF how = "named" THEN 1..Len(store) ELSE {Len(store)} :
       newest' = i /\ listed' = Len(store) /\ at' = i
  /\ pc' = "first"
  /\ UNCHANGED <<world, how, expected, confirmed, stored, days, result>>

\* A skip that is proven by everything but the facts it does not hold.
NormalSkip(r) == r.is = "closed" /\ r.rev = expected
Chosen == pc' = "confirm" /\ UNCHANGED <<world, chosen, at, stored, days, result>>

\* "New errors and exact names never fall back."
First ==
  /\ pc = "first"
  /\ IF how # "named" /\ NormalSkip(store[at])
       THEN pc' = "again" /\ UNCHANGED <<world, chosen, at, stored, days, result>>
       ELSE Chosen

\* The second listing is taken as it is.
TakenAsListed == TRUE
SameNewest == Len(store) = newest
Again ==
  /\ pc = "again"
  /\ listed' = Len(store)
  /\ IF ~SameNewest \/ Len(store) = 1 \/ Reads = 1
       THEN Stop("skipped") /\ UNCHANGED at
       ELSE pc' = "older" /\ at' = Len(store) - 1 /\ UNCHANGED result
  /\ UNCHANGED <<world, how, expected, newest, confirmed, stored, days>>

Older ==
  /\ pc = "older"
  /\ IF ~NormalSkip(store[at]) THEN Chosen
     ELSE IF at = 1 \/ listed - at + 1 = Reads THEN Skipped
     ELSE /\ at' = at - 1
          /\ UNCHANGED <<world, chosen, pc, stored, days, result>>

\* What served before must serve still.
NotAskedAgain == how = "serving"
StillServing == how = "serving" => serving = expected
Confirm ==
  /\ pc = "confirm"
  /\ confirmed' = IF serving \in Revs THEN serving ELSE "none"
  /\ IF StillServing THEN pc' = "publish" /\ UNCHANGED result ELSE Stop("skipped")
  /\ UNCHANGED <<world, how, expected, newest, listed, at, stored, days>>

----------------------------------------------------------------------------
(* The post.                                                               *)

\* Facts that are fresh, of the revision that is expected.
Projected(r) == r.is = "facts" /\ r.rev = expected
Observation(i) == [of |-> i, version |-> store[i].version]

\* The receiver, as its answers are read: it takes what it is given, has it
\* already, or refuses it; the request or its answer may be lost.
Taken(o) == stored' = stored \cup {o}
Replies(o) ==
  {"lost", "refused", "vague"} \cup (IF o \in stored THEN {"unchanged"} ELSE {"stored", "stored lost"})
\* What is said to be done without naming what was stored.
Any2xx(reply) == IF reply = "vague" THEN "stored" ELSE reply
Acknowledged(reply) == reply

Publish ==
  /\ pc = "publish"
  /\ IF ~Projected(store[at]) THEN Stop("skipped") /\ UNCHANGED stored
     ELSE \E reply \in Replies(Observation(at)) :
            /\ IF reply \in {"stored", "stored lost"} THEN Taken(Observation(at)) ELSE UNCHANGED stored
            /\ Stop(CASE Acknowledged(reply) = "stored" -> "published"
                      [] Acknowledged(reply) = "unchanged" -> "unchanged"
                      [] OTHER -> "skipped")
  /\ UNCHANGED <<world, chosen, at, days>>

----------------------------------------------------------------------------
(* The archive: every day is held against its review before the first is   *)
(* written, and the first that fails ends the run.                         *)

Review(reviewed) ==
  /\ pc = "idle"
  /\ how' = "archive" /\ pc' = "qualify"
  /\ days' = [NoDays EXCEPT !.reviewed = reviewed]
  /\ UNCHANGED <<world, expected, newest, listed, at, confirmed, stored, result>>

\* A payload is the projection of the report as it is read.
Payload(i) == Observation(days.reviewed[i].of)
AsItIsNow(i) == store[days.reviewed[i].of].is = "facts"
AsReviewed(i) == AsItIsNow(i) /\ Payload(i) = days.reviewed[i]
Qualify ==
  /\ pc = "qualify"
  /\ LET i == Len(days.payloads) + 1
     IN  IF i > Len(days.reviewed)
           THEN pc' = "append" /\ UNCHANGED <<days, result>>
         ELSE IF AsReviewed(i)
           THEN days' = [days EXCEPT !.payloads = Append(@, Payload(i))] /\ UNCHANGED <<pc, result>>
         ELSE Stop("skipped") /\ UNCHANGED days
  /\ UNCHANGED <<world, chosen, at, stored>>

\* What is appended is what was qualified, whatever the object is by now.
Append1 ==
  /\ pc = "append"
  /\ LET i == days.written + 1
         o == days.payloads[i]
     IN  IF i > Len(days.reviewed) THEN Stop("published") /\ UNCHANGED <<stored, days>>
         ELSE \E reply \in Replies(o) :
                /\ IF reply \in {"stored", "stored lost"} THEN Taken(o) ELSE UNCHANGED stored
                /\ IF Acknowledged(reply) \in {"stored", "unchanged"}
                     THEN days' = [days EXCEPT !.written = i] /\ UNCHANGED <<pc, result>>
                     ELSE Stop("skipped") /\ UNCHANGED days
  /\ UNCHANGED <<world, chosen, at>>

\* Any reading fails, or the run is cancelled.
Fail == pc \notin {"idle", "over"} /\ Skipped

\* Reviewed reports with facts, one per day, in the order of the days.
Reviews ==
  {<<[of |-> i, version |-> store[i].version]>> : i \in DOMAIN store} \cup
  {<<[of |-> i, version |-> store[i].version], [of |-> j, version |-> store[j].version]>> :
     i \in DOMAIN store, j \in {k \in DOMAIN store : k > 1}}

Next ==
  \/ \E kind \in Kinds, rev \in Revs : Arrive(kind, rev)
  \/ \E to \in Revs \cup {"split"} : Takeover(to)
  \/ \E i \in DOMAIN store : WriteAnew(i)
  \/ \E as \in {"latest", "serving", "named"} : Start(as)
  \/ \E reviewed \in {r \in Reviews : Len(r) = 2 => r[1].of < r[2].of} : Review(reviewed)
  \/ Resolve \/ List \/ First \/ Again \/ Older \/ Confirm \/ Publish
  \/ Qualify \/ Append1 \/ Fail

Spec == Init /\ [][Next]_vars

----------------------------------------------------------------------------
(* Properties.                                                             *)

Posted == how # "archive" /\ stored # {}

\* A report is published instead of a newer one only where every newer one,
\* up to the last listing, is the skip of a closed market by the revision
\* that is expected ("only this proved normal skip may stop overshadowing a
\* real snapshot").
NothingOvershadowed ==
  Posted /\ how # "named" => \A i \in at + 1..listed : store[i].is = "closed" /\ store[i].rev = expected

\* Where the revision is resolved, the facts are those of the revision that
\* still served when the choice was made.
OfTheServing == Posted /\ how = "serving" => store[at].rev = confirmed

\* Success is reported only for what the receiver holds: the observation of
\* the chosen report, or every reviewed one.
PublishedIsStored ==
  result \in {"published", "unchanged"} =>
    IF how = "archive"
      THEN \A i \in DOMAIN days.reviewed : days.reviewed[i] \in stored
      ELSE Observation(at) \in stored

\* The archive writes nothing before every day was found as it was reviewed,
\* and never anything else ("archive_reviewed_projection_changed").
OnlyReviewed ==
  how = "archive" /\ stored # {} =>
    /\ Len(days.payloads) = Len(days.reviewed)
    /\ \A o \in stored : \E i \in DOMAIN days.reviewed : o = days.reviewed[i]

(***************************************************************************)
(* The inductive invariant behind all of them.                             *)
(***************************************************************************)

\* Where a run of a kind is, and what it has listed.
Way ==
  /\ pc = "idle" => how = "none"
  /\ result # "none" => pc = "over"
  /\ pc \in {"qualify", "append"} <=> how = "archive" /\ pc # "over"
  /\ pc = "resolve" => how = "serving"
  /\ pc \in {"again", "older"} => how \in {"latest", "serving"}
  /\ pc \in {"list", "first", "confirm", "publish"} => how \in {"latest", "serving", "named"}
Listed ==
  /\ at \in Nat /\ listed \in Nat /\ newest \in Nat /\ expected \in Revs
  /\ pc \in {"first", "again", "older", "confirm", "publish"} =>
       at > 0 /\ at <= listed /\ listed <= Len(store)
  /\ how # "named" => (pc \in {"first", "again"} => at = newest /\ at = listed) /\ (pc = "again" => NormalSkip(store[at]))

\* What was passed over, and what served.
Passed == \A i \in at + 1..listed : NormalSkip(store[i])
Choice ==
  /\ how # "named" /\ pc \in {"first", "again", "older", "confirm", "publish"} => Passed
  /\ how = "serving" /\ pc = "publish" => confirmed = expected

\* What was posted, and what was archived.
Posting ==
  how # "archive" =>
    /\ pc # "over" => stored = {}
    /\ stored # {} => /\ at \in DOMAIN store /\ Projected(store[at]) /\ (how # "named" => Passed)
                      /\ how = "serving" => confirmed = expected
Archive ==
  how = "archive" =>
    /\ pc = "qualify" => stored = {} /\ days.written = 0
    /\ pc = "append" \/ stored # {} => Len(days.payloads) = Len(days.reviewed)
    /\ days.written <= Len(days.payloads)
    /\ \A i \in DOMAIN days.payloads : i \in DOMAIN days.reviewed /\ days.payloads[i] = days.reviewed[i]
    /\ \A o \in stored : \E i \in DOMAIN days.payloads : o = days.payloads[i]
    /\ \A i \in 1..days.written : days.payloads[i] \in stored

\* What of TypeOK the rest of it needs.
Shaped ==
  /\ store \in Seq([is: Kinds, rev: Revs, version: Int])
  /\ DOMAIN days = DOMAIN NoDays /\ days.written \in Nat
  /\ {days.reviewed, days.payloads} \subseteq Seq([of: Int, version: Int])
IInv == Shaped /\ Way /\ Listed /\ Choice /\ Posting /\ Archive /\ PublishedIsStored
=============================================================================
