---------------------------- MODULE RuntimeGuard ----------------------------
(***************************************************************************)
(* scripts/cloud_run_runtime_guard.py with runtime_guard_alert_dedupe.py:  *)
(* a scheduled job reads the failures that one service and its scheduler   *)
(* logged in a window that is longer than the job's period, and alerts     *)
(* unless it only repeats itself.  What it alerted is a file the workflow  *)
(* keeps in a cache between two runs; a run is killed, a query fails, or   *)
(* the cache loses the file.  The job runs alone (concurrency group).      *)
(***************************************************************************)
EXTENDS Integers, Sequences

CONSTANTS
  Ends,        \* bound: the last tick
  Failures,    \* bound: failures logged
  Replies,     \* bound: the logs that answer, and whether one request succeeded
  Lookback, Reminder, Retention   \* in ticks

Logs == {"service", "scheduler"}
Types == {"service failures", "scheduler failures", "service query", "scheduler query", "no success"}
Ids == 1..Failures

VARIABLES
  now,
  log,       \* the failures: which log, and when; ids in the order of time
  file,      \* the state file: events with their stamps, and issues
  run,       \* a run that has just ended: how, and what it found
  tried,     \* history: alerts decided since the issues were last lost or cleared
  noticed    \* history: the failures told since the file was last lost

vars == <<now, log, file, run, tried, noticed>>

Blank == [events |-> [i \in Ids |-> -1], issues |-> {}]
NoRun == [is |-> "none", types |-> {}, ids |-> {}]

TypeOK ==
  /\ now \in 0..Ends
  /\ log \in Seq([from: Logs, at: 0..Ends]) /\ Len(log) <= Failures
  /\ file.events \in [Ids -> -1..Ends]
  /\ file.issues \subseteq [types: SUBSET Types, at: 0..Ends]
  /\ run \in [is: {"none", "healthy", "alert", "repeat"}, types: SUBSET Types, ids: SUBSET Ids]
  /\ tried \subseteq [types: SUBSET Types, at: 0..Ends]
  /\ noticed \subseteq Ids

Init ==
  /\ now = 0
  /\ log = <<>>
  /\ file = Blank
  /\ run = NoRun /\ tried = {} /\ noticed = {}

Tick ==
  /\ now < Ends /\ now' = now + 1
  /\ run' = NoRun
  /\ UNCHANGED <<log, file, tried, noticed>>

Fail(l) ==
  /\ Len(log) < Failures
  /\ log' = Append(log, [from |-> l, at |-> now])
  /\ run' = NoRun
  /\ UNCHANGED <<now, file, tried, noticed>>

\* The cache entry is evicted, or was not there.
Lose ==
  /\ file # Blank
  /\ file' = Blank /\ tried' = {} /\ noticed' = {} /\ run' = NoRun
  /\ UNCHANGED <<now, log>>

----------------------------------------------------------------------------
(* What a run finds, given the queries that are answered.                  *)

\* Not what a revision did that has been replaced by one that is ready.
Since(ready) == IF ready > now - Lookback THEN ready ELSE now - Lookback
Found(l, ready) == {i \in DOMAIN log : log[i].from = l /\ log[i].at >= Since(ready)}

\* A failed request fails its scheduler job as well, and is told once.
Duplicate(i, answered, ready) ==
  "service" \in answered /\ \E j \in Found("service", ready) : log[j].at = log[i].at
FoundIn(answered, ready) ==
  (IF "service" \in answered THEN Found("service", ready) ELSE {})
  \cup (IF "scheduler" \in answered
        THEN {i \in Found("scheduler", ready) : ~Duplicate(i, answered, ready)} ELSE {})

\* Issues are told apart by their kind, not by their counts.
TypesOf(ids, answered, succeeded) ==
  {t \in Types :
     CASE t = "service failures"   -> \E i \in ids : log[i].from = "service"
       [] t = "scheduler failures" -> \E i \in ids : log[i].from = "scheduler"
       [] t = "service query"      -> "service" \notin answered
       [] t = "scheduler query"    -> "scheduler" \notin answered
       [] t = "no success"         -> "service" \in answered /\ ~succeeded}

----------------------------------------------------------------------------
(* Whether it alerts, and what the file says afterwards.                   *)

PrunedSoon(state) ==
  [state EXCEPT !.events = [i \in Ids |-> IF @[i] >= now THEN @[i] ELSE -1]]
Pruned(state) ==
  [state EXCEPT !.events = [i \in Ids |-> IF @[i] >= now - Retention THEN @[i] ELSE -1]]

New(ids, state) == {i \in ids : state.events[i] = -1}
Last(types, state) == {x \in state.issues : x.types = types}
Lately(types, state) == \E x \in Last(types, state) : now - x.at < Reminder
SameIssue(types, ids, state) == Lately(types, state)
Repeats(types, ids, state) == New(ids, state) = {} /\ Lately(types, state)

Recorded(types, ids, state) ==
  [events |-> [i \in Ids |-> IF i \in New(ids, state) THEN now ELSE state.events[i]],
   issues |-> IF Repeats(types, ids, state) THEN state.issues
              ELSE (state.issues \ Last(types, state)) \cup {[types |-> types, at |-> now]}]

\* Nothing found: the issues are forgotten, so that one of them is new again.
Remembered(state) == state
Forgotten(state) == [state EXCEPT !.issues = {}]

\* The file is written before the message is sent: the alert of a run that is
\* killed in between is told by its red mark alone.  A file that is not kept
\* leaves the one before it.
Guard(answered, succeeded, ready, kept) ==
  LET ids == FoundIn(answered, ready)
      types == TypesOf(ids, answered, succeeded)
      state == Pruned(file)
      again == Repeats(types, ids, state)
  IN  /\ run' = [is |-> IF types = {} THEN "healthy" ELSE IF again THEN "repeat" ELSE "alert",
                 types |-> types, ids |-> ids]
      /\ IF ~kept THEN UNCHANGED <<file, tried, noticed>>
         ELSE IF types = {}
         THEN file' = Forgotten(state) /\ tried' = {} /\ UNCHANGED noticed
         ELSE /\ file' = Recorded(types, ids, state)
              /\ tried' = IF again THEN tried ELSE tried \cup {[types |-> types, at |-> now]}
              /\ noticed' = IF again THEN noticed ELSE noticed \cup ids
      /\ UNCHANGED <<now, log>>

Next ==
  \/ Tick \/ Lose
  \/ \E l \in Logs : Fail(l)
  \/ \E reply \in Replies, ready \in {0, now}, kept \in BOOLEAN :
       Guard(reply.answered, reply.succeeded, ready, kept)

Spec == Init /\ [][Next]_vars
----------------------------------------------------------------------------
(* Properties.                                                             *)

\* A run keeps quiet only about failures it decided to tell before, and about
\* issues told within the reminder time and not seen to be over since ("new
\* failure log entries -> always alert", "a recurrence alerts immediately").
QuietWasTold ==
  run.is = "repeat" =>
    /\ run.ids \subseteq noticed
    /\ \E x \in tried : x.types = run.types /\ now - x.at < Reminder

\* While the file is kept, nothing is told again before the reminder is due
\* that holds no new failure: what is forgotten is out of the window.
ToldAgainWhenDue ==
  \A x \in tried : run'.is = "alert" /\ run' # run /\ run'.types = x.types
                    /\ run'.ids \subseteq noticed
                      => now - x.at >= Reminder

(***************************************************************************)
(* The inductive invariant behind QuietWasTold.                            *)
(***************************************************************************)

\* What the file says was told, was.
FileIsTrue ==
  /\ \A i \in Ids : file.events[i] # -1 => i \in noticed
  /\ file.issues \subseteq tried
IInv ==
  /\ DOMAIN file = DOMAIN Blank /\ DOMAIN file.events = Ids
  /\ now \in Int /\ log \in Seq([from : Logs, at : Int]) /\ Len(log) <= Failures
  /\ FileIsTrue /\ QuietWasTold

\* The one behind ToldAgainWhenDue: the file knows the failures that are still
\* in the window, and the last alert of each kind.
FileIsWhole ==
  /\ now \in Nat /\ \A i \in DOMAIN log : log[i].at \in Nat /\ log[i].at <= now
  /\ \A i \in Ids : file.events[i] \in Int
  /\ \A i \in noticed : i \in DOMAIN log /\ (file.events[i] >= log[i].at \/ log[i].at < now - Retention)
  /\ \A x \in tried : x.at \in Int /\ x.at <= now /\ \E y \in file.issues : y.types = x.types /\ y.at >= x.at
============================================================================
