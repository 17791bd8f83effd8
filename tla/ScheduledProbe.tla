---------------------------- MODULE ScheduledProbe ---------------------------
(***************************************************************************)
(* scripts/invoke_additional1_account_facts_probe.py: a workflow, of which *)
(* one runs at a time, reads what serves and the job that probes it by     *)
(* schedule, and in a later dispatch runs that job once by hand, if it is  *)
(* still what was reviewed and no other attempt is near.  The process may  *)
(* die anywhere and be started again, or the workflow be dispatched again. *)
(* A time unit is the deadline of an attempt; what is checked and what is  *)
(* then sent happen in one unit.                                           *)
(***************************************************************************)
EXTENDS Integers, Sequences

CONSTANTS
  Times,       \* bound: time
  Dispatches,  \* bound: dispatches of the workflow
  Period       \* between two scheduled attempts

Window == 1    \* READBACK_SECONDS

VARIABLES
  conf,        \* what serves and the configuration of the job, by version
  source,      \* by version: it is the reviewed source
  now,
  next,        \* scheduleTime
  attempts,    \* of the job, the last one is lastAttemptTime
  n, mode, pc,
  reviewed,    \* the version an operator reviewed after a preflight; 0: none
  before,      \* the version that was read first
  evidence,    \* the version whose source was proven
  job,         \* the bridge as it was read
  fence,
  out          \* the receipt

vars == <<conf, source, now, next, attempts, n, mode, pc, reviewed, before, evidence, job, fence, out>>
world == <<conf, source, now, next, attempts>>

Attempt(t, who) == [at |-> t, by |-> who, dispatch |-> n, as |-> "running", logged |-> FALSE]
Nothing == [last |-> 0, next |-> 0, conf |-> 0]
Blank == [attempted |-> FALSE, posts |-> 0, status |-> "blocked", succeeded |-> FALSE]

TypeOK ==
  /\ conf \in 1..2 /\ source \in [1..2 -> BOOLEAN]
  /\ now \in 0..Times /\ next \in 0..(Times + Period)
  /\ \A i \in 1..Len(attempts) :
       attempts[i] \in [at: 0..Times, by: {"schedule", "hand", "ours"}, dispatch: 0..Dispatches,
                        as: {"running", "ok", "failed"}, logged: BOOLEAN]
  /\ n \in 0..Dispatches /\ mode \in {"preflight", "invoke"}
  /\ pc \in {"idle", "prove", "proven", "reread", "window", "previous", "send", "await", "over"}
  /\ {reviewed, before, evidence} \subseteq 0..2
  /\ job \in [last: 0..Times, next: 0..(Times + Period), conf: 0..2]
  /\ fence \in 0..Times
  /\ out \in [attempted: BOOLEAN, posts: 0..2, succeeded: BOOLEAN,
              status: {"blocked", "verified", "unknown", "dispatched", "terminal"}]

Init ==
  /\ conf = 1 /\ source \in {[v \in 1..2 |-> v # bad] : bad \in 2..3}
  /\ now = 0 /\ next = Period /\ n = 0
  /\ attempts = <<[at |-> 0, by |-> "schedule", dispatch |-> 0, as |-> "ok", logged |-> TRUE]>>
  /\ mode = "preflight" /\ pc = "idle" /\ reviewed = 0 /\ before = 0 /\ evidence = 0
  /\ job = Nothing /\ fence = 0 /\ out = Blank

----------------------------------------------------------------------------
(* The scheduler, the service and other people.                            *)

program == <<n, mode, pc, reviewed, before, evidence, job, fence, out>>
Running == {i \in 1..Len(attempts) : attempts[i].as = "running"}

\* No attempt outlives its deadline, and a scheduled one is not late.
Tick ==
  /\ now < Times /\ next > now /\ pc \notin {"previous", "send"}
  /\ \A i \in Running : now < attempts[i].at + 1
  /\ now' = now + 1 /\ UNCHANGED <<conf, source, next, attempts, program>>

Scheduled ==
  /\ next = now
  /\ attempts' = Append(attempts, Attempt(now, "schedule")) /\ next' = now + Period
  /\ UNCHANGED <<conf, source, now, program>>

\* Somebody else runs the job by hand, though not while this program has
\* checked and sends; once.
ByHand ==
  /\ pc \notin {"send", "await"} /\ \A i \in 1..Len(attempts) : attempts[i].by # "hand"
  /\ Running = {}
  /\ attempts' = Append(attempts, Attempt(now, "hand"))
  /\ UNCHANGED <<conf, source, now, next, program>>

\* An attempt ends, its log entries appear.
End(i) ==
  /\ attempts[i].as = "running"
  /\ \E as \in {"ok"} \cup (IF attempts[i].by = "ours" THEN {"failed"} ELSE {}) : attempts' = [attempts EXCEPT ![i].as = as]
  /\ UNCHANGED <<conf, source, now, next, program>>
Log(i) ==
  /\ attempts[i].as # "running" /\ ~attempts[i].logged
  /\ attempts' = [attempts EXCEPT ![i].logged = TRUE]
  /\ UNCHANGED <<conf, source, now, next, program>>

Deploy == conf < 2 /\ conf' = conf + 1 /\ UNCHANGED <<source, now, next, attempts, program>>

Review ==
  /\ pc = "over" /\ out.status = "verified" /\ reviewed' = before
  /\ UNCHANGED <<world, n, mode, pc, before, evidence, job, fence, out>>

----------------------------------------------------------------------------
(* The program.                                                            *)

kept == <<world, n, mode, reviewed, before>>
Forget == evidence' = 0 /\ job' = Nothing /\ fence' = 0
Go(p) == pc' = p /\ UNCHANGED <<out, evidence, job, fence>>
Stop(as) == pc' = "over" /\ out' = [out EXCEPT !.status = as] /\ Forget
Bridge == [last |-> attempts[Len(attempts)].at, next |-> next, conf |-> conf]

\* A receipt that says that the job was run allows no second run.
NotYet == ~out.attempted
Dispatch ==
  /\ pc \in {"idle", "over"} /\ n < Dispatches
  /\ n' = n + 1 /\ mode' \in {"preflight"} \cup (IF reviewed # 0 THEN {"invoke"} ELSE {})
  /\ out' = Blank /\ pc' = "prove" /\ before' = conf /\ job' = Bridge
  /\ UNCHANGED <<world, reviewed, evidence, fence>>
Restart ==
  /\ pc = "idle" /\ n > 0 /\ NotYet
  /\ pc' = "prove" /\ before' = conf /\ job' = Bridge
  /\ UNCHANGED <<world, n, mode, reviewed, evidence, fence, out>>

\* The deploy receipt, or the files of the image, of what serves by then; it
\* still serves afterwards.
Prove ==
  /\ pc = "prove"
  /\ evidence' = conf /\ pc' = "proven"
  /\ UNCHANGED <<world, n, mode, reviewed, before, job, fence, out>>
Proven ==
  /\ pc = "proven"
  /\ IF evidence = conf /\ source[evidence] /\ source[before]
       THEN Go("reread") ELSE Stop("blocked")
  /\ UNCHANGED kept

\* The configuration was proven.
OnceProven == TRUE
\* Read again: nothing has changed, the times of the job neither.
Unchanged == conf = before /\ Bridge = job
Reread ==
  /\ pc = "reread"
  /\ IF ~Unchanged THEN Stop("blocked")
     ELSE IF mode = "preflight" THEN Stop("verified")
     ELSE IF before # reviewed THEN Stop("blocked")
     ELSE Go("window")
  /\ UNCHANGED kept

\* The last attempt is long over.
LongOver == now - job.last > Window
\* The last attempt is long over and the next one far enough.
InWindow == now - job.last > Window /\ job.next > now + Window
CheckWindow ==
  /\ pc = "window"
  /\ IF InWindow THEN Go("previous") ELSE Stop("blocked")
  /\ UNCHANGED kept

\* The last attempt that was known has ended.
KnownEnded == \E i \in 1..Len(attempts) : attempts[i].at = job.last /\ attempts[i].logged
\* Exactly one pair of entries since, and it is of the last attempt there is.
PreviousEnded ==
  LET since == {i \in 1..Len(attempts) : attempts[i].at >= job.last /\ attempts[i].logged}
  IN since = {Len(attempts)} /\ Bridge.last = job.last /\ conf = job.conf
Previous ==
  /\ pc = "previous"
  /\ IF PreviousEnded /\ InWindow
       THEN pc' = "send" /\ fence' = now /\ UNCHANGED <<out, evidence, job>>
       ELSE Stop("blocked")
  /\ UNCHANGED kept

\* Recorded when it was answered.
Answered(sent) == sent
\* Recorded before it is sent.
Recorded(sent) == TRUE
\* One POST: the job is run or not, and the answer may be lost, or the process.
Send ==
  /\ pc = "send"
  /\ \E ran, answered \in BOOLEAN :
       /\ attempts' = IF ran THEN Append(attempts, Attempt(now, "ours")) ELSE attempts
       /\ (answered => ran)
       /\ out' = [out EXCEPT !.attempted = Recorded(answered), !.posts = @ + 1,
                    !.status = IF answered THEN "dispatched" ELSE "unknown"]
       /\ IF answered THEN pc' = "await" /\ UNCHANGED <<evidence, job, fence>>
                      ELSE pc' \in {"over", "idle"} /\ Forget
  /\ UNCHANGED <<conf, source, now, next, n, mode, reviewed, before>>

\* It is finished.
Finished(i) == attempts[i].logged
\* It is finished with an answer of success.
Succeeded(i) == attempts[i].as = "ok"
\* The entries within the window of this run.
Entries == {i \in 1..Len(attempts) : attempts[i].logged /\ attempts[i].at \in fence..(fence + Window)}
Await ==
  /\ pc = "await" /\ now <= fence + Window
  /\ \E i \in Entries :
       IF Entries = {i} /\ Bridge.last \in fence..(fence + Window) /\ Bridge.last # job.last
            /\ attempts[i].at >= Bridge.last /\ conf = job.conf
         THEN /\ pc' = "over"
              /\ out' = [out EXCEPT !.status = "terminal", !.succeeded = Succeeded(i)]
              /\ Forget
         ELSE Stop("unknown")
  /\ UNCHANGED kept
GiveUp ==
  /\ pc = "await" /\ Stop("unknown")
  /\ UNCHANGED kept

\* A reading that fails stops, whatever was sent.
Fail ==
  /\ pc \in {"prove", "proven", "reread", "window", "previous"} /\ Stop("blocked")
  /\ UNCHANGED kept
Die ==
  /\ pc \notin {"idle", "over"} /\ pc' = "idle" /\ Forget
  /\ UNCHANGED <<kept, out>>

Next ==
  \/ Tick \/ Scheduled \/ ByHand \/ Deploy \/ Review
  \/ \E i \in 1..Len(attempts) : End(i) \/ Log(i)
  \/ Dispatch \/ Restart \/ Prove \/ Proven \/ Reread \/ CheckWindow \/ Previous \/ Send
  \/ Await \/ GiveUp \/ Fail \/ Die

Spec == Init /\ [][Next]_vars

----------------------------------------------------------------------------
(* Properties.                                                             *)

Ours == {i \in 1..Len(attempts) : attempts[i].by = "ours"}

\* The program starts no attempt beside one that runs, nor does the schedule
\* start one beside its (_bridge_window, previous_terminal).
NeverBeside == Ours \cap Running # {} => \A i, j \in Running : i = j

\* One dispatch runs the job at most once, however often its process is
\* started ("An uncertain request is never replayed").
RunOnce == out.posts <= 1 /\ \A i, j \in Ours : attempts[i].dispatch = attempts[j].dispatch => i = j

\* What was run is what was reviewed, of the reviewed source, and nothing was
\* changed while that was proven.
AsReviewed ==
  pc \in {"window", "previous", "send", "await"} =>
    before = reviewed /\ evidence = reviewed /\ source[reviewed]

\* A success is that of the attempt of this dispatch.
SuccessIsOurs ==
  out.succeeded => \E i \in Ours : attempts[i].dispatch = n /\ attempts[i].as = "ok"

(***************************************************************************)
(* The inductive invariant behind RunOnce and NeverBeside.                 *)
(***************************************************************************)

Entry == [at: Nat, by: {"schedule", "hand", "ours"}, dispatch: Nat, as: {"running", "ok", "failed"}, logged: BOOLEAN]
Shaped ==
  /\ now \in Nat /\ next \in Nat /\ n \in Nat /\ attempts \in Seq(Entry) /\ attempts # <<>>
  /\ job.last \in Nat /\ job.next \in Nat
  /\ DOMAIN out = DOMAIN Blank /\ out.posts \in Nat /\ out.attempted \in BOOLEAN

\* Attempts are in the order of their times; one that runs is not old, and
\* has no entries.
InTime ==
  /\ \A i, j \in 1..Len(attempts) : i <= j => attempts[i].at <= attempts[j].at
  /\ \A i \in 1..Len(attempts) :
       /\ attempts[i].at <= now
       /\ attempts[i].as = "running" => now <= attempts[i].at + 1 /\ ~attempts[i].logged
  /\ job.next <= next

\* What was seen in the window still stands at the request; no attempt is due
\* before one of ours has ended.
Alone ==
  /\ pc = "send" => Running = {} /\ now + 1 < next
  /\ \A i \in Ours \cap Running : attempts[i].at + 1 < next /\ Running = {i}

\* A request is one of this dispatch, and recorded.
Once ==
  /\ pc \notin {"idle", "await", "over"} => ~out.attempted
  /\ ~out.attempted => out.posts = 0 /\ \A i \in Ours : attempts[i].dispatch < n \/ n = 0
  /\ \A i \in Ours : attempts[i].dispatch <= n
  /\ n = 0 => pc = "idle" /\ Ours = {}
IInv == Shaped /\ InTime /\ Alone /\ Once /\ RunOnce

\* The one behind AsReviewed and SuccessIsOurs: which version was read when,
\* and whose the attempts are since the request.
Attested ==
  /\ conf \in Nat /\ {before, evidence} \subseteq 0..conf
  /\ pc \in {"proven", "reread"} => before <= evidence
  /\ pc = "reread" => source[evidence]
  /\ pc = "send" => fence = now /\ \A i \in 1..Len(attempts) : attempts[i].at < now
  /\ pc \in {"send", "await"} => fence \in Nat /\ fence + Window < next
  /\ pc = "await" =>
       \E k \in Ours :
         /\ attempts[k].dispatch = n
         /\ \A i \in 1..Len(attempts) : attempts[i].at \in fence..(fence + Window) => i = k
  /\ AsReviewed /\ SuccessIsOurs
=============================================================================
