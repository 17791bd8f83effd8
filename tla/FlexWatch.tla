----------------------------- MODULE FlexWatch ------------------------------
(***************************************************************************)
(* The watchdog of the Flex collector: flex_daily.watch and the lease of   *)
(* flex_daily.storage.                                                     *)
(*                                                                         *)
(* An execution takes the lease, reads what was notified last, stores a    *)
(* claim, sends one message and stores its outcome.  Executions overlap:   *)
(* the scheduler retries, and an operator may start one.  Any of them may  *)
(* be killed or see a call fail, with or without its effect, and all of    *)
(* them use the time at which they started as the present.                 *)
(*                                                                         *)
(* A put names the generation it replaces.  An execution is in             *)
(* leaseKnown (noteKnown) while the generation it read or wrote is the     *)
(* current one.                                                            *)
(***************************************************************************)
EXTENDS Integers, FiniteSets

CONSTANTS
  Workers,     \* executions of the job
  Reasons,     \* what events() finds in the status
  LeaseTime,   \* 31 minutes
  KillAfter,   \* the timeout of the job
  Reminder,    \* 24 hours
  Midnights,   \* when the date changes
  RetryAfter,  \* the delay demanded by a rate limit
  LastTick,    \* bound: the clock stops here
  Unset

ASSUME WatchAssumption ==
  /\ LeaseTime \in Nat /\ KillAfter \in Nat /\ Reminder \in Nat /\ RetryAfter \in Nat
  /\ LastTick \in Nat /\ Midnights \subseteq Nat
  /\ KillAfter < LeaseTime
  /\ Unset \notin Nat /\ Unset \notin Workers
  /\ \A found \in SUBSET Reasons : found # Unset

Answers == {"sent", "unknown", "blocked", "rate_limited"}

\* notifications/latest.json; incident stands for the hash of the reasons.
Notes == [incident: {Unset} \cup SUBSET Reasons, attempted_at: Nat \cup {Unset},
          delivery: Answers \cup {"in_flight", "none"}, retry_at: Nat \cup {Unset}]

VARIABLES
  now,         \* the time
  lease,       \* notifications/lease.json: its owner and when it expires
  leaseKnown,  \* executions that know the generation of the lease
  note,        \* notifications/latest.json
  noteKnown,   \* executions that know the generation of the note
  stage,       \* stage[w]: the next call of w, "idle" if it does not run
  started,     \* started[w]: the time at which w started, its present
  reasons,     \* reasons[w]: what w found
  answer,      \* answer[w]: the outcome of its message
  last         \* history: the latest message

watchVars == <<now, lease, leaseKnown, note, noteKnown, stage, started, reasons, answer, last>>

Messages == [reasons: SUBSET Reasons, started: Nat, at: Nat, answer: Answers,
             crossed: BOOLEAN, kept: BOOLEAN]

ASSUME UnsetAssumption == Unset \notin Messages

WatchInit ==
  /\ now = 0
  /\ lease = [owner |-> Unset, expires |-> 0] /\ leaseKnown = {}
  /\ note = [incident |-> Unset, attempted_at |-> Unset, delivery |-> "none", retry_at |-> Unset]
  /\ noteKnown = {}
  /\ stage = [w \in Workers |-> "idle"] /\ started = [w \in Workers |-> 0]
  /\ reasons = [w \in Workers |-> {}] /\ answer = [w \in Workers |-> "unknown"]
  /\ last = Unset

Goto(w, place) ==
  /\ stage' = [stage EXCEPT ![w] = place]
  /\ UNCHANGED <<started, reasons, answer>>

\* The execution ends, and with it what it knew.
Exit(w) ==
  /\ stage' = [stage EXCEPT ![w] = "idle"] /\ started' = [started EXCEPT ![w] = 0]
  /\ reasons' = [reasons EXCEPT ![w] = {}] /\ answer' = [answer EXCEPT ![w] = "unknown"]

-----------------------------------------------------------------------------
(***************************************************************************)
(* The lease.                                                              *)
(***************************************************************************)

Begin(w) ==
  /\ stage[w] = "idle"
  /\ stage' = [stage EXCEPT ![w] = "lease"] /\ started' = [started EXCEPT ![w] = now]
  /\ UNCHANGED <<now, lease, leaseKnown, note, noteKnown, reasons, answer, last>>

\* Mutant: any lease can be taken.
AnyLease(w) == TRUE
\* A lease can be taken that was never taken or has expired.
Free(w) == lease.owner = Unset \/ lease.expires <= started[w]

ReadLease(w) ==
  /\ stage[w] = "lease"
  /\ IF Free(w) THEN leaseKnown' = leaseKnown \cup {w} /\ Goto(w, "take")
                ELSE leaseKnown' = leaseKnown /\ Exit(w)
  /\ UNCHANGED <<now, lease, note, noteKnown, last>>

\* The put is refused if the lease was written since, by whomever.
TakeLease(w) ==
  /\ stage[w] = "take"
  /\ IF w \in leaseKnown
       THEN /\ lease' = [owner |-> w, expires |-> started[w] + LeaseTime]
            /\ leaseKnown' = {w}
            /\ Goto(w, "read")
       ELSE Exit(w) /\ UNCHANGED <<lease, leaseKnown>>
  /\ UNCHANGED <<now, note, noteKnown, last>>

\* The lease expires at once, if it is still the execution's own.
Release(w) ==
  /\ stage[w] = "release"
  /\ lease' = IF w \in leaseKnown THEN [lease EXCEPT !.expires = now] ELSE lease
  /\ leaseKnown' = IF w \in leaseKnown THEN {} ELSE leaseKnown
  /\ noteKnown' = noteKnown \ {w}
  /\ Exit(w)
  /\ UNCHANGED <<now, note, last>>

-----------------------------------------------------------------------------
(***************************************************************************)
(* The message.                                                            *)
(***************************************************************************)

\* Is a time t on the date of an earlier time s?
SameDate(s, t) == ~\E m \in Midnights : s < m /\ m <= t

\* Is t too early to tell again what was told at s?
TooEarly(found, s, t) == IF found # {} THEN t - s < Reminder ELSE SameDate(s, t)

\* Mutant: only a message that was delivered counts.
RemindedIfSent(found, t) ==
  /\ note.incident = found /\ note.delivery = "sent"
  /\ note.attempted_at # Unset /\ TooEarly(found, note.attempted_at, t)
\* Unknown and in-flight claims consume the same interval as a delivery.
Reminded(found, t) ==
  note.incident = found /\ note.attempted_at # Unset /\ TooEarly(found, note.attempted_at, t)

\* Mutant: the forgotten incident is told at once.
NeverDeferred(t) == FALSE
\* A rate limit also defers what else there is to tell.
Deferred(t) == note.retry_at # Unset /\ t < note.retry_at

\* Mutant: a block ends with the day.
BlockedToday == note.delivery = "blocked" /\ SameDate(note.attempted_at, now)
Blocked == note.delivery = "blocked"

Quiet(found, t) == Blocked \/ Deferred(t) \/ Reminded(found, t)

\* The status may show anything; is there something to tell?
ReadNote(w) ==
  /\ stage[w] = "read"
  /\ noteKnown' = noteKnown \cup {w}
  /\ \E found \in SUBSET Reasons :
       /\ reasons' = [reasons EXCEPT ![w] = found]
       /\ stage' = [stage EXCEPT ![w] = IF Quiet(found, started[w]) THEN "release" ELSE "claim"]
  /\ UNCHANGED <<now, lease, leaseKnown, note, started, answer, last>>

Claimed(w) ==
  [incident |-> reasons[w], attempted_at |-> started[w], delivery |-> "in_flight",
   retry_at |-> Unset]

\* Something else than the latest message is claimed.
Crossed(w) ==
  IF last # Unset /\ last.reasons # reasons[w] THEN [last EXCEPT !.crossed = TRUE] ELSE last

\* The claim is stored before the message is sent.
Claim(w) ==
  /\ stage[w] = "claim"
  /\ IF w \in noteKnown
       THEN note' = Claimed(w) /\ noteKnown' = {w} /\ last' = Crossed(w) /\ Goto(w, "check")
       ELSE Goto(w, "release") /\ UNCHANGED <<note, noteKnown, last>>
  /\ UNCHANGED <<now, lease, leaseKnown>>

Holds(w, t) == w \in leaseKnown /\ lease.expires > t

Check(w) ==
  /\ stage[w] = "check"
  /\ Goto(w, IF Holds(w, started[w]) THEN "send" ELSE "release")
  /\ UNCHANGED <<now, lease, leaseKnown, note, noteKnown, last>>

Send(w) ==
  /\ stage[w] = "send"
  /\ \E outcome \in Answers :
       /\ answer' = [answer EXCEPT ![w] = outcome]
       /\ last' = [reasons |-> reasons[w], started |-> started[w], at |-> now,
                   answer |-> outcome, crossed |-> FALSE, kept |-> FALSE]
  /\ stage' = [stage EXCEPT ![w] = "recheck"]
  /\ UNCHANGED <<now, lease, leaseKnown, note, noteKnown, started, reasons>>

Recheck(w) ==
  /\ stage[w] = "recheck"
  /\ Goto(w, IF Holds(w, now) THEN "store" ELSE "release")
  /\ UNCHANGED <<now, lease, leaseKnown, note, noteKnown, last>>

\* A rate limit forgets the incident, so that it is told after the delay.
Stored(w) ==
  IF answer[w] = "rate_limited"
    THEN [Claimed(w) EXCEPT !.delivery = "rate_limited", !.incident = Unset,
                            !.retry_at = started[w] + RetryAfter]
    ELSE [Claimed(w) EXCEPT !.delivery = answer[w]]

Store(w) ==
  /\ stage[w] = "store"
  /\ IF w \in noteKnown
       THEN note' = Stored(w) /\ noteKnown' = {w} /\ last' = [last EXCEPT !.kept = TRUE]
       ELSE UNCHANGED <<note, noteKnown, last>>
  /\ Goto(w, "release")
  /\ UNCHANGED <<now, lease, leaseKnown>>

-----------------------------------------------------------------------------
(***************************************************************************)
(* Failures and time.                                                      *)
(***************************************************************************)

\* The places between taking the lease and giving it back.
Inside == {"read", "claim", "check", "send", "recheck", "store", "release"}

\* A call raises before its effect, and the lease is released.
Raise(w) ==
  /\ stage[w] \in Inside \ {"release"}
  /\ Goto(w, "release")
  /\ UNCHANGED <<now, lease, leaseKnown, note, noteKnown, last>>

\* A put takes effect, then raises: the generation is not known.
RaiseLate(w) ==
  /\ \/ /\ stage[w] = "take" /\ w \in leaseKnown
        /\ lease' = [owner |-> w, expires |-> started[w] + LeaseTime] /\ leaseKnown' = {}
        /\ Exit(w)
        /\ UNCHANGED <<note, noteKnown, last>>
     \/ /\ stage[w] = "claim" /\ w \in noteKnown
        /\ note' = Claimed(w) /\ noteKnown' = {} /\ last' = Crossed(w)
        /\ Goto(w, "release")
        /\ UNCHANGED <<lease, leaseKnown>>
     \/ /\ stage[w] = "store" /\ w \in noteKnown
        /\ note' = Stored(w) /\ noteKnown' = {} /\ last' = [last EXCEPT !.kept = TRUE]
        /\ Goto(w, "release")
        /\ UNCHANGED <<lease, leaseKnown>>
  /\ UNCHANGED now

\* The execution is killed, or raises outside the lease.
Kill(w) ==
  /\ stage[w] # "idle"
  /\ leaseKnown' = leaseKnown \ {w} /\ noteKnown' = noteKnown \ {w}
  /\ Exit(w)
  /\ UNCHANGED <<now, lease, note, last>>

\* Mutant: the job has no timeout.
Unlimited(w) == TRUE
\* The platform kills an execution at its timeout.
InTime(w) == stage[w] # "idle" => now + 1 - started[w] <= KillAfter

Tick ==
  /\ now < LastTick
  /\ \A w \in Workers : InTime(w)
  /\ now' = now + 1
  /\ UNCHANGED <<lease, leaseKnown, note, noteKnown, stage, started, reasons, answer, last>>

Step(w) ==
  \/ Begin(w) \/ ReadLease(w) \/ TakeLease(w) \/ Release(w)
  \/ ReadNote(w) \/ Claim(w) \/ Check(w) \/ Send(w) \/ Recheck(w) \/ Store(w)
  \/ Raise(w) \/ RaiseLate(w) \/ Kill(w)

WatchNext == Tick \/ \E w \in Workers : Step(w)

WatchSpec == WatchInit /\ [][WatchNext]_watchVars

-----------------------------------------------------------------------------
(***************************************************************************)
(* Properties.                                                             *)
(***************************************************************************)

Places == {"idle", "lease", "take"} \cup Inside

\* The stores and the executions have their types; what an execution waits for
\* happens within its timeout.
WatchTypeOK ==
  /\ now \in Nat
  /\ lease \in [owner: Workers \cup {Unset}, expires: Nat] /\ leaseKnown \subseteq Workers
  /\ note \in Notes /\ noteKnown \subseteq Workers
  /\ stage \in [Workers -> Places]
  /\ started \in [Workers -> Nat]
  /\ reasons \in [Workers -> SUBSET Reasons]
  /\ answer \in [Workers -> Answers]
  /\ last \in {Unset} \cup Messages
  /\ \A w \in Workers : stage[w] # "idle" => started[w] <= now /\ now - started[w] <= KillAfter

\* One execution is inside the lease (Lease, the 31 minutes and the timeout).
OneInside ==
  \A v, w \in Workers : stage[v] \in Inside /\ stage[w] \in Inside => v = w

SendsNow(w) == stage[w] = "send" /\ stage'[w] = "recheck"

\* The same incident is not told again before its interval has passed, be the
\* first message delivered, lost or unknown, unless it was rate limited or
\* something else was claimed meanwhile (watch, "a worker crash must not cause
\* an immediate duplicate").
NoEarlyReminder ==
  [][\A w \in Workers :
       SendsNow(w) /\ last # Unset /\ ~last.crossed /\ last.reasons = reasons[w]
                   /\ last.answer # "rate_limited" =>
         ~TooEarly(reasons[w], last.started, started[w])]_watchVars

\* After a rate limit nothing is told before the delay has passed, counted
\* from the answer: what the documentation says.
RetryAfterHonored ==
  [][\A w \in Workers :
       SendsNow(w) /\ last # Unset /\ last.answer = "rate_limited" /\ last.kept =>
         now >= last.at + RetryAfter]_watchVars

\* What the code keeps of it: the delay counts from the start of the
\* execution that was limited, at most its timeout earlier.
RetryAfterNearlyHonored ==
  [][\A w \in Workers :
       SendsNow(w) /\ last # Unset /\ last.answer = "rate_limited" /\ last.kept =>
         now >= last.at + RetryAfter - KillAfter]_watchVars

\* Once a block is stored, nothing is sent (delivery "blocked").
BlockIsFinal ==
  [][\A w \in Workers :
       SendsNow(w) => ~(last # Unset /\ last.answer = "blocked" /\ last.kept)]_watchVars

\* The inductive invariant. An execution inside the lease owns it, and it has
\* not expired; whoever may still take it has seen it free.
Leased ==
  /\ \A w \in Workers : stage[w] \in Inside =>
       lease.owner = w /\ lease.expires = started[w] + LeaseTime
  /\ \A w \in Workers : stage[w] = "take" /\ w \in leaseKnown => Free(w)

\* Claims are stored in the order in which executions started.
Ordered ==
  note.attempted_at # Unset =>
    /\ lease.owner # Unset /\ note.attempted_at <= lease.expires
    /\ \A w \in Workers : stage[w] \in Inside => note.attempted_at <= started[w]

\* The note remembers the latest message, unless something else was claimed.
Remembered ==
  last # Unset =>
    /\ last.at <= now
    /\ ~last.crossed /\ last.answer # "rate_limited" =>
         /\ note.incident = last.reasons
         /\ note.attempted_at # Unset /\ last.started <= note.attempted_at
    /\ last.answer = "rate_limited" /\ last.kept =>
         \/ note.retry_at # Unset /\ note.retry_at >= last.at + RetryAfter - KillAfter
         \/ now >= last.at + RetryAfter - KillAfter
    /\ last.answer = "blocked" /\ last.kept => note.delivery = "blocked"

\* What an execution has decided stands until it has acted.
Decided ==
  \A w \in Workers :
    /\ stage[w] = "claim" => ~Quiet(reasons[w], started[w])
    /\ stage[w] \in {"check", "send", "recheck", "store"} => note = Claimed(w)
    /\ stage[w] \in {"check", "send"} /\ last # Unset /\ ~last.crossed /\ last.reasons = reasons[w]
         /\ last.answer # "rate_limited" => ~TooEarly(reasons[w], last.started, started[w])
    /\ stage[w] \in {"recheck", "store"} =>
         /\ last # Unset /\ ~last.crossed /\ ~last.kept
         /\ last.reasons = reasons[w] /\ last.started = started[w] /\ last.answer = answer[w]

WatchIInv == WatchTypeOK /\ Leased /\ Ordered /\ Remembered /\ Decided
=============================================================================
