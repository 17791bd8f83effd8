-------------------------- MODULE IncidentNotices ---------------------------
(***************************************************************************)
(* What observers of one target tell at once and what they defer:          *)
(* notifications/unified_adapter.py, publish_cycle and publish_monitor,    *)
(* with the contract they route by                                         *)
(* (tests/fixtures/.../unified_contract.py).  A candidate for the digest   *)
(* is persisted, or not (DigestCandidates); what is urgent is sent under   *)
(* the marker of an incident, reserved before the send; a healthy          *)
(* observation closes incidents.  Unified mode is on.                      *)
(***************************************************************************)
EXTENDS Naturals

CONSTANT N   \* bound: the observers of the target

Observers == 1..N

Evidence == {"auth", "error", "unknown", "blocked", "pending", "unverified", "attention"}
Deferred == {"routine", "order"}
Families == {"candidate", "cycle", "receipt"}
Reasons  == {"candidate", "run"}

\* A family has its index; the marker is that of the reason, whatever family.
Reason(f) == IF f = "candidate" THEN "candidate" ELSE "run"

VARIABLES
  mark,     \* the marker of each incident
  index,    \* the families in whose index their reason stands
  obs,      \* of each observer: "cycle" or "monitor", its time, kind and urgency
  pc,
  seen,     \* the marker it has read
  told,     \* whether its candidate is persisted
  inc,      \* the incident it deals with
  todo,     \* the recoveries it still has to make
  said,     \* what it has tried to send, or found said, or marked
  sends     \* history: who sent for which opening of an incident

vars == <<mark, index, obs, pc, seen, told, inc, todo, said, sends>>

\* at is the time of the last observation, gen the number of openings.
Marker == [ver: Nat, active: BOOLEAN, at: 0..N, gen: Nat]
NoMark == [ver |-> 0, active |-> FALSE, at |-> 0, gen |-> 0]
NoInc  == [family |-> "cycle", act |-> "none", gen |-> 0]

TypeOK ==
  /\ mark \in [Reasons -> Marker] /\ index \subseteq Families
  /\ obs \in [Observers -> [src: {"cycle", "monitor"}, at: Observers, urgent: BOOLEAN,
                            kind: Deferred \cup {"none", "alert", "unknown"}]]
  /\ pc \in [Observers -> {"classify", "persist", "next", "index", "observe", "reserve", "cursor",
                           "send", "record", "over"}]
  /\ seen \in [Observers -> Marker] /\ told \in [Observers -> BOOLEAN]
  /\ inc \in [Observers -> [family: Families, act: {"none", "raise", "recover"}, gen: Nat]]
  /\ todo \in [Observers -> SUBSET Families]
  /\ said \in [Observers -> SUBSET {"alert", "coverage", "error", "marked", "duplicate"}]
  /\ sends \subseteq Observers \X Reasons \X Nat

\* The incidents may be open from an earlier run.
Init ==
  /\ \E open \in {{}, {"candidate", "cycle"}, Families} :
       /\ index = open
       /\ mark = [r \in Reasons |-> IF \E f \in open : Reason(f) = r
                                   THEN [ver |-> 1, active |-> TRUE, at |-> 0, gen |-> 1] ELSE NoMark]
  /\ obs = [o \in Observers |-> [src |-> "cycle", at |-> 1, urgent |-> FALSE, kind |-> "none"]]
  /\ pc = [o \in Observers |-> "classify"]
  /\ seen = [o \in Observers |-> NoMark]
  /\ told = [o \in Observers |-> FALSE]
  /\ inc = [o \in Observers |-> NoInc]
  /\ todo = [o \in Observers |-> {}]
  /\ said = [o \in Observers |-> {}]
  /\ sends = {}

markers == <<mark, index>>

\* A plausible slip: orders decide before what is known of them.
OrdersFirst(orders, e) ==
  IF e \cap {"auth", "error"} # {} THEN "alert"
  ELSE IF orders \/ "pending" \in e THEN "order"
  ELSE IF e \cap {"unknown", "unverified"} # {} THEN "unknown"
  ELSE IF e \cap {"blocked", "attention"} # {} THEN "alert" ELSE "routine"

\* The kind of an execution summary.  "pending" are orders the broker has
\* named and not finished, "unverified" orders without their evidence,
\* "attention" an earlier warning of the same cycle.
Kind(orders, e) ==
  IF e \cap {"auth", "error"} # {} THEN "alert"
  ELSE IF "unknown" \in e THEN "unknown"
  ELSE IF "blocked" \in e THEN "alert"
  ELSE IF "unverified" \in e THEN "unknown"
  ELSE IF "attention" \in e THEN "alert"
  ELSE IF orders \/ "pending" \in e THEN "order" ELSE "routine"

Own(o) == IF obs[o].src = "cycle" THEN "cycle" ELSE "receipt"

Classes == {[kind |-> Kind(orders, e), urgent |-> e \ {"pending"} # {}] :
              orders \in BOOLEAN, e \in SUBSET Evidence}

\* event_for needs the identity of the target; without it nothing is stored:
\* a routine cycle asks for attention, an urgent one is marked in the report.
\* Observers are numbered so that none is later than its number.
Classify(o) ==
  /\ pc[o] = "classify"
  /\ \E src \in {"cycle", "monitor"}, at \in 1..o, known \in BOOLEAN, c \in Classes :
       LET kind == c.kind IN
       /\ obs' = [obs EXCEPT ![o] = [src |-> src, at |-> at, kind |-> kind, urgent |-> c.urgent]]
       /\ pc' = [pc EXCEPT ![o] = IF known THEN "persist" ELSE "over"]
       /\ said' = IF known THEN said ELSE [said EXCEPT ![o] =
            IF src = "cycle" THEN {IF kind \in Deferred THEN "coverage" ELSE "marked"}
            ELSE IF kind \in Deferred THEN {"error"} ELSE {}]
  /\ UNCHANGED <<markers, seen, told, inc, todo, sends>>

\* route_notification_event: the candidate first, of whatever kind.  What is
\* deferred and persisted recovers; what is urgent is sent in any case; a
\* routine cycle that is not in the digest is an incident of its own.
Persist(o) ==
  /\ pc[o] = "persist"
  /\ \E stored \in BOOLEAN :
       LET cycle == obs[o].src = "cycle"  deferred == obs[o].kind \in Deferred IN
       /\ told' = [told EXCEPT ![o] = stored]
       /\ todo' = [todo EXCEPT ![o] =
            {f \in {"candidate", Own(o)} :
               /\ stored
               /\ IF f = "candidate" THEN cycle
                  ELSE obs[o].kind = "routine" \/ (~cycle /\ deferred)}]
       /\ \/ /\ deferred /\ stored
             /\ pc' = [pc EXCEPT ![o] = "next"]
             /\ UNCHANGED <<inc, said>>
          \/ /\ deferred /\ ~stored /\ ~cycle
             /\ pc' = [pc EXCEPT ![o] = "over"]
             /\ said' = [said EXCEPT ![o] = @ \cup {"error"}]
             /\ UNCHANGED inc
          \/ /\ ~deferred \/ (cycle /\ ~stored)
             /\ inc' = [inc EXCEPT ![o] =
                  [family |-> IF deferred THEN "candidate" ELSE Own(o), act |-> "raise", gen |-> 0]]
             /\ pc' = [pc EXCEPT ![o] = "index"]
             /\ UNCHANGED said
  /\ UNCHANGED <<markers, obs, seen, sends>>

Mine(o) == mark[Reason(inc[o].family)]

\* A plausible slip: the marker is written without its generation.
WriteAnyway(o) == TRUE

\* compare_and_set: only what was read may be replaced.
Unmoved(o) == seen[o].ver = Mine(o).ver

\* The candidate's family is recovered first; a reason that is not in the
\* index needs no recovery.
NextRecovery(o) ==
  /\ pc[o] = "next"
  /\ IF todo[o] = {}
     THEN /\ pc' = [pc EXCEPT ![o] = "over"]
          /\ inc' = [inc EXCEPT ![o] = NoInc]
          /\ UNCHANGED todo
     ELSE LET f == IF "candidate" \in todo[o] THEN "candidate" ELSE Own(o) IN
          /\ todo' = [todo EXCEPT ![o] = @ \ {f}]
          /\ inc' = [inc EXCEPT ![o] = [family |-> f, act |-> "recover", gen |-> 0]]
          /\ pc' = [pc EXCEPT ![o] = IF f \in index THEN "observe" ELSE "next"]
  /\ UNCHANGED <<markers, obs, seen, told, said, sends>>

AddReason(o) ==
  /\ pc[o] = "index"
  /\ index' = index \cup {inc[o].family}
  /\ pc' = [pc EXCEPT ![o] = "observe"]
  /\ UNCHANGED <<mark, obs, seen, told, inc, todo, said, sends>>

\* A plausible slip: the time of the observation is not compared.
NeverLate(o) == FALSE

\* OrderedMarkerStore.read: a marker of a later observation raises.
Late(o) == Mine(o).at > obs[o].at

ReadMarker(o) ==
  /\ pc[o] = "observe" /\ ~Late(o)
  /\ seen' = [seen EXCEPT ![o] = Mine(o)]
  /\ pc' = [pc EXCEPT ![o] = "reserve"]
  /\ UNCHANGED <<markers, obs, told, inc, todo, said, sends>>

\* IncidentTracker.observe: a new incident is reserved, an open one is a
\* duplicate, a recovery closes.
Observed(o) ==
  LET m == [seen[o] EXCEPT !.at = obs[o].at, !.ver = @ + 1] IN
  IF inc[o].act = "recover" THEN [m EXCEPT !.active = FALSE]
  ELSE [m EXCEPT !.active = TRUE, !.gen = @ + 1]

Reserve(o) ==
  /\ pc[o] = "reserve"
  /\ LET opens  == inc[o].act = "raise" /\ ~seen[o].active
         closes == inc[o].act = "recover" /\ (seen[o].active \/ seen[o].ver = 0)
     IN IF (opens \/ closes) /\ ~Unmoved(o)
        THEN pc' = [pc EXCEPT ![o] = "observe"] /\ UNCHANGED <<mark, inc, said>>
        ELSE /\ mark' = IF opens \/ closes THEN [mark EXCEPT ![Reason(inc[o].family)] = Observed(o)] ELSE mark
             /\ inc' = [inc EXCEPT ![o].gen = IF opens THEN seen[o].gen + 1 ELSE @]
             /\ said' = IF inc[o].act = "raise" /\ ~opens THEN [said EXCEPT ![o] = @ \cup {"duplicate"}] ELSE said
             /\ pc' = [pc EXCEPT ![o] = IF opens THEN "send" ELSE "cursor"]
  /\ seen' = [seen EXCEPT ![o] = NoMark]
  /\ UNCHANGED <<index, obs, told, todo, sends>>

\* immediate_incident: the cursor follows what sent nothing, too.
Cursor(o) ==
  /\ pc[o] = "cursor" /\ ~Late(o)
  /\ mark' = IF Mine(o).at = obs[o].at THEN mark
             ELSE [mark EXCEPT ![Reason(inc[o].family)].ver = @ + 1, ![Reason(inc[o].family)].at = obs[o].at]
  /\ pc' = [pc EXCEPT ![o] = "next"]
  /\ UNCHANGED <<index, obs, seen, told, inc, todo, said, sends>>

What(o) == IF inc[o].family = "candidate" THEN "coverage" ELSE "alert"

\* Sent once per reservation, whatever the answer; the delivery is recorded
\* if nobody observed anything since.
Send(o) ==
  /\ pc[o] = "send"
  /\ said' = [said EXCEPT ![o] = @ \cup {What(o)}]
  /\ sends' = sends \cup {<<o, Reason(inc[o].family), inc[o].gen>>}
  /\ pc' = [pc EXCEPT ![o] = "record"]
  /\ UNCHANGED <<markers, obs, seen, told, inc, todo>>

RecordDelivery(o) ==
  /\ pc[o] = "record" /\ ~Late(o) /\ Mine(o).gen = inc[o].gen
  /\ mark' = [mark EXCEPT ![Reason(inc[o].family)].ver = @ + 1, ![Reason(inc[o].family)].at = obs[o].at]
  /\ pc' = [pc EXCEPT ![o] = "next"]
  /\ UNCHANGED <<index, obs, seen, told, inc, todo, said, sends>>

\* An incident that raises: an alert is marked in the report, or lost by a
\* monitor; the coverage notice is sent without a marker, unless it was tried;
\* a recovery is left to a later observation.
IncidentFails(o) ==
  /\ pc[o] \in {"index", "observe", "reserve", "cursor", "record"}
  /\ IF inc[o].act = "recover"
     THEN pc' = [pc EXCEPT ![o] = "next"] /\ UNCHANGED <<said, todo>>
     ELSE /\ pc' = [pc EXCEPT ![o] = "over"]
          /\ said' = IF obs[o].src # "cycle" THEN said
                     ELSE [said EXCEPT ![o] = @ \cup {IF What(o) = "alert" THEN "marked" ELSE "coverage"}]
          /\ todo' = [todo EXCEPT ![o] = {}]
  /\ seen' = [seen EXCEPT ![o] = NoMark]
  /\ UNCHANGED <<markers, obs, told, inc, sends>>

\* Nothing makes an observer go on: one that stops was killed.
Next == \E o \in Observers :
  \/ Classify(o) \/ Persist(o)
  \/ NextRecovery(o) \/ AddReason(o) \/ ReadMarker(o) \/ Reserve(o) \/ Cursor(o)
  \/ Send(o) \/ RecordDelivery(o) \/ IncidentFails(o)

Spec == Init /\ [][Next]_vars

(***************************************************************************)
(* Properties.                                                             *)
(***************************************************************************)

\* An incident is sent at most once until it has recovered, and while it is
\* open its reason can be found (reserve before send, the index of reasons).
SentOnce ==
  /\ \A s, t \in sends : s[2] = t[2] /\ s[3] = t[3] => s = t
  /\ \A r \in Reasons : mark[r].active => \E f \in index : Reason(f) = r

\* No observation closes an incident that was seen after it
\* (OrderedMarkerStore).
LateClosesNothing ==
  \A r \in Reasons : mark[r].active /\ ~mark'[r].active =>
    \E o \in Observers : /\ pc[o] = "reserve" /\ inc[o].act = "recover"
                         /\ Reason(inc[o].family) = r /\ obs[o].at >= mark[r].at

\* No cycle ends in silence: what is urgent was sent, is a duplicate of an open
\* incident or is marked in the report; a routine cycle that is not in the
\* digest asks for attention (publish_cycle).
NoSilence ==
  \A o \in Observers : pc[o] = "over" /\ obs[o].src = "cycle" =>
    /\ obs[o].urgent => obs[o].kind \notin Deferred /\ said[o] # {}
    /\ obs[o].kind \in Deferred => told[o] \/ said[o] \cap {"duplicate", "coverage"} # {}

(***************************************************************************)
(* The inductive invariant behind SentOnce and NoSilence.                  *)
(***************************************************************************)

\* What of TypeOK the rest of it needs.
Shaped ==
  /\ DOMAIN mark = Reasons /\ DOMAIN seen = Observers /\ DOMAIN pc = Observers
  /\ DOMAIN inc = Observers /\ index \subseteq Families
  /\ \A r \in Reasons :
       DOMAIN mark[r] = DOMAIN NoMark /\ mark[r].ver \in Nat /\ mark[r].gen \in Nat
  /\ \A o \in Observers :
       /\ DOMAIN seen[o] = DOMAIN NoMark /\ seen[o].ver \in Nat /\ seen[o].gen \in Nat
       /\ DOMAIN inc[o] = DOMAIN NoInc /\ inc[o].family \in Families /\ inc[o].gen \in Nat
  /\ \A s \in sends : s \in Observers \X Reasons \X Nat

\* A version is that of one marker: who has read the present one knows it.
ReadIsPresent ==
  \A o \in Observers : pc[o] = "reserve" =>
    seen[o].ver <= Mine(o).ver /\ (seen[o].ver = Mine(o).ver => seen[o] = Mine(o))

\* An opening is one of the marker's, and of one observer, who has not sent.
Opens(o) == pc[o] = "send"
OwnOpening ==
  /\ \A s \in sends : s[3] <= mark[s[2]].gen
  /\ \A o \in Observers : Opens(o) =>
       /\ inc[o].gen <= Mine(o).gen
       /\ \A s \in sends : ~(s[2] = Reason(inc[o].family) /\ s[3] = inc[o].gen)
       /\ \A p \in Observers :
            Opens(p) /\ Reason(inc[p].family) = Reason(inc[o].family) /\ inc[p].gen = inc[o].gen => p = o

\* Its reason is in the index before an incident is opened.
Findable ==
  \A o \in Observers :
    pc[o] \in {"observe", "reserve"} /\ inc[o].act = "raise" => inc[o].family \in index

\* What an observer of a cycle has said where it is; who raises is urgent, or
\* tells that the digest has nothing.
Heard(o) ==
  /\ obs[o].kind \notin Deferred => said[o] # {}
  /\ obs[o].kind \in Deferred => told[o] \/ said[o] \cap {"duplicate", "coverage"} # {}
Raises(o) == inc[o].act = "raise"
Saying(o) ==
  /\ pc[o] # "classify" => (obs[o].urgent => obs[o].kind \notin Deferred)
  /\ pc[o] \in {"index", "send", "record"} => Raises(o)
  /\ Raises(o) => pc[o] # "classify" /\ (obs[o].kind \in Deferred => inc[o].family = "candidate")
  /\ obs[o].src = "cycle" =>
       (pc[o] \in {"next", "cursor", "record", "over"} \/ (pc[o] \in {"observe", "reserve"} /\ ~Raises(o)) => Heard(o))

Sending == Shaped /\ ReadIsPresent /\ OwnOpening /\ Findable /\ SentOnce
Telling ==
  /\ DOMAIN obs = Observers /\ DOMAIN said = Observers /\ DOMAIN told = Observers
  /\ \A o \in Observers : Saying(o)
IInv == Sending /\ Telling

\* The one behind LateClosesNothing: what is about to be written was read in time.
ReadInTime ==
  /\ \A r \in Reasons : mark[r].at \in Nat
  /\ \A o \in Observers : /\ {obs[o].at, seen[o].at} \subseteq Nat
                          /\ pc[o] = "reserve" => seen[o].at <= obs[o].at
=============================================================================
