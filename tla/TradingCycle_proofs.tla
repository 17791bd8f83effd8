------------------------ MODULE TradingCycle_proofs -------------------------
(***************************************************************************)
(* Theorems about TradingCycle, for every value of its constants.          *)
(***************************************************************************)
EXTENDS TradingCycle, TLAPS

(***************************************************************************)
(* Lemmas about the topology and the keys.                                 *)
(***************************************************************************)

\* A request runs under a profile, and manages known symbols.
LEMMA ProfileType ==
  ASSUME NEW r \in Requests
  PROVE  /\ Host[r] \in Instances
         /\ ProfileFor(r) \in Profiles
         /\ Managed(r) \subseteq Symbols
BY TopologyAssumption DEF ProfileFor, Managed

\* The keys and the lock files that a request names are keys and lock files.
LEMMA KeyType ==
  ASSUME NEW r \in Requests, dayOf[r] \in Days
  PROVE  /\ KeyOf(r) \in Keys
         /\ LockFile(r) \in Instances \X Profiles \X Days
BY ProfileType DEF KeyOf, LockFile, Keys

(***************************************************************************)
(* Type correctness.                                                       *)
(***************************************************************************)

LEMMA TypeStep == TypeOK /\ [Next]_vars => TypeOK'
<1> SUFFICES ASSUME TypeOK, [Next]_vars PROVE TypeOK'
  OBVIOUS
<1> USE DEF TypeOK, Locations, Running, Submitting
<1>1. CASE UNCHANGED vars
  BY <1>1 DEF vars, process, local, store, env
<1>2. ASSUME NEW r \in Requests, Skip(r) \/ Begin(r) \/ Finish(r) PROVE TypeOK'
  <2> USE ProfileType DEF local, store, env
  <2>1. CASE Skip(r)
    BY <2>1 DEF Skip, Step, At, Goto
  <2>2. CASE Begin(r)
    BY <2>2 DEF Begin, Step, At, Goto
  <2>3. CASE Finish(r)
    BY <2>3 DEF Finish, Goto, Released, Forget
  <2> QED BY <1>2, <2>1, <2>2, <2>3
<1>3. ASSUME NEW r \in Requests,
             ObserveFails(r) \/ Observe(r) \/ Dedup(r) \/ AdmitFails(r)
      PROVE  TypeOK'
  <2> USE DEF local, store, env
  <2>1. CASE ObserveFails(r)
    BY <2>1 DEF ObserveFails, Step, At, Goto
  <2>2. CASE Observe(r)
    BY <2>2 DEF Observe, Step, At, Goto
  <2>3. CASE Dedup(r)
    BY <2>3 DEF Dedup, Step, At, Goto
  <2>4. CASE AdmitFails(r)
    BY <2>4 DEF AdmitFails, Step, At, Goto
  <2> QED BY <1>3, <2>1, <2>2, <2>3, <2>4
<1>4. ASSUME NEW r \in Requests, Admit(r) \/ TakeLock(r) PROVE TypeOK'
  <2> USE ProfileType, KeyType DEF local, store, env
  <2>1. CASE Admit(r)
    <3>1. plan' \in [Requests -> SUBSET (Sides \X Symbols)]
      BY <2>1 DEF Admit, Step, At, Goto
    <3>2. pc' \in [Requests -> Locations]
      BY <2>1 DEF Admit, Step, At, Goto
    <3> QED BY <2>1, <3>1, <3>2 DEF Admit
  <2>2. CASE TakeLock(r)
    BY <2>2 DEF TakeLock, Step, At, Goto
  <2> QED BY <1>4, <2>1, <2>2
<1>5. ASSUME NEW r \in Requests,
             SkipIntent(r) \/ TradeFails(r) \/ Submit(r) \/ EndTrade(r)
      PROVE  TypeOK'
  <2> USE DEF process, local, store, env
  <2>1. CASE SkipIntent(r)
    BY <2>1 DEF SkipIntent, At
  <2>2. CASE TradeFails(r)
    BY <2>2 DEF TradeFails, Step, At, Goto
  <2>3. CASE Submit(r)
    <3>1. PICK x \in NextIntents(r) :
            /\ plan' = [plan EXCEPT ![r] = @ \ {x}]
            /\ current' = [current EXCEPT ![r] = <<r, x[1], x[2]>>]
            /\ IF session[r] THEN Goto(r, "claim") ELSE Goto(r, "fail")
      BY <2>3 DEF Submit
    <3>2. x \in Sides \X Symbols
      BY <3>1 DEF NextIntents, Buys
    <3>3. <<r, x[1], x[2]>> \in Attempts
      BY <3>2 DEF Attempts
    <3> QED BY <2>3, <3>1, <3>2, <3>3 DEF Submit, Goto
  <2>4. CASE EndTrade(r)
    BY <2>4 DEF EndTrade, Step, At, Goto
  <2> QED BY <1>5, <2>1, <2>2, <2>3, <2>4
<1>6. ASSUME NEW r \in Requests, ClaimAgain(r) \/ ClaimOwner(r) \/ ClaimMarker(r)
      PROVE  TypeOK'
  <2> USE ProfileType, KeyType DEF local, store, env
  <2>1. CASE ClaimAgain(r)
    BY <2>1 DEF ClaimAgain, Step, At, Goto
  <2>2. CASE ClaimOwner(r)
    BY <2>2 DEF ClaimOwner, Step, At, Goto
  <2>3. CASE ClaimMarker(r)
    BY <2>3 DEF ClaimMarker, Step, At, Goto
  <2> QED BY <1>6, <2>1, <2>2, <2>3
<1>7. ASSUME NEW r \in Requests,
             Reserve(r) \/ Dispatch(r) \/ Place(r) \/ Report(r) \/ Record(r)
      PROVE  TypeOK'
  <2> USE ProfileType, KeyType DEF local, store, env
  <2>1. CASE Reserve(r)
    BY <2>1 DEF Reserve, At, Goto
  <2>2. CASE Dispatch(r)
    BY <2>2 DEF Dispatch, At, Goto
  <2>3. CASE Place(r)
    BY <2>3 DEF Place, At, Goto
  <2>4. CASE Report(r)
    BY <2>4 DEF Report, At, Goto
  <2>5. CASE Record(r)
    BY <2>5 DEF Record, Step, At, Goto
  <2> QED BY <1>7, <2>1, <2>2, <2>3, <2>4, <2>5
<1>8. ASSUME NEW i \in Instances, Crash(i) PROVE TypeOK'
  BY <1>8, BoundsAssumption DEF Crash, Forget, store
<1>9. ASSUME NEW a \in Attempts, BrokerDone(a) PROVE TypeOK'
  BY <1>9 DEF BrokerDone, process, local, store
<1>10. CASE DayTick
  BY <1>10, BoundsAssumption DEF DayTick, Days, process, local, store
<1> QED
  BY <1>1, <1>2, <1>3, <1>4, <1>5, <1>6, <1>7, <1>8, <1>9, <1>10 DEF Next, Work

\* Type correctness: every reachable state of the cycles, the stores and the
\* broker is of the declared shape.
THEOREM TypeCorrectness == Spec => []TypeOK
<1>1. Init => TypeOK
  <2> SUFFICES ASSUME Init PROVE TypeOK
    OBVIOUS
  <2>1. 1 \in Days /\ 0 \in 0..MaxCrashes
    BY BoundsAssumption DEF Days
  <2>2. /\ pc \in [Requests -> Locations]
        /\ runLock \in [Instances -> Requests \cup {None}]
        /\ lockFiles \in SUBSET (Instances \X Profiles \X Days)
    BY DEF Init, Locations
  <2>3. /\ dayOf \in [Requests -> Days]
        /\ session \in [Requests -> BOOLEAN]
        /\ brake \in [Requests -> BOOLEAN]
        /\ plan \in [Requests -> SUBSET (Sides \X Symbols)]
        /\ current \in [Requests -> Attempts \cup {None}]
        /\ claimHeld \in [Requests -> BOOLEAN]
    BY <2>1 DEF Init
  <2>4. /\ owner \in Profiles \cup {None}
        /\ marker \in [Keys -> Requests \cup {None}]
        /\ certainty \in [Attempts -> {"none", "unknown", "known_pending", "terminal"}]
        /\ breaker \in BOOLEAN
    BY DEF Init
  <2>5. /\ order \in [Attempts -> {"none", "live", "done"}]
        /\ day \in Days
        /\ crashes \in 0..MaxCrashes
    BY <2>1 DEF Init
  <2> QED BY <2>2, <2>3, <2>4, <2>5 DEF TypeOK
<1>2. TypeOK /\ [Next]_vars => TypeOK'
  BY TypeStep
<1> QED BY <1>1, <1>2, PTL DEF Spec

(***************************************************************************)
(* The inductive invariant, one lemma per action, or per group of actions  *)
(* that leave the stores alone.                                            *)
(***************************************************************************)

\* The actions that only move a request to another location.
Moves(r) ==
  \/ Skip(r) \/ ObserveFails(r) \/ Dedup(r) \/ AdmitFails(r) \/ TakeLock(r)
  \/ TradeFails(r) \/ EndTrade(r) \/ ClaimAgain(r) \/ Dispatch(r)

LEMMA MovesStep ==
  ASSUME NEW r \in Requests, TypeOK, IInv, Moves(r)
  PROVE  IInv'
<1> DEFINE Move(here, there) == pc[r] = here /\ pc' = [pc EXCEPT ![r] = there]
<1>1. UNCHANGED <<runLock, local, store, order>>
  BY DEF Moves, Skip, ObserveFails, Dedup, AdmitFails, TakeLock, TradeFails,
         EndTrade, ClaimAgain, Dispatch, env
<1>2. \/ Move("idle", "done")
      \/ pc[r] \in Running /\ \E there \in {"fail", "finish", "record"} :
                                pc' = [pc EXCEPT ![r] = there]
      \/ Move("dedup", "admit")
      \/ Move("lock", "trade")
      \/ Move("claim", "reserve") /\ claimHeld[r]
      \/ Move("dispatch", "place")
  BY DEF Moves, Skip, ObserveFails, Dedup, AdmitFails, TakeLock, TradeFails,
         EndTrade, ClaimAgain, Dispatch, Step, At, Goto, Running, Submitting
<1> HIDE DEF Move
<1>3. LockInv'
  BY <1>1, <1>2 DEF IInv, LockInv, TypeOK, Move, Running, Submitting
<1>4. KeyInv' /\ JournalInv' /\ PlanInv'
  BY <1>1 DEF IInv, KeyInv, JournalInv, PlanInv, Claimed, KeyOf, local, store
<1>5. ClaimInv'
  <2>1. \A q \in Requests : Claimed(q)' <=> Claimed(q)
    BY <1>1 DEF Claimed, KeyOf, local, store
  <2> QED BY <1>1, <1>2, <2>1
       DEF IInv, ClaimInv, TypeOK, Move, Submitting, local, store
<1>6. CurrentInv'
  BY <1>1, <1>2
  DEF IInv, CurrentInv, TypeOK, Move, Handling, Submitting, local, store
<1> QED BY <1>3, <1>4, <1>5, <1>6 DEF IInv

\* The actions on the cycle's local variables that leave the stores alone.
LEMMA BeginStep ==
  ASSUME NEW r \in Requests, TypeOK, IInv, Begin(r)
  PROVE  IInv'
<1>1. LockInv'
  BY RequestsAssumption, TopologyAssumption
  DEF Begin, RunLockFree, Step, At, Goto, IInv, LockInv, TypeOK, Running, Submitting
<1>2. KeyInv' /\ JournalInv' /\ PlanInv'
  BY DEF Begin, IInv, KeyInv, JournalInv, PlanInv, Claimed, KeyOf, local, store, env
<1>3. ClaimInv'
  BY DEF Begin, Step, At, Goto, IInv, ClaimInv, Claimed, KeyOf, TypeOK,
         Submitting, local, store
<1>4. CurrentInv'
  BY DEF Begin, Step, At, Goto, IInv, CurrentInv, TypeOK, Handling, Submitting,
         local, store, env
<1> QED BY <1>1, <1>2, <1>3, <1>4 DEF IInv

\* The keys of the request change, before it has claimed any of them.
LEMMA ObserveStep ==
  ASSUME NEW r \in Requests, TypeOK, TypeOK', IInv, Observe(r)
  PROVE  IInv'
<1>1. /\ pc[r] = "connect"
      /\ \/ pc' = [pc EXCEPT ![r] = "dedup"]
         \/ pc' = [pc EXCEPT ![r] = "finish"]
      /\ UNCHANGED <<runLock, plan, current, claimHeld, owner, marker, certainty, order>>
      /\ \A q \in Requests \ {r} : dayOf'[q] = dayOf[q]
  BY DEF Observe, Step, At, Goto, env, TypeOK
<1>2. \A k \in Keys : marker[k] # r
  <2> SUFFICES ASSUME NEW k \in Keys, marker[k] = r PROVE FALSE
    OBVIOUS
  <2>1. k = KeyOf(r)
    BY RequestsAssumption DEF IInv, KeyInv
  <2>2. ~Claimed(r)
    BY <1>1 DEF IInv, ClaimInv
  <2> QED BY <2>1, <2>2 DEF Claimed
<1>3. /\ ~Claimed(r) /\ ~Claimed(r)'
      /\ \A q \in Requests \ {r} : Claimed(q)' <=> Claimed(q)
  <2>1. KeyOf(r) \in Keys /\ KeyOf(r)' \in Keys
    BY ProfileType DEF KeyOf, ProfileFor, Keys, TypeOK
  <2> QED BY <1>1, <1>2, <2>1 DEF Claimed, KeyOf, ProfileFor
<1>4. LockInv'
  BY <1>1 DEF IInv, LockInv, TypeOK, Running, Submitting
<1>5. KeyInv'
  <2> SUFFICES ASSUME NEW k \in Keys, marker[k] # None
               PROVE  k = KeyOf(marker[k])' /\ owner = k[1]
    BY <1>1 DEF KeyInv
  <2>1. marker[k] \in Requests \ {r}
    BY <1>2 DEF TypeOK
  <2> QED BY <1>1, <2>1 DEF IInv, KeyInv, KeyOf, ProfileFor
<1>6. ClaimInv'
  BY <1>1, <1>3 DEF IInv, ClaimInv, TypeOK, Submitting
<1>7. CurrentInv'
  BY <1>1 DEF IInv, CurrentInv, TypeOK, Handling, Submitting
<1>8. PlanInv'
  BY <1>1 DEF IInv, PlanInv
<1>9. JournalInv'
  BY <1>1, <1>3 DEF IInv, JournalInv, Attempts
<1> QED BY <1>4, <1>5, <1>6, <1>7, <1>8, <1>9 DEF IInv

\* A plan is made before the request has an attempt.
LEMMA AdmitStep ==
  ASSUME NEW r \in Requests, TypeOK, IInv, Admit(r)
  PROVE  IInv'
<1>1. /\ pc[r] = "admit"
      /\ \/ pc' = [pc EXCEPT ![r] = "finish"]
         \/ pc' = [pc EXCEPT ![r] = "lock"]
      /\ UNCHANGED <<runLock, dayOf, current, claimHeld, owner, marker, certainty, order>>
      /\ \A q \in Requests \ {r} : plan'[q] = plan[q]
  BY DEF Admit, Step, At, Goto, env, TypeOK
<1>2. \A q \in Requests : Claimed(q)' <=> Claimed(q)
  BY <1>1 DEF Claimed, KeyOf
<1>3. LockInv'
  BY <1>1 DEF IInv, LockInv, TypeOK, Running, Submitting
<1>4. KeyInv' /\ JournalInv'
  BY <1>1 DEF IInv, KeyInv, JournalInv, Claimed, KeyOf
<1>5. ClaimInv'
  BY <1>1, <1>2 DEF IInv, ClaimInv, TypeOK, Submitting
<1>6. CurrentInv'
  BY <1>1 DEF IInv, CurrentInv, TypeOK, Handling, Submitting
<1>7. PlanInv'
  <2>1. ~Claimed(r)
    BY <1>1 DEF IInv, ClaimInv
  <2>2. \A a \in Attempts : a[1] = r => certainty[a] = "none"
    BY <2>1 DEF IInv, JournalInv
  <2>3. \A a \in Attempts : a[1] \in Requests
    BY DEF Attempts
  <2> QED BY <1>1, <2>2, <2>3 DEF IInv, PlanInv
<1> QED BY <1>3, <1>4, <1>5, <1>6, <1>7 DEF IInv

LEMMA SkipIntentStep ==
  ASSUME NEW r \in Requests, TypeOK, IInv, SkipIntent(r)
  PROVE  IInv'
<1>1. /\ pc[r] = "trade"
      /\ UNCHANGED <<pc, runLock, dayOf, current, claimHeld, store, order>>
      /\ \A q \in Requests : plan'[q] \subseteq plan[q]
      /\ \A q \in Requests \ {r} : plan'[q] = plan[q]
  BY DEF SkipIntent, At, process, env, TypeOK
<1>2. LockInv' /\ KeyInv' /\ JournalInv' /\ ClaimInv'
  BY <1>1 DEF IInv, LockInv, KeyInv, JournalInv, ClaimInv, Claimed, KeyOf, store
<1>3. CurrentInv'
  BY <1>1 DEF IInv, CurrentInv, Handling, Submitting, store
<1>4. PlanInv'
  <2>1. \A a \in Attempts : a[1] \in Requests
    BY DEF Attempts
  <2> QED BY <1>1, <2>1 DEF IInv, PlanInv, store
<1> QED BY <1>2, <1>3, <1>4 DEF IInv

\* The intent leaves the plan as its attempt becomes the current one.
LEMMA SubmitStep ==
  ASSUME NEW r \in Requests, TypeOK, IInv, Submit(r)
  PROVE  IInv'
<1>1. PICK x \in plan[r] :
        /\ plan' = [plan EXCEPT ![r] = @ \ {x}]
        /\ current' = [current EXCEPT ![r] = <<r, x[1], x[2]>>]
        /\ IF session[r] THEN Goto(r, "claim") ELSE Goto(r, "fail")
  BY DEF Submit, NextIntents, Buys
<1>2. /\ pc[r] = "trade"
      /\ \/ pc' = [pc EXCEPT ![r] = "claim"]
         \/ pc' = [pc EXCEPT ![r] = "fail"]
      /\ UNCHANGED <<runLock, dayOf, claimHeld, store, order>>
  BY <1>1 DEF Submit, At, Goto, env
<1>3. DEFINE a == <<r, x[1], x[2]>>
<1>4. /\ a \in Attempts /\ a[1] = r /\ IntentOf(a) = x
      /\ current'[r] = a
      /\ \A q \in Requests \ {r} : current'[q] = current[q]
  <2>1. x \in Sides \X Symbols
    BY <1>1 DEF TypeOK
  <2> QED BY <1>1, <2>1 DEF TypeOK, Attempts, IntentOf
<1>5. certainty[a] = "none"
  BY <1>4 DEF IInv, PlanInv
<1> HIDE DEF a
<1>6. LockInv'
  BY <1>2 DEF IInv, LockInv, TypeOK, Running, Submitting
<1>7. KeyInv' /\ JournalInv'
  BY <1>2 DEF IInv, KeyInv, JournalInv, Claimed, KeyOf, store
<1>8. ClaimInv'
  BY <1>2 DEF IInv, ClaimInv, Claimed, KeyOf, TypeOK, Submitting, store
<1>9. CurrentInv'
  BY <1>1, <1>2, <1>4, <1>5
  DEF IInv, CurrentInv, TypeOK, Handling, Submitting, store
<1>10. PlanInv'
  <2>1. \A b \in Attempts : b[1] \in Requests
    BY DEF Attempts
  <2> QED BY <1>1, <1>2, <2>1 DEF IInv, PlanInv, TypeOK, store
<1> QED BY <1>6, <1>7, <1>8, <1>9, <1>10 DEF IInv

\* The locals of requests that end: the finally block, or a kill.
LEMMA FinishStep ==
  ASSUME NEW r \in Requests, TypeOK, IInv, Finish(r)
  PROVE  IInv'
<1>1. /\ pc[r] \in Running
      /\ pc' = [pc EXCEPT ![r] = "done"]
      /\ runLock' = [runLock EXCEPT ![Host[r]] = None]
      /\ UNCHANGED <<dayOf, store, order>>
  BY DEF Finish, Goto, Released, Forget, Running, env
<1>2. \A q \in Requests \ {r} : plan'[q] = plan[q] /\ current'[q] = current[q]
  BY DEF Finish, Forget
<1>3. \A q \in Requests : plan'[q] \subseteq plan[q] /\ (claimHeld'[q] => claimHeld[q])
  BY DEF Finish, Forget
<1>4. LockInv'
  BY <1>1, TopologyAssumption DEF IInv, LockInv, TypeOK, Running, Submitting
<1>5. KeyInv' /\ JournalInv'
  BY <1>1 DEF IInv, KeyInv, JournalInv, Claimed, KeyOf, store
<1>6. ClaimInv'
  BY <1>1, <1>3 DEF IInv, ClaimInv, Claimed, KeyOf, TypeOK, Submitting, store
<1>7. CurrentInv'
  BY <1>1, <1>2 DEF IInv, CurrentInv, TypeOK, Handling, Submitting, store
<1>8. PlanInv'
  <2>1. \A b \in Attempts : b[1] \in Requests
    BY DEF Attempts
  <2> QED BY <1>1, <1>3, <2>1 DEF IInv, PlanInv, store
<1> QED BY <1>4, <1>5, <1>6, <1>7, <1>8 DEF IInv

LEMMA CrashStep ==
  ASSUME NEW i \in Instances, TypeOK, IInv, Crash(i)
  PROVE  IInv'
<1> DEFINE dead == {q \in Requests : Host[q] = i /\ pc[q] \in Running}
<1>1. /\ pc' = [q \in Requests |-> IF q \in dead THEN "killed" ELSE pc[q]]
      /\ runLock' = [runLock EXCEPT ![i] = None]
      /\ Forget(dead)
      /\ UNCHANGED <<dayOf, store, order>>
  BY DEF Crash, Forget
<1>2. \A q \in Requests \ dead :
        pc'[q] = pc[q] /\ plan'[q] = plan[q] /\ current'[q] = current[q]
  BY <1>1 DEF Forget
<1>3. \A q \in dead : pc'[q] = "killed"
  BY <1>1
<1>4. \A q \in Requests : plan'[q] \subseteq plan[q] /\ (claimHeld'[q] => claimHeld[q])
  BY <1>1 DEF Forget
<1>5. LockInv'
  BY <1>1, <1>2, <1>3, TopologyAssumption
  DEF IInv, LockInv, TypeOK, Running, Submitting
<1> HIDE DEF dead
<1>6. KeyInv' /\ JournalInv'
  BY <1>1 DEF IInv, KeyInv, JournalInv, Claimed, KeyOf, store
<1>7. ClaimInv'
  BY <1>1, <1>2, <1>3, <1>4 DEF IInv, ClaimInv, Claimed, KeyOf, Submitting, store
<1>8. CurrentInv'
  BY <1>1, <1>2, <1>3 DEF IInv, CurrentInv, Handling, Submitting, store
<1>9. PlanInv'
  <2>1. \A b \in Attempts : b[1] \in Requests
    BY DEF Attempts
  <2> QED BY <1>1, <1>4, <2>1 DEF IInv, PlanInv, store
<1> QED BY <1>5, <1>6, <1>7, <1>8, <1>9 DEF IInv

\* The owner is written once: a key that is marked is the owner's.
LEMMA ClaimOwnerStep ==
  ASSUME NEW r \in Requests, TypeOK, IInv, ClaimOwner(r)
  PROVE  IInv'
<1>1. /\ pc[r] = "claim"
      /\ UNCHANGED <<runLock, local, marker, certainty, order>>
      /\ \/ /\ owner \in {None, ProfileFor(r)} /\ owner' = ProfileFor(r)
            /\ \/ pc' = [pc EXCEPT ![r] = "claim_marker"]
               \/ pc' = [pc EXCEPT ![r] = "fail"]
         \/ pc' = [pc EXCEPT ![r] = "fail"] /\ owner' = owner
  BY DEF ClaimOwner, OwnerAllows, Step, At, Goto, env
<1>2. owner # None => owner' = owner
  BY <1>1
<1>3. \A q \in Requests : Claimed(q)' <=> Claimed(q)
  BY <1>1 DEF Claimed, KeyOf, local
<1>4. LockInv'
  BY <1>1 DEF IInv, LockInv, TypeOK, Running, Submitting
<1>5. KeyInv'
  <2> SUFFICES ASSUME NEW k \in Keys, marker[k] # None
               PROVE  k = KeyOf(marker[k])' /\ owner' = k[1]
    BY <1>1 DEF KeyInv
  <2>1. k = KeyOf(marker[k]) /\ owner = k[1]
    BY DEF IInv, KeyInv
  <2>2. k[1] # None
    BY ProfilesAssumption DEF Keys
  <2> QED BY <1>1, <1>2, <2>1, <2>2 DEF KeyOf, local
<1>6. ClaimInv'
  <2>1. \A q \in Requests : ProfileFor(q) # None
    BY ProfileType, ProfilesAssumption
  <2> QED BY <1>1, <1>2, <1>3, <2>1 DEF IInv, ClaimInv, TypeOK, Submitting, local
<1>7. CurrentInv'
  BY <1>1 DEF IInv, CurrentInv, TypeOK, Handling, Submitting, local
<1>8. PlanInv' /\ JournalInv'
  BY <1>1 DEF IInv, PlanInv, JournalInv, Claimed, KeyOf, local
<1> QED BY <1>4, <1>5, <1>6, <1>7, <1>8 DEF IInv

\* A marker is written once, by a request of the owner.
LEMMA ClaimMarkerStep ==
  ASSUME NEW r \in Requests, TypeOK, IInv, ClaimMarker(r)
  PROVE  IInv'
<1>1. /\ pc[r] = "claim_marker"
      /\ UNCHANGED <<runLock, dayOf, plan, current, owner, certainty, order>>
      /\ \/ /\ marker[KeyOf(r)] = None
            /\ marker' = [marker EXCEPT ![KeyOf(r)] = r]
            /\ \/ /\ pc' = [pc EXCEPT ![r] = "reserve"]
                  /\ claimHeld' = [claimHeld EXCEPT ![r] = TRUE]
               \/ pc' = [pc EXCEPT ![r] = "fail"] /\ claimHeld' = claimHeld
         \/ /\ pc' = [pc EXCEPT ![r] = "fail"]
            /\ UNCHANGED <<marker, claimHeld>>
  BY DEF ClaimMarker, MarkerFree, Step, At, Goto, env
<1>2. KeyOf(r) \in Keys /\ KeyOf(r)[1] = ProfileFor(r) /\ owner = ProfileFor(r)
  BY <1>1, KeyType DEF IInv, ClaimInv, TypeOK, KeyOf
<1>3. \A q \in Requests : KeyOf(q)' = KeyOf(q) /\ (Claimed(q) => Claimed(q)')
  BY <1>1, RequestsAssumption, KeyType DEF Claimed, KeyOf, TypeOK
<1>4. \A q \in Requests \ {r} : Claimed(q)' => Claimed(q)
  BY <1>1, <1>2, KeyType DEF Claimed, KeyOf, TypeOK
<1>5. \/ pc' = [pc EXCEPT ![r] = "reserve"] /\ Claimed(r)'
      \/ pc' = [pc EXCEPT ![r] = "fail"] /\ claimHeld' = claimHeld
  BY <1>1, <1>2 DEF Claimed, KeyOf, TypeOK
<1>6. LockInv'
  BY <1>1, <1>5 DEF IInv, LockInv, TypeOK, Running, Submitting
<1>7. KeyInv'
  <2> SUFFICES ASSUME NEW k \in Keys, marker'[k] # None
               PROVE  /\ k = <<ProfileFor(marker'[k]), dayOf[marker'[k]]>>
                      /\ owner = k[1]
    BY <1>1 DEF KeyInv, KeyOf, ProfileFor
  <2>1. CASE k = KeyOf(r) /\ marker'[k] = r
    BY <1>2, <2>1 DEF KeyOf
  <2>2. CASE marker'[k] = marker[k]
    BY <2>2 DEF IInv, KeyInv, KeyOf
  <2> QED BY <1>1, <1>2, <2>1, <2>2 DEF TypeOK
<1>8. ClaimInv'
  BY <1>1, <1>3, <1>4, <1>5 DEF IInv, ClaimInv, TypeOK, Submitting
<1>9. CurrentInv'
  BY <1>1, <1>5 DEF IInv, CurrentInv, TypeOK, Handling, Submitting
<1>10. PlanInv'
  BY <1>1 DEF IInv, PlanInv
<1>11. JournalInv'
  BY <1>1, <1>3 DEF IInv, JournalInv, Attempts
<1> QED BY <1>6, <1>7, <1>8, <1>9, <1>10, <1>11 DEF IInv

\* The journal: one attempt at most is unknown.
LEMMA ReserveStep ==
  ASSUME NEW r \in Requests, TypeOK, IInv, Reserve(r)
  PROVE  IInv'
<1>1. /\ pc[r] = "reserve"
      /\ UNCHANGED <<runLock, dayOf, plan, claimHeld, owner, marker, order>>
      /\ \/ /\ pc' = [pc EXCEPT ![r] = "fail"]
            /\ UNCHANGED <<current, certainty>>
         \/ /\ pc' = [pc EXCEPT ![r] = "trade"]
            /\ current' = [current EXCEPT ![r] = None]
            /\ UNCHANGED certainty
         \/ /\ ~Fenced
            /\ \/ pc' = [pc EXCEPT ![r] = "dispatch"]
               \/ pc' = [pc EXCEPT ![r] = "fail"]
            /\ certainty' = [certainty EXCEPT ![current[r]] = "unknown"]
            /\ UNCHANGED current
  BY DEF Reserve, At, Goto, env
<1>2. /\ current[r] \in Attempts /\ current[r][1] = r
      /\ IntentOf(current[r]) \notin plan[r]
      /\ certainty[current[r]] = "none" /\ order[current[r]] = "none"
      /\ Claimed(r)
  BY <1>1 DEF IInv, CurrentInv, ClaimInv, JournalInv, Handling
<1>3. \A q \in Requests : Claimed(q)' <=> Claimed(q)
  BY <1>1 DEF Claimed, KeyOf
<1>4. LockInv'
  BY <1>1 DEF IInv, LockInv, TypeOK, Running, Submitting
<1>5. KeyInv'
  BY <1>1 DEF IInv, KeyInv, KeyOf
<1>6. ClaimInv'
  BY <1>1, <1>2, <1>3 DEF IInv, ClaimInv, TypeOK, Submitting
<1>7. CurrentInv'
  <2> SUFFICES ASSUME NEW q \in Requests, pc'[q] \in Handling \cup Submitting
               PROVE  /\ current'[q] \in Attempts
                      /\ current'[q][1] = q
                      /\ IntentOf(current'[q]) \notin plan'[q]
                      /\ pc'[q] \in Handling => certainty'[current'[q]] = "none"
                      /\ pc'[q] \in Submitting => certainty'[current'[q]] = "unknown"
                      /\ pc'[q] \in {"dispatch", "place"} => order'[current'[q]] = "none"
    BY DEF CurrentInv, IntentOf
  <2>1. CASE q = r
    BY <1>1, <1>2, <2>1 DEF TypeOK, Handling, Submitting
  <2>2. CASE q # r
    <3>1. /\ pc'[q] = pc[q] /\ current'[q] = current[q]
          /\ current[q] \in Attempts /\ current[q][1] = q
      BY <1>1, <2>2 DEF TypeOK, IInv, CurrentInv
    <3>2. certainty'[current[q]] = certainty[current[q]]
      BY <1>1, <1>2, <2>2, <3>1 DEF TypeOK
    <3> QED BY <1>1, <3>1, <3>2 DEF IInv, CurrentInv
  <2> QED BY <2>1, <2>2
<1>8. PlanInv'
  BY <1>1, <1>2 DEF IInv, PlanInv, TypeOK
<1>9. JournalInv'
  <2>1. \A a \in Attempts \ {current[r]} : certainty'[a] = certainty[a]
    BY <1>1, <1>2 DEF TypeOK
  <2>2. CASE certainty' = certainty
    BY <1>1, <1>3, <2>2 DEF IInv, JournalInv, Attempts
  <2>3. CASE certainty' = [certainty EXCEPT ![current[r]] = "unknown"] /\ ~Fenced
    <3>1. \A a \in Attempts : certainty'[a] = "unknown" => a = current[r]
      BY <2>1, <2>3 DEF Fenced
    <3>2. certainty'[current[r]] = "unknown"
      BY <1>2, <2>3 DEF TypeOK
    <3>3. \A a \in Attempts : a[1] \in Requests
      BY DEF Attempts
    <3> QED BY <1>1, <1>2, <1>3, <2>1, <3>1, <3>2, <3>3 DEF IInv, JournalInv
  <2> QED BY <1>1, <2>2, <2>3
<1> QED BY <1>4, <1>5, <1>6, <1>7, <1>8, <1>9 DEF IInv

LEMMA PlaceStep ==
  ASSUME NEW r \in Requests, TypeOK, IInv, Place(r)
  PROVE  IInv'
<1>1. /\ pc[r] = "place"
      /\ UNCHANGED <<runLock, local, store>>
      /\ \/ pc' = [pc EXCEPT ![r] = "fail"]
         \/ pc' = [pc EXCEPT ![r] = "report"]
      /\ \/ order' = order
         \/ order' = [order EXCEPT ![current[r]] = "live"]
  BY DEF Place, At, Goto
<1>2. /\ current[r] \in Attempts /\ current[r][1] = r
      /\ certainty[current[r]] = "unknown"
  BY <1>1 DEF IInv, CurrentInv, Submitting
<1>3. LockInv'
  BY <1>1 DEF IInv, LockInv, TypeOK, Running, Submitting
<1>4. KeyInv' /\ PlanInv'
  BY <1>1 DEF IInv, KeyInv, PlanInv, KeyOf, local, store
<1>5. ClaimInv'
  BY <1>1 DEF IInv, ClaimInv, Claimed, KeyOf, TypeOK, Submitting, local, store
<1>6. CurrentInv'
  <2> SUFFICES ASSUME NEW q \in Requests, q # r, pc[q] \in {"dispatch", "place"}
               PROVE  order'[current[q]] = order[current[q]]
    BY <1>1, <1>2 DEF IInv, CurrentInv, TypeOK, Handling, Submitting, local, store
  <2>1. current[q] \in Attempts /\ current[q][1] = q
    BY DEF IInv, CurrentInv, Submitting
  <2> QED BY <1>1, <1>2, <2>1 DEF TypeOK
<1>7. JournalInv'
  BY <1>1, <1>2 DEF IInv, JournalInv, Claimed, KeyOf, TypeOK, local, store
<1> QED BY <1>3, <1>4, <1>5, <1>6, <1>7 DEF IInv

LEMMA ReportStep ==
  ASSUME NEW r \in Requests, TypeOK, IInv, Report(r)
  PROVE  IInv'
<1>1. /\ pc[r] = "report"
      /\ UNCHANGED <<runLock, dayOf, plan, claimHeld, owner, marker, order>>
      /\ \/ /\ pc' = [pc EXCEPT ![r] = "trade"]
            /\ \/ certainty' = [certainty EXCEPT ![current[r]] = "known_pending"]
               \/ certainty' = [certainty EXCEPT ![current[r]] = "terminal"]
            /\ current' = [current EXCEPT ![r] = None]
         \/ /\ \/ pc' = [pc EXCEPT ![r] = "record"]
               \/ pc' = [pc EXCEPT ![r] = "fail"]
            /\ UNCHANGED <<certainty, current>>
  BY DEF Report, At, Goto, env
<1>2. /\ current[r] \in Attempts /\ current[r][1] = r
      /\ certainty[current[r]] = "unknown"
  BY <1>1 DEF IInv, CurrentInv, Submitting
<1>3. \A q \in Requests : Claimed(q)' <=> Claimed(q)
  BY <1>1 DEF Claimed, KeyOf
<1>4. LockInv'
  BY <1>1 DEF IInv, LockInv, TypeOK, Running, Submitting
<1>5. KeyInv'
  BY <1>1 DEF IInv, KeyInv, KeyOf
<1>6. ClaimInv'
  BY <1>1, <1>3 DEF IInv, ClaimInv, TypeOK, Submitting
<1>7. CurrentInv'
  <2> SUFFICES ASSUME NEW q \in Requests, q # r, pc[q] \in Handling \cup Submitting
               PROVE  certainty'[current[q]] = certainty[current[q]]
    BY <1>1, <1>2 DEF IInv, CurrentInv, TypeOK, Handling, Submitting
  <2>1. current[q] \in Attempts /\ current[q][1] = q
    BY DEF IInv, CurrentInv
  <2> QED BY <1>1, <1>2, <2>1 DEF TypeOK
<1>8. PlanInv'
  BY <1>1, <1>2 DEF IInv, PlanInv, TypeOK
<1>9. JournalInv'
  <2>1. \A a \in Attempts : certainty'[a] # "none" => certainty[a] # "none"
    BY <1>1, <1>2 DEF TypeOK
  <2>2. \A a \in Attempts : certainty[a] # "none" => certainty'[a] # "none"
    BY <1>1, <1>2 DEF TypeOK
  <2>3. \A a \in Attempts : certainty'[a] = "unknown" => certainty[a] = "unknown"
    BY <1>1, <1>2 DEF TypeOK
  <2>4. \A a \in Attempts : a[1] \in Requests
    BY DEF Attempts
  <2> QED BY <1>1, <1>3, <2>1, <2>2, <2>3, <2>4 DEF IInv, JournalInv
<1> QED BY <1>4, <1>5, <1>6, <1>7, <1>8, <1>9 DEF IInv

\* The marker that a submitting request records is its own.
LEMMA RecordKeepsMarker ==
  ASSUME NEW r \in Requests, TypeOK, IInv, Record(r)
  PROVE  marker' = marker
<1>1. CASE Submitted(r) /\ marker' = [marker EXCEPT ![KeyOf(r)] = r]
  <2>1. Claimed(r)
    BY <1>1 DEF Submitted, IInv, JournalInv
  <2> QED BY <1>1, <2>1, KeyType DEF Claimed, TypeOK
<1>2. CASE UNCHANGED marker
  BY <1>2
<1> QED BY <1>1, <1>2 DEF Record

LEMMA RecordStep ==
  ASSUME NEW r \in Requests, TypeOK, IInv, Record(r)
  PROVE  IInv'
<1>1. /\ pc[r] = "record"
      /\ pc' = [pc EXCEPT ![r] = "finish"]
      /\ UNCHANGED <<runLock, local, owner, marker, certainty, order>>
  BY RecordKeepsMarker DEF Record, Step, At, Goto, env
<1>2. LockInv'
  BY <1>1 DEF IInv, LockInv, TypeOK, Running, Submitting
<1>3. KeyInv' /\ PlanInv' /\ JournalInv'
  BY <1>1 DEF IInv, KeyInv, PlanInv, JournalInv, Claimed, KeyOf, local
<1>4. ClaimInv'
  BY <1>1 DEF IInv, ClaimInv, Claimed, KeyOf, TypeOK, Submitting, local
<1>5. CurrentInv'
  BY <1>1 DEF IInv, CurrentInv, TypeOK, Handling, Submitting, local
<1> QED BY <1>2, <1>3, <1>4, <1>5 DEF IInv

LEMMA BrokerDoneStep ==
  ASSUME NEW a \in Attempts, TypeOK, IInv, BrokerDone(a)
  PROVE  IInv'
<1>1. /\ order[a] = "live" /\ order' = [order EXCEPT ![a] = "done"]
      /\ UNCHANGED <<process, local, store>>
  BY DEF BrokerDone
<1>2. \A b \in Attempts : order[b] = "none" <=> order'[b] = "none"
  BY <1>1 DEF TypeOK
<1>3. LockInv' /\ KeyInv' /\ ClaimInv' /\ PlanInv'
  BY <1>1 DEF IInv, LockInv, KeyInv, ClaimInv, PlanInv, Claimed, KeyOf,
              process, local, store
<1>4. CurrentInv'
  BY <1>1, <1>2 DEF IInv, CurrentInv, process, local, store
<1>5. JournalInv'
  BY <1>1, <1>2 DEF IInv, JournalInv, Claimed, KeyOf, local, store
<1> QED BY <1>3, <1>4, <1>5 DEF IInv

\* Steps that change nothing the invariant speaks of.
LEMMA StutterStep ==
  ASSUME TypeOK, IInv, UNCHANGED <<process, local, store, order>>
  PROVE  IInv'
BY DEF IInv, LockInv, KeyInv, ClaimInv, CurrentInv, PlanInv, JournalInv, Claimed,
       KeyOf, process, local, store

LEMMA InitIInv == Init => IInv
<1> SUFFICES ASSUME Init PROVE IInv
  OBVIOUS
<1>1. \A r \in Requests : ~Claimed(r)
  <2> SUFFICES ASSUME NEW r \in Requests PROVE ~Claimed(r)
    OBVIOUS
  <2>1. KeyOf(r) \in Keys
    BY KeyType, BoundsAssumption DEF Init, Days
  <2> QED BY <2>1, RequestsAssumption DEF Init, Claimed
<1> QED
  BY <1>1 DEF Init, IInv, LockInv, KeyInv, ClaimInv, CurrentInv, PlanInv,
              JournalInv, Running, Submitting, Handling

LEMMA IInvStep == TypeOK /\ TypeOK' /\ IInv /\ [Next]_vars => IInv'
<1> SUFFICES ASSUME TypeOK, TypeOK', IInv, [Next]_vars PROVE IInv'
  OBVIOUS
<1>1. CASE UNCHANGED vars \/ DayTick
  BY <1>1, StutterStep DEF vars, env, DayTick
<1>2. ASSUME NEW r \in Requests, Skip(r) \/ Begin(r) \/ Work(r) PROVE IInv'
  BY <1>2, MovesStep, BeginStep, ObserveStep, AdmitStep, SkipIntentStep, SubmitStep,
     ClaimOwnerStep, ClaimMarkerStep, ReserveStep, PlaceStep, ReportStep,
     RecordStep, FinishStep
  DEF Work, Moves
<1>3. ASSUME NEW i \in Instances, Crash(i) PROVE IInv'
  BY <1>3, CrashStep
<1>4. ASSUME NEW a \in Attempts, BrokerDone(a) PROVE IInv'
  BY <1>4, BrokerDoneStep
<1> QED BY <1>1, <1>2, <1>3, <1>4 DEF Next

\* The inductive invariant holds in every reachable state.
THEOREM Invariance == Spec => []IInv
<1>1. Init => IInv
  BY InitIInv
<1>2. TypeOK /\ TypeOK' /\ IInv /\ [Next]_vars => IInv'
  BY IInvStep
<1> QED BY <1>1, <1>2, TypeCorrectness, PTL DEF Spec

(***************************************************************************)
(* Safety.                                                                 *)
(***************************************************************************)

\* The broker orders of one profile and signal date come from one request.
THEOREM OneSubmitter == Spec => []OneSubmitterPerDay
<1>1. IInv => OneSubmitterPerDay
  BY DEF IInv, JournalInv, OneSubmitterPerDay, Placed, Claimed
<1> QED BY <1>1, Invariance, PTL

\* An order at the broker has its owner, its marker and its attempt in the
\* stores, so a process that starts after a crash finds them.
THEOREM Traced == Spec => []OrdersAreTraced
<1>1. TypeOK /\ IInv => OrdersAreTraced
  <2> SUFFICES ASSUME TypeOK, IInv, NEW a \in Attempts, Placed(a)
               PROVE  /\ owner = ProfileFor(a[1])
                      /\ marker[KeyOf(a[1])] = a[1]
                      /\ certainty[a] # "none"
    BY DEF OrdersAreTraced
  <2>1. a[1] \in Requests /\ certainty[a] # "none" /\ Claimed(a[1])
    BY DEF IInv, JournalInv, Placed, Attempts
  <2>2. KeyOf(a[1]) \in Keys /\ KeyOf(a[1])[1] = ProfileFor(a[1])
    BY <2>1, KeyType DEF TypeOK, KeyOf
  <2>3. owner = ProfileFor(a[1])
    BY <2>1, <2>2, RequestsAssumption DEF IInv, KeyInv, Claimed
  <2> QED BY <2>1, <2>3 DEF Claimed
<1> QED BY <1>1, TypeCorrectness, Invariance, PTL

\* One request of the account submits at a time.
THEOREM MutualExclusion == Spec => []OneSubmission
<1>1. IInv => OneSubmission
  BY DEF IInv, CurrentInv, JournalInv, OneSubmission, Submitting
<1> QED BY <1>1, Invariance, PTL

\* The run lock lets one cycle of a process into the strategy at a time.
THEOREM OneCycle == Spec => []OneCyclePerInstance
<1>1. IInv => OneCyclePerInstance
  BY DEF IInv, LockInv, OneCyclePerInstance
<1> QED BY <1>1, Invariance, PTL

\* An order appears only as the current attempt of a request that places it.
LEMMA OrderAppears ==
  ASSUME TypeOK, [Next]_vars, NEW a \in Attempts, order[a] = "none", order'[a] # "none"
  PROVE  \E r \in Requests : pc[r] = "place" /\ current[r] = a
<1>1. CASE \E r \in Requests : Place(r)
  BY <1>1 DEF Place, At, TypeOK
<1>2. CASE \E b \in Attempts : BrokerDone(b)
  BY <1>2 DEF BrokerDone, TypeOK
<1>3. order' # order
  OBVIOUS
<1> QED
  BY <1>1, <1>2, <1>3
  DEF Next, Work, vars, env, Skip, Begin, ObserveFails, Observe, Dedup, AdmitFails,
      Admit, TakeLock, SkipIntent, TradeFails, Submit, EndTrade, ClaimAgain,
      ClaimOwner, ClaimMarker, Reserve, Dispatch, Report, Record, Finish, Crash, DayTick

\* No order is placed beside another attempt with an unknown outcome.
THEOREM Fence == Spec => UnknownFence
<1> DEFINE Alone == \A a \in Attempts : order[a] = "none" /\ order'[a] # "none" =>
                      \A b \in Attempts : certainty[b] = "unknown" => b = a
<1>1. TypeOK /\ IInv /\ [Next]_vars => [Alone]_vars
  BY OrderAppears DEF IInv, CurrentInv, JournalInv, Submitting
<1> QED BY <1>1, TypeCorrectness, Invariance, PTL DEF Spec, UnknownFence

\* A request enters the venue callback only past the last check of the breaker.
LEMMA PlaceEntered ==
  ASSUME TypeOK, [Next]_vars, NEW q \in Requests, pc'[q] = "place"
  PROVE  /\ current'[q] = current[q]
         /\ pc[q] = "place" \/ ~BreakerStops(current[q])
<1>1. CASE UNCHANGED vars \/ DayTick \/ \E a \in Attempts : BrokerDone(a)
  BY <1>1 DEF vars, DayTick, BrokerDone, process, local
<1>2. CASE \E i \in Instances : Crash(i)
  BY <1>2 DEF Crash, Forget
<1>3. ASSUME NEW r \in Requests, Moves(r)
      PROVE  /\ current'[q] = current[q]
             /\ pc[q] = "place" \/ ~BreakerStops(current[q])
  BY <1>3 DEF Moves, Skip, ObserveFails, Dedup, AdmitFails, TakeLock, TradeFails,
         EndTrade, ClaimAgain, Dispatch, DispatchRefuses, Step, At, Goto, local, TypeOK
<1>4. ASSUME NEW r \in Requests,
             \/ Begin(r) \/ Observe(r) \/ Admit(r) \/ SkipIntent(r) \/ Submit(r)
             \/ ClaimOwner(r) \/ ClaimMarker(r) \/ Record(r) \/ Finish(r)
      PROVE  current'[q] = current[q] /\ pc[q] = "place"
  BY <1>4 DEF Begin, Observe, Admit, SkipIntent, Submit, ClaimOwner, ClaimMarker,
         Record, Finish, Forget, Step, At, Goto, process, local, TypeOK
<1>5. ASSUME NEW r \in Requests, Reserve(r) \/ Place(r) \/ Report(r)
      PROVE  current'[q] = current[q] /\ pc[q] = "place"
  BY <1>5 DEF Reserve, Place, Report, At, Goto, local, TypeOK
<1> QED BY <1>1, <1>2, <1>3, <1>4, <1>5 DEF Next, Work, Moves

\* With the breaker OPEN no new-risk buy enters the venue callback.
THEOREM BreakerCloses == Spec => BreakerWindow
<1>1. TypeOK /\ [Next]_vars => [breaker => (RiskInFlight' => RiskInFlight)]_vars
  <2> SUFFICES ASSUME TypeOK, [Next]_vars, breaker,
                      NEW q \in Requests, pc'[q] = "place", NewRisk(current'[q])
               PROVE  RiskInFlight
    BY DEF RiskInFlight, NewRisk
  <2> QED BY PlaceEntered DEF RiskInFlight, BreakerStops
<1> QED BY <1>1, TypeCorrectness, PTL DEF Spec, BreakerWindow

(***************************************************************************)
(* The cycles implement the submission authority.                          *)
(***************************************************************************)

LEMMA InitRefines == Init => Authority!Init
BY DEF Init, Authority!Init, AttemptsThat, PlacedAttempts, Placed

\* A step that leaves the stores and the set of placed orders alone.
LEMMA StutterRefines ==
  ASSUME UNCHANGED <<owner, marker, certainty>>,
         \A a \in Attempts : order[a] = "none" <=> order'[a] = "none"
  PROVE  UNCHANGED Authority!vars
BY DEF Authority!vars, AttemptsThat, PlacedAttempts, Placed

LEMMA ClaimOwnerRefines ==
  ASSUME NEW r \in Requests, TypeOK, ClaimOwner(r)
  PROVE  [Authority!Next]_(Authority!vars)
<1>1. UNCHANGED <<marker, certainty, order>>
  BY DEF ClaimOwner, env
<1>2. CASE owner' = owner
  BY <1>1, <1>2, StutterRefines
<1>3. CASE owner = None /\ owner' = ProfileFor(r)
  <2>1. Authority!Hold(ProfileFor(r))
    BY <1>1, <1>3 DEF Authority!Hold, AttemptsThat, PlacedAttempts, Placed
  <2> QED BY <2>1, ProfileType DEF Authority!Next
<1> QED BY <1>2, <1>3 DEF ClaimOwner, OwnerAllows

LEMMA ClaimMarkerRefines ==
  ASSUME NEW r \in Requests, TypeOK, IInv, ClaimMarker(r)
  PROVE  [Authority!Next]_(Authority!vars)
<1>1. UNCHANGED <<owner, certainty, order>> /\ pc[r] = "claim_marker"
  BY DEF ClaimMarker, env, Step, At
<1>2. CASE marker' = marker
  BY <1>1, <1>2, StutterRefines
<1>3. CASE marker[KeyOf(r)] = None /\ marker' = [marker EXCEPT ![KeyOf(r)] = r]
  <2>1. owner = KeyOf(r)[1]
    BY <1>1 DEF IInv, ClaimInv, KeyOf
  <2>2. Authority!Grant(KeyOf(r), r)
    BY <1>1, <1>3, <2>1 DEF Authority!Grant, Authority!HolderOf, AttemptsThat,
       PlacedAttempts, Placed
  <2> QED BY <2>2, KeyType DEF Authority!Next, TypeOK
<1> QED BY <1>2, <1>3 DEF ClaimMarker, MarkerFree

LEMMA ReserveRefines ==
  ASSUME NEW r \in Requests, TypeOK, IInv, Reserve(r)
  PROVE  [Authority!Next]_(Authority!vars)
<1>1. UNCHANGED <<owner, marker, order>> /\ pc[r] = "reserve"
  BY DEF Reserve, At, env
<1>2. CASE certainty' = certainty
  BY <1>1, <1>2, StutterRefines
<1>3. CASE ~Fenced /\ certainty' = [certainty EXCEPT ![current[r]] = "unknown"]
  <2> DEFINE a == current[r]
  <2>1. a \in Attempts /\ a[1] = r /\ certainty[a] = "none" /\ marker[KeyOf(r)] = r
    BY <1>1 DEF IInv, CurrentInv, ClaimInv, Claimed, Handling
  <2>2. KeyOf(r) \in Keys
    BY KeyType DEF TypeOK
  <2>3. /\ AttemptsThat({"unknown"}) = {}
        /\ AttemptsThat({"unknown"})' = {a}
        /\ a \notin AttemptsThat({"known_pending", "terminal"})
    BY <1>3, <2>1 DEF AttemptsThat, Fenced, TypeOK
  <2>4. AttemptsThat({"known_pending", "terminal"})' =
        AttemptsThat({"known_pending", "terminal"})
    BY <1>3, <2>1 DEF AttemptsThat, TypeOK
  <2> HIDE DEF a
  <2>5. Authority!Granted(Authority!RequestOf(a))
    BY <2>1, <2>2 DEF Authority!Granted, Authority!RequestOf
  <2>6. Authority!Open(a)
    BY <1>1, <2>3, <2>4, <2>5 DEF Authority!Open, PlacedAttempts, Placed
  <2> QED BY <2>1, <2>6 DEF Authority!Next
<1> QED BY <1>2, <1>3 DEF Reserve

LEMMA PlaceRefines ==
  ASSUME NEW r \in Requests, TypeOK, IInv, Place(r)
  PROVE  [Authority!Next]_(Authority!vars)
<1>1. UNCHANGED <<owner, marker, certainty>> /\ pc[r] = "place"
  BY DEF Place, At, store
<1>2. CASE order' = order
  BY <1>1, <1>2, StutterRefines
<1>3. CASE order' = [order EXCEPT ![current[r]] = "live"]
  <2>1. PICK a \in Attempts :
          a = current[r] /\ certainty[a] = "unknown" /\ order[a] = "none"
    BY <1>1 DEF IInv, CurrentInv, Submitting
  <2>2. PlacedAttempts' = PlacedAttempts \cup {a}
    BY <1>3, <2>1 DEF PlacedAttempts, Placed, TypeOK
  <2>3. a \in AttemptsThat({"unknown"}) \ PlacedAttempts
    BY <2>1 DEF AttemptsThat, PlacedAttempts, Placed
  <2>4. UNCHANGED <<AttemptsThat({"unknown"}), AttemptsThat({"known_pending", "terminal"})>>
    BY <1>1 DEF AttemptsThat
  <2>5. Authority!Order(a)
    BY <1>1, <2>2, <2>3, <2>4 DEF Authority!Order
  <2> QED BY <2>5 DEF Authority!Next
<1> QED BY <1>2, <1>3 DEF Place

LEMMA ReportRefines ==
  ASSUME NEW r \in Requests, TypeOK, IInv, Report(r)
  PROVE  [Authority!Next]_(Authority!vars)
<1>1. UNCHANGED <<owner, marker, order>> /\ pc[r] = "report"
  BY DEF Report, At, env
<1>2. CASE certainty' = certainty
  BY <1>1, <1>2, StutterRefines
<1>3. ASSUME NEW known \in {"known_pending", "terminal"},
             certainty' = [certainty EXCEPT ![current[r]] = known]
      PROVE  [Authority!Next]_(Authority!vars)
  <2> DEFINE a == current[r]
  <2>1. a \in Attempts /\ certainty[a] = "unknown"
    BY <1>1 DEF IInv, CurrentInv, Submitting
  <2>2. /\ AttemptsThat({"unknown"})' = AttemptsThat({"unknown"}) \ {a}
        /\ AttemptsThat({"known_pending", "terminal"})' =
           AttemptsThat({"known_pending", "terminal"}) \cup {a}
    BY <1>3, <2>1 DEF AttemptsThat, TypeOK
  <2>3. a \in AttemptsThat({"unknown"})
    BY <2>1 DEF AttemptsThat
  <2> HIDE DEF a
  <2>4. Authority!Settle(a)
    BY <1>1, <2>2, <2>3 DEF Authority!Settle, PlacedAttempts, Placed
  <2> QED BY <2>1, <2>4 DEF Authority!Next
<1> QED BY <1>2, <1>3 DEF Report

LEMMA NextRefines == TypeOK /\ IInv /\ [Next]_vars => [Authority!Next]_(Authority!vars)
<1> SUFFICES ASSUME TypeOK, IInv, [Next]_vars
             PROVE  [Authority!Next]_(Authority!vars)
  OBVIOUS
<1>1. CASE UNCHANGED vars \/ DayTick \/ \E i \in Instances : Crash(i)
  BY <1>1, StutterRefines DEF vars, DayTick, Crash, store, env
<1>2. ASSUME NEW a \in Attempts, BrokerDone(a)
      PROVE  [Authority!Next]_(Authority!vars)
  BY <1>2, StutterRefines DEF BrokerDone, TypeOK, store
<1>3. ASSUME NEW r \in Requests,
             \/ Moves(r) \/ Begin(r) \/ Observe(r) \/ Admit(r) \/ SkipIntent(r)
             \/ Submit(r) \/ Finish(r) \/ Record(r)
      PROVE  [Authority!Next]_(Authority!vars)
  <2>1. UNCHANGED <<owner, marker, certainty, order>>
    BY <1>3, RecordKeepsMarker
    DEF Moves, Skip, ObserveFails, Dedup, AdmitFails, TakeLock, TradeFails, EndTrade,
        ClaimAgain, Dispatch, Begin, Observe, Admit, SkipIntent, Submit, Finish,
        Record, store, env
  <2> QED BY <2>1, StutterRefines
<1> QED
  BY <1>1, <1>2, <1>3, ClaimOwnerRefines, ClaimMarkerRefines, ReserveRefines,
     PlaceRefines, ReportRefines
  DEF Next, Work, Moves

\* Every behaviour of the cycles is one of the account's submission authority.
THEOREM Refinement == Spec => AuthoritySpec
<1>1. Init => Authority!Init
  BY InitRefines
<1>2. TypeOK /\ IInv /\ [Next]_vars => [Authority!Next]_(Authority!vars)
  BY NextRefines
<1> QED
  BY <1>1, <1>2, TypeCorrectness, Invariance, PTL DEF Spec, AuthoritySpec, Authority!Spec
=============================================================================
