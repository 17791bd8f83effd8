------------------------- MODULE MorePrograms_proofs -------------------------
(***************************************************************************)
(* Proofs about the programs that MCPrograms adds to ScheduledPrograms:    *)
(* what each of them keeps true with every step, and what that says of its *)
(* properties.  Programs_proofs rests on them.                             *)
(***************************************************************************)
EXTENDS MCPrograms, Sequences, FiniteSetTheorems, TLAPS

LEMMA TimesCount == Times \in Nat /\ Times > 0
BY TimesAssumption

----------------------------------------------------------------------------
(* The posts of a Flex run.                                                *)

LEMMA SetupsApart ==
  \A c \in Setups : c.slots \in Seq({"b", "c"}) /\ U!Apart(c)
<1> SUFFICES ASSUME NEW c \in Setups
             PROVE  c.slots \in Seq({"b", "c"}) /\ U!Apart(c)
  OBVIOUS
<1>1. c.slots = <<>> \/ c.slots = <<"b", "c">> \/ c.slots = <<"c">>
  <2>1. CASE c \in {[slots |-> slots, keys |-> Keys, shape |-> TRUE] : slots \in {<<>>, <<"b", "c">>, <<"c">>}}
    <3>1. PICK slots \in {<<>>, <<"b", "c">>, <<"c">>} : c = [slots |-> slots, keys |-> Keys, shape |-> TRUE]
      BY <2>1
    <3> QED BY <3>1
  <2>2. CASE c = [slots |-> <<"b", "c">>, keys |-> [Keys EXCEPT !.b = "k1"], shape |-> TRUE]
    BY <2>2
  <2>3. CASE c = [slots |-> <<>>, keys |-> Keys, shape |-> FALSE]
    BY <2>3
  <2> QED BY <2>1, <2>2, <2>3 DEF Setups
<1>2. CASE c.slots = <<>>
  BY <1>2 DEF U!Apart
<1>3. CASE c.slots = <<"b", "c">>
  BY <1>3 DEF U!Apart, U!Primary
<1>4. CASE c.slots = <<"c">>
  BY <1>4 DEF U!Apart, U!Primary
<1> QED BY <1>1, <1>2, <1>3, <1>4

LEMMA FlexPost ==
  ASSUME NEW p, NEW next, U!Post(p, next)
  PROVE  /\ v1' = next
         /\ \/ v9' = v9 /\ v10' = v10
            \/ v9' = v9 \cup {p} /\ v10' = (v10 \/ p \in v9)
BY DEF U!Post, U!Go

LEMMA FlexRequest ==
  ASSUME U!IInv, U!Request
  PROVE  U!IInv'
BY DEF U!PostedSoFar, U!Primary, U!Account, U!At, U!Go, U!Kept, U!PostUnchanged, U!IInv, U!Request, U!Fail

LEMMA FlexPending ==
  ASSUME U!IInv, U!Pending
  PROVE  U!IInv'
BY DEF U!PostedSoFar, U!Primary, U!Account, U!At, U!Go, U!Kept, U!PostUnchanged, U!IInv, U!Pending,
   U!OnPending, U!Fail

LEMMA FlexCollect ==
  ASSUME U!IInv, U!Collect
  PROVE  U!IInv'
BY DEF U!PostedSoFar, U!Primary, U!Account, U!At, U!Go, U!Kept, U!PostUnchanged, U!IInv, U!Collect, U!First,
   U!Fail

LEMMA FlexNextAdditional ==
  ASSUME U!IInv, U!NextAdditional
  PROVE  U!IInv'
BY DEF U!PostedSoFar, U!Primary, U!Account, U!At, U!Go, U!Kept, U!PostUnchanged, U!IInv, U!NextAdditional,
   U!FlowsToo

LEMMA FlexNoMore ==
  ASSUME U!IInv, U!NoMore
  PROVE  U!IInv'
BY DEF U!PostedSoFar, U!Primary, U!Account, U!At, U!Go, U!Kept, U!PostUnchanged, U!IInv, U!NoMore

LEMMA FlexFinish ==
  ASSUME U!IInv, U!Finish
  PROVE  U!IInv'
BY DEF U!PostedSoFar, U!Primary, U!Account, U!At, U!Go, U!Kept, U!PostUnchanged, U!IInv, U!Finish

LEMMA FlexDispatch ==
  ASSUME U!IInv, U!Dispatch
  PROVE  U!IInv'
<1>1. v4' \in Setups
  BY DEF U!Dispatch
<1>2. v4'.slots \in Seq({"b", "c"}) /\ U!Apart(v4')
  BY <1>1, SetupsApart
<1>3. v6' = 0 /\ v8' = 1 /\ v10' = FALSE /\ v1' \in {"idle", "request"} /\ v9' = {}
  BY DEF U!Dispatch, U!Go
<1> QED BY <1>2, <1>3 DEF U!IInv, U!PostedSoFar, U!Apart

LEMMA FlexPublishReturn ==
  ASSUME U!IInv, U!PublishReturn
  PROVE  U!IInv'
<1> DEFINE own == <<U!Primary, "return">>
           next == IF v2 = "primary" THEN "finish" ELSE "trades"
<1>1. v1 = "return" /\ U!Post(own, next) /\ v4' = v4 /\ v6' = v6 /\ v8' = v8
  BY DEF U!PublishReturn, U!At, U!PostUnchanged
<1>2. v1' = next
  BY <1>1, FlexPost
<1>3. (v9' = v9 /\ v10' = v10) \/ (v9' = v9 \cup {own} /\ v10' = (v10 \/ own \in v9))
  <2> HIDE DEF own, next
  <2> QED BY <1>1, FlexPost
<1>4. own \notin v9
  BY <1>1 DEF U!IInv, U!PostedSoFar, U!Primary
<1>5. U!PostedSoFar'
  BY <1>1, <1>2, <1>3 DEF U!IInv, U!PostedSoFar, U!Primary
<1> QED BY <1>1, <1>2, <1>3, <1>4, <1>5 DEF U!IInv, U!Apart

LEMMA FlexPublishTrades ==
  ASSUME U!IInv, U!PublishTrades
  PROVE  U!IInv'
<1> DEFINE own == <<U!Primary, "trades">>
           next == "flows"
<1>1. v1 = "trades" /\ U!Post(own, next) /\ v4' = v4 /\ v6' = v6 /\ v8' = v8
  BY DEF U!PublishTrades, U!At, U!PostUnchanged
<1>2. v1' = next
  BY <1>1, FlexPost
<1>3. (v9' = v9 /\ v10' = v10) \/ (v9' = v9 \cup {own} /\ v10' = (v10 \/ own \in v9))
  <2> HIDE DEF own, next
  <2> QED BY <1>1, FlexPost
<1>4. own \notin v9
  BY <1>1 DEF U!IInv, U!PostedSoFar, U!Primary
<1>5. U!PostedSoFar'
  BY <1>1, <1>2, <1>3 DEF U!IInv, U!PostedSoFar, U!Primary
<1> QED BY <1>1, <1>2, <1>3, <1>4, <1>5 DEF U!IInv, U!Apart

LEMMA FlexPublishFlows ==
  ASSUME U!IInv, U!PublishFlows
  PROVE  U!IInv'
<1> DEFINE own == <<U!Primary, "flows">>
           next == IF v2 = "flows" THEN "finish" ELSE "more"
<1>1. v1 = "flows" /\ U!Post(own, next) /\ v4' = v4 /\ v6' = v6 /\ v8' = v8
  BY DEF U!PublishFlows, U!At, U!PostUnchanged
<1>2. v1' = next
  BY <1>1, FlexPost
<1>3. (v9' = v9 /\ v10' = v10) \/ (v9' = v9 \cup {own} /\ v10' = (v10 \/ own \in v9))
  <2> HIDE DEF own, next
  <2> QED BY <1>1, FlexPost
<1>4. own \notin v9
  BY <1>1 DEF U!IInv, U!PostedSoFar, U!Primary
<1>5. U!PostedSoFar'
  BY <1>1, <1>2, <1>3 DEF U!IInv, U!PostedSoFar, U!Primary
<1> QED BY <1>1, <1>2, <1>3, <1>4, <1>5 DEF U!IInv, U!Apart

LEMMA FlexPublishAdditional ==
  ASSUME U!IInv, U!PublishAdditional
  PROVE  U!IInv'
<1> DEFINE own == <<U!Account, "return">>
<1>1. /\ v1 = "more" /\ v1' = "moreflows" /\ v8 <= Len(v4.slots)
      /\ v4' = v4 /\ v6' = v6 /\ v8' = v8
  BY FlexPost DEF U!PublishAdditional, U!At, U!More, U!PostUnchanged
<1>2. (v9' = v9 /\ v10' = v10) \/ (v9' = v9 \cup {own} /\ v10' = (v10 \/ own \in v9))
  <2>1. U!Post(own, "moreflows")
    BY DEF U!PublishAdditional
  <2> HIDE DEF own
  <2> QED BY <2>1, FlexPost
<1>3. U!Account # U!Primary /\ \A i \in 1..(v8 - 1) : U!Account # v4.slots[i]
  BY <1>1 DEF U!IInv, U!Apart, U!Account
<1>4. own \notin v9
  BY <1>1, <1>3 DEF U!IInv, U!PostedSoFar
<1>5. U!PostedSoFar'
  BY <1>1, <1>2 DEF U!IInv, U!PostedSoFar, U!Account
<1> QED BY <1>1, <1>2, <1>4, <1>5 DEF U!IInv, U!Apart

LEMMA FlexAdditionalFlows ==
  ASSUME U!IInv, U!AdditionalFlows
  PROVE  U!IInv'
<1> DEFINE own == <<U!Account, "flows">>
<1>1. /\ v1 = "moreflows" /\ v1' = "more" /\ v8 <= Len(v4.slots)
      /\ v4' = v4 /\ v6' = v6 /\ v8' = v8 + 1
  BY FlexPost DEF U!AdditionalFlows, U!At, U!PostUnchanged, U!IInv
<1>2. (v9' = v9 /\ v10' = v10) \/ (v9' = v9 \cup {own} /\ v10' = (v10 \/ own \in v9))
  <2>1. U!Post(own, "more")
    BY DEF U!AdditionalFlows
  <2> HIDE DEF own
  <2> QED BY <2>1, FlexPost
<1>3. U!Account # U!Primary /\ \A i \in 1..(v8 - 1) : U!Account # v4.slots[i]
  BY <1>1 DEF U!IInv, U!Apart, U!Account
<1>4. own \notin v9
  BY <1>1, <1>3 DEF U!IInv, U!PostedSoFar
<1>5. ASSUME NEW p \in v9'
      PROVE  p[1] = U!Primary \/ \E i \in 1..v8 : p[1] = v4.slots[i]
  <2>1. v8 \in 1..v8 /\ \A i \in 1..(v8 - 1) : i \in 1..v8
    BY DEF U!IInv
  <2>2. CASE p[1] = U!Account
    BY <2>1, <2>2 DEF U!Account
  <2>3. CASE p \in v9 /\ p # <<U!Account, "return">>
    BY <1>1, <2>1, <2>3 DEF U!IInv, U!PostedSoFar
  <2> QED BY <1>2, <2>2, <2>3
<1>6. U!PostedSoFar'
  <2>1. v8' - 1 = v8
    BY <1>1 DEF U!IInv
  <2> QED BY <1>1, <1>5, <2>1 DEF U!IInv, U!PostedSoFar
<1>7. v10' = FALSE
  <2> HIDE DEF own
  <2> QED BY <1>2, <1>4 DEF U!IInv
<1>8. v8' \in Nat \ {0} /\ v4'.slots \in Seq({"b", "c"}) /\ U!Apart(v4')
  BY <1>1 DEF U!IInv, U!Apart
<1> QED BY <1>1, <1>6, <1>7, <1>8 DEF U!IInv

LEMMA FlexInit ==
  ASSUME U!Init
  PROVE  U!IInv
<1>1. v4.slots \in Seq({"b", "c"}) /\ U!Apart(v4)
  <2>1. v4 \in Setups
    BY DEF U!Init
  <2> QED BY <2>1, SetupsApart DEF U!Apart
<1>2. v1 = "idle" /\ v6 = 0 /\ v8 = 1 /\ v9 = {} /\ v10 = FALSE
  BY DEF U!Init
<1> QED BY <1>1, <1>2 DEF U!IInv, U!PostedSoFar

LEMMA FlexStep ==
  ASSUME part = "flex", U!IInv, [Next]_vars
  PROVE  part' = "flex" /\ U!IInv'
<1>1. CASE Next
  <2>1. U!Next /\ part' = part
    BY <1>1 DEF Next, Keep5, Keep6, Keep7, Keep8, Keep9, Keep10, Keep11, Keep13, Keep14
  <2> QED BY <2>1, FlexRequest, FlexPending, FlexCollect, FlexNextAdditional, FlexNoMore, FlexFinish,
      FlexDispatch, FlexPublishReturn, FlexPublishTrades, FlexPublishFlows, FlexPublishAdditional,
      FlexAdditionalFlows DEF U!Next
<1>2. CASE UNCHANGED vars
  BY <1>2 DEF vars, U!IInv, U!PostedSoFar, U!Apart, U!Account
<1> QED BY <1>1, <1>2

----------------------------------------------------------------------------
(* The writes of cloud_run_warm_recovery.py.                               *)

LEMMA WarmStart ==
  ASSUME W!IInv, W!Start
  PROVE  W!IInv'
BY DEF W!Kinds, W!Ahead, W!Unsent, W!WriteOnce, W!cloud, W!process, W!IInv, W!Start, W!FirstAttempt

LEMMA WarmCheck ==
  ASSUME W!IInv, W!Check
  PROVE  W!IInv'
BY DEF W!Kinds, W!Ahead, W!Unsent, W!WriteOnce, W!cloud, W!process, W!IInv, W!Check

LEMMA WarmRead ==
  ASSUME W!IInv, W!Read
  PROVE  W!IInv'
BY DEF W!Kinds, W!Ahead, W!Unsent, W!WriteOnce, W!cloud, W!process, W!IInv, W!Read, W!Intent

LEMMA WarmPut ==
  ASSUME W!IInv, W!Put
  PROVE  W!IInv'
BY DEF W!Kinds, W!Ahead, W!Unsent, W!WriteOnce, W!cloud, W!process, W!IInv, W!Put

LEMMA WarmWatch ==
  ASSUME W!IInv, W!Watch
  PROVE  W!IInv'
BY DEF W!Kinds, W!Ahead, W!Unsent, W!WriteOnce, W!cloud, W!process, W!IInv, W!Watch

LEMMA WarmProve ==
  ASSUME W!IInv, W!Prove
  PROVE  W!IInv'
BY DEF W!Kinds, W!Ahead, W!Unsent, W!WriteOnce, W!cloud, W!process, W!IInv, W!Prove

LEMMA WarmRaise ==
  ASSUME W!IInv, W!Raise
  PROVE  W!IInv'
BY DEF W!Kinds, W!Ahead, W!Unsent, W!WriteOnce, W!cloud, W!process, W!IInv, W!Raise

LEMMA WarmRecover ==
  ASSUME W!IInv, W!Recover
  PROVE  W!IInv'
BY DEF W!Kinds, W!Ahead, W!Unsent, W!WriteOnce, W!cloud, W!process, W!IInv, W!Recover

LEMMA WarmRollback ==
  ASSUME W!IInv, W!Rollback
  PROVE  W!IInv'
BY DEF W!Kinds, W!Ahead, W!Unsent, W!WriteOnce, W!cloud, W!process, W!IInv, W!Rollback

LEMMA WarmReconcile ==
  ASSUME W!IInv, W!Reconcile
  PROVE  W!IInv'
BY DEF W!Kinds, W!Ahead, W!Unsent, W!WriteOnce, W!cloud, W!process, W!IInv, W!Reconcile

LEMMA WarmForeign ==
  ASSUME W!IInv, W!Foreign
  PROVE  W!IInv'
BY DEF W!Kinds, W!Ahead, W!Unsent, W!WriteOnce, W!cloud, W!process, W!IInv, W!Foreign

LEMMA WarmHealthChanges ==
  ASSUME W!IInv, W!HealthChanges
  PROVE  W!IInv'
BY DEF W!Kinds, W!Ahead, W!Unsent, W!WriteOnce, W!cloud, W!process, W!IInv, W!HealthChanges

LEMMA WarmExpire ==
  ASSUME W!IInv, W!Expire
  PROVE  W!IInv'
BY DEF W!Kinds, W!Ahead, W!Unsent, W!WriteOnce, W!cloud, W!process, W!IInv, W!Expire

LEMMA WarmKill ==
  ASSUME W!IInv, W!Kill
  PROVE  W!IInv'
BY DEF W!Kinds, W!Ahead, W!Unsent, W!WriteOnce, W!cloud, W!process, W!IInv, W!Kill

LEMMA WarmSettle ==
  ASSUME W!IInv, W!Settle
  PROVE  W!IInv'
<1>1. CASE v6 = "create"
  BY <1>1 DEF W!Kinds, W!Ahead, W!Unsent, W!WriteOnce, W!cloud, W!process, W!IInv, W!Settle
<1>2. CASE v6 = "activate"
  BY <1>2 DEF W!Kinds, W!Ahead, W!Unsent, W!WriteOnce, W!cloud, W!process, W!IInv, W!Settle
<1>3. CASE v6 = "promote"
  BY <1>3 DEF W!Kinds, W!Ahead, W!Unsent, W!WriteOnce, W!cloud, W!process, W!IInv, W!Settle
<1>4. CASE v6 = "restore"
  BY <1>4 DEF W!Kinds, W!Ahead, W!Unsent, W!WriteOnce, W!cloud, W!process, W!IInv, W!Settle
<1> QED BY <1>1, <1>2, <1>3, <1>4 DEF W!IInv, W!Kinds

LEMMA WarmArrive ==
  ASSUME W!IInv, NEW w \in v4, W!Arrive(w)
  PROVE  W!IInv'
BY DEF W!Kinds, W!Ahead, W!Unsent, W!WriteOnce, W!cloud, W!process, W!IInv, W!Arrive

LEMMA WarmInit ==
  ASSUME W!Init
  PROVE  W!IInv
BY DEF W!Kinds, W!Ahead, W!Unsent, W!WriteOnce, W!cloud, W!process, W!IInv, W!Init

LEMMA WarmStep ==
  ASSUME part = "warm", W!IInv, [Next]_vars
  PROVE  part' = "warm" /\ W!IInv'
<1>1. CASE Next
  <2>1. W!Next /\ part' = part
    BY <1>1 DEF Next, Keep5, Keep6, Keep7, Keep8, Keep9, Keep10, Keep11, Keep13, Keep14
  <2> QED BY <2>1, WarmStart, WarmCheck, WarmRead, WarmPut, WarmWatch, WarmProve, WarmRaise, WarmRecover,
      WarmRollback, WarmReconcile, WarmForeign, WarmHealthChanges, WarmExpire, WarmKill, WarmSettle,
      WarmArrive DEF W!Next, W!Forward, W!Backward, W!Around
<1>2. CASE UNCHANGED vars
  BY <1>2 DEF vars, W!IInv, W!Unsent, W!WriteOnce
<1> QED BY <1>1, <1>2

----------------------------------------------------------------------------
(* The commands of cloud_run_candidate_warmup.py.                          *)

\* A command that comes after all those issued keeps the order, if the attempt
\* goes on to a place where only later ones may still be issued.
LEMMA CandidateIssues ==
  ASSUME C!IInv, NEW name \in C!Commands, \A i \in 1..Len(v10) : C!Order[v10[i]] < C!Order[name],
         v10' = Append(v10, name), v9' # "none",
         v3' \in DOMAIN C!Place => C!Order[name] < C!Place[v3']
  PROVE  C!IInv'
<1> DEFINE n == Len(v10) + 1
<1>1. v10 \in Seq(C!Commands) /\ C!NothingReplayed
  BY DEF C!IInv
<1>2. v10' \in Seq(C!Commands) /\ Len(v10') = n /\ v10'[n] = name
  BY <1>1
<1>3. \A i \in 1..Len(v10) : v10'[i] = v10[i] /\ v10[i] \in C!Commands
  BY <1>1
<1>4. \A i \in 1..n : i = n \/ i \in 1..Len(v10)
  BY <1>1
<1>5. \A c \in C!Commands : C!Order[c] \in Nat
  BY DEF C!Commands, C!Order
<1>6. C!NothingReplayed'
  <2> SUFFICES ASSUME NEW i \in 1..n, NEW j \in 1..n, v10'[i] = v10'[j]
               PROVE  i = j
    BY <1>2 DEF C!NothingReplayed
  <2>1. CASE i = n /\ j # n
    BY <2>1, <1>2, <1>3, <1>4, <1>5
  <2>2. CASE i # n /\ j = n
    BY <2>2, <1>2, <1>3, <1>4, <1>5
  <2>3. CASE i # n /\ j # n
    BY <2>3, <1>1, <1>3, <1>4 DEF C!NothingReplayed
  <2> QED BY <2>1, <2>2, <2>3
<1>7. v3' \in DOMAIN C!Place => \A i \in 1..n : C!Order[v10'[i]] < C!Place[v3']
  <2> SUFFICES ASSUME v3' \in DOMAIN C!Place, NEW i \in 1..n
               PROVE  C!Order[v10'[i]] < C!Place[v3']
    OBVIOUS
  <2>1. C!Place[v3'] \in Nat
    BY DEF C!Place
  <2>2. C!Order[v10'[i]] = C!Order[name] \/ C!Order[v10'[i]] < C!Order[name]
    BY <1>2, <1>3, <1>4
  <2>3. C!Order[v10'[i]] \in Nat /\ C!Order[name] \in Nat
    BY <1>2, <1>3, <1>4, <1>5
  <2> QED BY <2>1, <2>2, <2>3
<1> QED BY <1>2, <1>6, <1>7 DEF C!IInv

\* A step without a command keeps it, if nothing more may be issued before it.
LEMMA CandidateMoves ==
  ASSUME C!IInv, v10' = v10, v9' = "none" => v9 = "none" /\ v3' = v3,
         v3' \in DOMAIN C!Place => v10 = <<>> \/ (v3 \in DOMAIN C!Place /\ C!Place[v3] <= C!Place[v3'])
  PROVE  C!IInv'
<1>1. v10' \in Seq(C!Commands) /\ C!NothingReplayed'
  BY DEF C!IInv, C!NothingReplayed
<1>2. v9' = "none" => v3' = "idle" /\ v10' = <<>>
  BY DEF C!IInv
<1>3. v3' \in DOMAIN C!Place => \A i \in 1..Len(v10') : C!Order[v10'[i]] < C!Place[v3']
  <2> SUFFICES ASSUME v3' \in DOMAIN C!Place, NEW i \in 1..Len(v10)
               PROVE  C!Order[v10[i]] < C!Place[v3']
    OBVIOUS
  <2>1. v10 # <<>> /\ v10[i] \in C!Commands
    BY <1>1
  <2>2. v3 \in DOMAIN C!Place /\ C!Order[v10[i]] < C!Place[v3] /\ C!Place[v3] <= C!Place[v3']
    BY <2>1 DEF C!IInv
  <2>3. C!Order[v10[i]] \in Nat /\ C!Place[v3] \in Nat /\ C!Place[v3'] \in Nat
    BY <2>1, <2>2 DEF C!Commands, C!Order, C!Place
  <2> QED BY <2>2, <2>3
<1> QED BY <1>1, <1>2, <1>3 DEF C!IInv

LEMMA CandidateBegin ==
  ASSUME C!IInv, C!Begin
  PROVE  C!IInv'
<1>1. v10' = v10
  BY DEF C!Begin, C!NoState, C!Goto, C!locals
<1>2. v9' = "none" => v9 = "none" /\ v3' = v3
  BY DEF C!Begin, C!NoState, C!Goto, C!IInv, C!locals
<1>3. v3' \in DOMAIN C!Place => v10 = <<>> \/ (v3 \in DOMAIN C!Place /\ C!Place[v3] <= C!Place[v3'])
  BY DEF C!Begin, C!NoState, C!Goto, C!IInv, C!Place
<1> QED BY <1>1, <1>2, <1>3, CandidateMoves

LEMMA CandidateAdmit ==
  ASSUME C!IInv, C!Admit
  PROVE  C!IInv'
<1>1. v10' = v10
  BY DEF C!Admit, C!Goto, C!locals
<1>2. v9' = "none" => v9 = "none" /\ v3' = v3
  BY DEF C!Admit, C!Goto, C!IInv, C!locals
<1>3. v3' \in DOMAIN C!Place => v10 = <<>> \/ (v3 \in DOMAIN C!Place /\ C!Place[v3] <= C!Place[v3'])
  BY DEF C!Admit, C!Goto, C!IInv, C!Place
<1> QED BY <1>1, <1>2, <1>3, CandidateMoves

LEMMA CandidateDeploy ==
  ASSUME C!IInv, C!Deploy
  PROVE  C!IInv'
<1>1. v3 = "deploy" /\ v10' = Append(v10, "deploy")
  BY DEF C!Deploy, C!Command
<1>2. v9 # "none" /\ v9' # "none"
  BY <1>1 DEF C!IInv, C!Deploy, C!Command
<1>3. v3' \in DOMAIN C!Place => C!Order["deploy"] < C!Place[v3']
  BY DEF C!Deploy, C!Command, C!Place, C!Order
<1>4. C!Place[v3] = C!Order["deploy"] /\ v3 \in DOMAIN C!Place /\ "deploy" \in C!Commands
  BY <1>1 DEF C!Place, C!Order, C!Commands
<1>5. \A i \in 1..Len(v10) : C!Order[v10[i]] < C!Order["deploy"]
  BY <1>4 DEF C!IInv
<1> QED BY <1>1, <1>2, <1>3, <1>4, <1>5, CandidateIssues

LEMMA CandidateBind ==
  ASSUME C!IInv, C!Bind
  PROVE  C!IInv'
<1>1. v10' = v10
  BY DEF C!Bind, C!locals
<1>2. v9' = "none" => v9 = "none" /\ v3' = v3
  BY DEF C!Bind, C!IInv, C!locals
<1>3. v3' \in DOMAIN C!Place => v10 = <<>> \/ (v3 \in DOMAIN C!Place /\ C!Place[v3] <= C!Place[v3'])
  BY DEF C!Bind, C!IInv, C!Place
<1> QED BY <1>1, <1>2, <1>3, CandidateMoves

LEMMA CandidateSplit ==
  ASSUME C!IInv, C!Split
  PROVE  C!IInv'
<1>1. v3 = "split" /\ v10' = Append(v10, "split")
  BY DEF C!Split, C!Command
<1>2. v9 # "none" /\ v9' # "none"
  BY <1>1 DEF C!IInv, C!Split, C!Command
<1>3. v3' \in DOMAIN C!Place => C!Order["split"] < C!Place[v3']
  BY DEF C!Split, C!Command, C!Place, C!Order
<1>4. C!Place[v3] = C!Order["split"] /\ v3 \in DOMAIN C!Place /\ "split" \in C!Commands
  BY <1>1 DEF C!Place, C!Order, C!Commands
<1>5. \A i \in 1..Len(v10) : C!Order[v10[i]] < C!Order["split"]
  BY <1>4 DEF C!IInv
<1> QED BY <1>1, <1>2, <1>3, <1>4, <1>5, CandidateIssues

LEMMA CandidateQualify ==
  ASSUME C!IInv, C!Qualify
  PROVE  C!IInv'
<1>1. v10' = v10
  BY DEF C!Qualify, C!Observe, C!locals
<1>2. v9' = "none" => v9 = "none" /\ v3' = v3
  BY DEF C!Qualify, C!Observe, C!IInv, C!locals
<1>3. v3' \in DOMAIN C!Place => v10 = <<>> \/ (v3 \in DOMAIN C!Place /\ C!Place[v3] <= C!Place[v3'])
  BY DEF C!Qualify, C!Observe, C!IInv, C!Place
<1> QED BY <1>1, <1>2, <1>3, CandidateMoves

LEMMA CandidatePromote ==
  ASSUME C!IInv, C!Promote
  PROVE  C!IInv'
<1>1. v3 = "promote" /\ v10' = Append(v10, "promote")
  BY DEF C!Promote, C!Command
<1>2. v9 # "none" /\ v9' # "none"
  BY <1>1 DEF C!IInv, C!Promote, C!Command
<1>3. v3' \in DOMAIN C!Place => C!Order["promote"] < C!Place[v3']
  BY DEF C!Promote, C!Command, C!Place, C!Order
<1>4. C!Place[v3] = C!Order["promote"] /\ v3 \in DOMAIN C!Place /\ "promote" \in C!Commands
  BY <1>1 DEF C!Place, C!Order, C!Commands
<1>5. \A i \in 1..Len(v10) : C!Order[v10[i]] < C!Order["promote"]
  BY <1>4 DEF C!IInv
<1> QED BY <1>1, <1>2, <1>3, <1>4, <1>5, CandidateIssues

LEMMA CandidateRestore ==
  ASSUME C!IInv, C!Restore
  PROVE  C!IInv'
<1>1. v10' = v10
  BY DEF C!Restore, C!locals
<1>2. v9' = "none" => v9 = "none" /\ v3' = v3
  BY DEF C!Restore, C!IInv, C!locals
<1>3. v3' \in DOMAIN C!Place => v10 = <<>> \/ (v3 \in DOMAIN C!Place /\ C!Place[v3] <= C!Place[v3'])
  BY DEF C!Restore, C!IInv, C!Place
<1> QED BY <1>1, <1>2, <1>3, CandidateMoves

LEMMA CandidateUnsplit ==
  ASSUME C!IInv, C!Unsplit
  PROVE  C!IInv'
<1>1. v3 = "unsplit" /\ v10' = Append(v10, "unsplit")
  BY DEF C!Unsplit, C!Command
<1>2. v9 # "none" /\ v9' # "none"
  BY <1>1 DEF C!IInv, C!Unsplit, C!Command
<1>3. v3' \in DOMAIN C!Place => C!Order["unsplit"] < C!Place[v3']
  BY DEF C!Unsplit, C!Command, C!Place, C!Order
<1>4. C!Place[v3] = C!Order["unsplit"] /\ v3 \in DOMAIN C!Place /\ "unsplit" \in C!Commands
  BY <1>1 DEF C!Place, C!Order, C!Commands
<1>5. \A i \in 1..Len(v10) : C!Order[v10[i]] < C!Order["unsplit"]
  BY <1>4 DEF C!IInv
<1> QED BY <1>1, <1>2, <1>3, <1>4, <1>5, CandidateIssues

LEMMA CandidateUntag ==
  ASSUME C!IInv, C!Untag
  PROVE  C!IInv'
<1>1. v3 = "untag" /\ v10' = Append(v10, "untag")
  BY DEF C!Untag
<1>2. v9 # "none" /\ v9' # "none"
  BY <1>1 DEF C!IInv, C!Untag
<1>3. v3' \in DOMAIN C!Place => C!Order["untag"] < C!Place[v3']
  BY DEF C!Untag, C!Place, C!Order
<1>4. C!Place[v3] = C!Order["untag"] /\ v3 \in DOMAIN C!Place /\ "untag" \in C!Commands
  BY <1>1 DEF C!Place, C!Order, C!Commands
<1>5. \A i \in 1..Len(v10) : C!Order[v10[i]] < C!Order["untag"]
  BY <1>4 DEF C!IInv
<1> QED BY <1>1, <1>2, <1>3, <1>4, <1>5, CandidateIssues

LEMMA CandidateReset ==
  ASSUME C!IInv, C!Reset
  PROVE  C!IInv'
<1>1. v3 = "reset" /\ v10' = Append(v10, "reset")
  BY DEF C!Reset, C!Command
<1>2. v9 # "none" /\ v9' # "none"
  BY <1>1 DEF C!IInv, C!Reset, C!Command
<1>3. v3' \in DOMAIN C!Place => C!Order["reset"] < C!Place[v3']
  BY DEF C!Reset, C!Command, C!Place, C!Order
<1>4. C!Place[v3] = C!Order["reset"] /\ v3 \in DOMAIN C!Place /\ "reset" \in C!Commands
  BY <1>1 DEF C!Place, C!Order, C!Commands
<1>5. \A i \in 1..Len(v10) : C!Order[v10[i]] < C!Order["reset"]
  BY <1>4 DEF C!IInv
<1> QED BY <1>1, <1>2, <1>3, <1>4, <1>5, CandidateIssues

LEMMA CandidateSwap ==
  ASSUME C!IInv, C!Swap
  PROVE  C!IInv'
<1>1. v3 = "swap" /\ v10' = Append(v10, "swap")
  BY DEF C!Swap, C!Command
<1>2. v9 # "none" /\ v9' # "none"
  BY <1>1 DEF C!IInv, C!Swap, C!Command
<1>3. v3' \in DOMAIN C!Place => C!Order["swap"] < C!Place[v3']
  BY DEF C!Swap, C!Command, C!Place, C!Order
<1>4. C!Place[v3] = C!Order["swap"] /\ v3 \in DOMAIN C!Place /\ "swap" \in C!Commands
  BY <1>1 DEF C!Place, C!Order, C!Commands
<1>5. \A i \in 1..Len(v10) : C!Order[v10[i]] < C!Order["swap"]
  BY <1>4 DEF C!IInv
<1> QED BY <1>1, <1>2, <1>3, <1>4, <1>5, CandidateIssues

LEMMA CandidateRequalify ==
  ASSUME C!IInv, C!Requalify
  PROVE  C!IInv'
<1>1. v10' = v10
  BY DEF C!Requalify, C!Observe, C!locals
<1>2. v9' = "none" => v9 = "none" /\ v3' = v3
  BY DEF C!Requalify, C!Observe, C!IInv, C!locals
<1>3. v3' \in DOMAIN C!Place => v10 = <<>> \/ (v3 \in DOMAIN C!Place /\ C!Place[v3] <= C!Place[v3'])
  BY DEF C!Requalify, C!Observe, C!IInv, C!Place
<1> QED BY <1>1, <1>2, <1>3, CandidateMoves

LEMMA CandidateRepromote ==
  ASSUME C!IInv, C!Repromote
  PROVE  C!IInv'
<1>1. v3 = "repromote" /\ v10' = Append(v10, "repromote")
  BY DEF C!Repromote, C!Command
<1>2. v9 # "none" /\ v9' # "none"
  BY <1>1 DEF C!IInv, C!Repromote, C!Command
<1>3. v3' \in DOMAIN C!Place => C!Order["repromote"] < C!Place[v3']
  BY DEF C!Repromote, C!Command, C!Place, C!Order
<1>4. C!Place[v3] = C!Order["repromote"] /\ v3 \in DOMAIN C!Place /\ "repromote" \in C!Commands
  BY <1>1 DEF C!Place, C!Order, C!Commands
<1>5. \A i \in 1..Len(v10) : C!Order[v10[i]] < C!Order["repromote"]
  BY <1>4 DEF C!IInv
<1> QED BY <1>1, <1>2, <1>3, <1>4, <1>5, CandidateIssues

LEMMA CandidateAssert ==
  ASSUME C!IInv, C!Assert
  PROVE  C!IInv'
<1>1. v10' = v10
  BY DEF C!Assert, C!Goto, C!locals
<1>2. v9' = "none" => v9 = "none" /\ v3' = v3
  BY DEF C!Assert, C!Goto, C!IInv, C!locals
<1>3. v3' \in DOMAIN C!Place => v10 = <<>> \/ (v3 \in DOMAIN C!Place /\ C!Place[v3] <= C!Place[v3'])
  BY DEF C!Assert, C!Goto, C!IInv, C!Place
<1> QED BY <1>1, <1>2, <1>3, CandidateMoves

LEMMA CandidateReport ==
  ASSUME C!IInv, C!Report
  PROVE  C!IInv'
<1>1. v10' = v10
  BY DEF C!Report, C!Goto, C!locals
<1>2. v9' = "none" => v9 = "none" /\ v3' = v3
  BY DEF C!Report, C!Goto, C!IInv, C!locals
<1>3. v3' \in DOMAIN C!Place => v10 = <<>> \/ (v3 \in DOMAIN C!Place /\ C!Place[v3] <= C!Place[v3'])
  BY DEF C!Report, C!Goto, C!IInv, C!Place
<1> QED BY <1>1, <1>2, <1>3, CandidateMoves

LEMMA CandidateRaise ==
  ASSUME C!IInv, C!Raise
  PROVE  C!IInv'
<1>1. v10' = v10
  BY DEF C!Raise, C!Goto, C!Trying, C!Cleaning, C!locals
<1>2. v9' = "none" => v9 = "none" /\ v3' = v3
  BY DEF C!Raise, C!Goto, C!Trying, C!Cleaning, C!IInv, C!locals
<1>3. v3' \in DOMAIN C!Place => v10 = <<>> \/ (v3 \in DOMAIN C!Place /\ C!Place[v3] <= C!Place[v3'])
  BY DEF C!Raise, C!Goto, C!Trying, C!Cleaning, C!IInv, C!Place
<1> QED BY <1>1, <1>2, <1>3, CandidateMoves

LEMMA CandidateCleanupFailed ==
  ASSUME C!IInv, C!CleanupFailed
  PROVE  C!IInv'
<1>1. v10' = v10
  BY DEF C!CleanupFailed, C!Goto, C!locals
<1>2. v9' = "none" => v9 = "none" /\ v3' = v3
  BY DEF C!CleanupFailed, C!Goto, C!IInv, C!locals
<1>3. v3' \in DOMAIN C!Place => v10 = <<>> \/ (v3 \in DOMAIN C!Place /\ C!Place[v3] <= C!Place[v3'])
  BY DEF C!CleanupFailed, C!Goto, C!IInv, C!Place
<1> QED BY <1>1, <1>2, <1>3, CandidateMoves

LEMMA CandidateKill ==
  ASSUME C!IInv, C!Kill
  PROVE  C!IInv'
<1>1. v10' = v10
  BY DEF C!Kill, C!locals
<1>2. v9' = "none" => v9 = "none" /\ v3' = v3
  BY DEF C!Kill, C!IInv, C!locals
<1>3. v3' \in DOMAIN C!Place => v10 = <<>> \/ (v3 \in DOMAIN C!Place /\ C!Place[v3] <= C!Place[v3'])
  BY DEF C!Kill, C!IInv, C!Place
<1> QED BY <1>1, <1>2, <1>3, CandidateMoves

LEMMA CandidateInstanceChanges ==
  ASSUME C!IInv, NEW r \in {"warm", "reset"}, C!InstanceChanges(r)
  PROVE  C!IInv'
BY DEF C!Commands, C!Order, C!Place, C!NothingReplayed, C!locals, C!IInv, C!InstanceChanges

LEMMA CandidateInit ==
  ASSUME C!Init
  PROVE  C!IInv
BY DEF C!Commands, C!Order, C!Place, C!NothingReplayed, C!locals, C!IInv, C!Init

LEMMA CandidateStep ==
  ASSUME part = "candidate", C!IInv, [Next]_vars
  PROVE  part' = "candidate" /\ C!IInv'
<1>1. CASE Next
  <2>1. C!Next /\ part' = part
    BY <1>1 DEF Next, Keep5, Keep6, Keep7, Keep8, Keep9, Keep10, Keep11, Keep13, Keep14
  <2> QED BY <2>1, CandidateBegin, CandidateAdmit, CandidateDeploy, CandidateBind, CandidateSplit,
      CandidateQualify, CandidatePromote, CandidateRestore, CandidateUnsplit, CandidateUntag, CandidateReset,
      CandidateSwap, CandidateRequalify, CandidateRepromote, CandidateAssert, CandidateReport, CandidateRaise,
      CandidateCleanupFailed, CandidateKill, CandidateInstanceChanges DEF C!Next, C!Going
<1>2. CASE UNCHANGED vars
  BY <1>2 DEF vars, C!IInv, C!NothingReplayed, C!Commands
<1> QED BY <1>1, <1>2

----------------------------------------------------------------------------
(* The probe jobs of run_pilot_job_tcp.py.                                 *)

LEMMA JobDispatch ==
  ASSUME J!IInv, J!Dispatch
  PROVE  J!IInv'
BY TimesCount DEF J!AtMostOne, J!cloudState, J!fixed, J!IInv, J!Dispatch

LEMMA JobElsewhere ==
  ASSUME J!IInv, J!Elsewhere
  PROVE  J!IInv'
BY TimesCount DEF J!AtMostOne, J!cloudState, J!fixed, J!IInv, J!Elsewhere

LEMMA JobAdmit ==
  ASSUME J!IInv, J!Admit
  PROVE  J!IInv'
BY TimesCount DEF J!AtMostOne, J!cloudState, J!fixed, J!IInv, J!Admit, J!NothingLeft

LEMMA JobDiagnose ==
  ASSUME J!IInv, J!Diagnose
  PROVE  J!IInv'
BY TimesCount DEF J!AtMostOne, J!cloudState, J!fixed, J!IInv, J!Diagnose, J!NothingLeft

LEMMA JobCreate ==
  ASSUME J!IInv, J!Create
  PROVE  J!IInv'
BY TimesCount DEF J!AtMostOne, J!cloudState, J!fixed, J!IInv, J!Create

LEMMA JobReady ==
  ASSUME J!IInv, J!Ready
  PROVE  J!IInv'
BY TimesCount DEF J!AtMostOne, J!cloudState, J!fixed, J!IInv, J!Ready

LEMMA JobUnexecuted ==
  ASSUME J!IInv, J!Unexecuted
  PROVE  J!IInv'
BY TimesCount DEF J!AtMostOne, J!cloudState, J!fixed, J!IInv, J!Unexecuted

LEMMA JobRun ==
  ASSUME J!IInv, J!Run
  PROVE  J!IInv'
BY TimesCount DEF J!AtMostOne, J!cloudState, J!fixed, J!IInv, J!Run

LEMMA JobAwait ==
  ASSUME J!IInv, J!Await
  PROVE  J!IInv'
BY TimesCount DEF J!AtMostOne, J!cloudState, J!fixed, J!IInv, J!Await

LEMMA JobMeasure ==
  ASSUME J!IInv, J!Measure
  PROVE  J!IInv'
BY TimesCount DEF J!AtMostOne, J!cloudState, J!fixed, J!IInv, J!Measure, J!TaskSucceeded

LEMMA JobRaise ==
  ASSUME J!IInv, J!Raise
  PROVE  J!IInv'
BY TimesCount DEF J!AtMostOne, J!cloudState, J!fixed, J!IInv, J!Raise, J!Working

LEMMA JobRead ==
  ASSUME J!IInv, J!Read
  PROVE  J!IInv'
BY TimesCount DEF J!AtMostOne, J!cloudState, J!fixed, J!IInv, J!Read

LEMMA JobCancel ==
  ASSUME J!IInv, J!Cancel
  PROVE  J!IInv'
BY TimesCount DEF J!AtMostOne, J!cloudState, J!fixed, J!IInv, J!Cancel

LEMMA JobStopped ==
  ASSUME J!IInv, J!Stopped
  PROVE  J!IInv'
BY TimesCount DEF J!AtMostOne, J!cloudState, J!fixed, J!IInv, J!Stopped

LEMMA JobDelete ==
  ASSUME J!IInv, J!Delete
  PROVE  J!IInv'
BY TimesCount DEF J!AtMostOne, J!cloudState, J!fixed, J!IInv, J!Delete

LEMMA JobDeleted ==
  ASSUME J!IInv, J!Deleted
  PROVE  J!IInv'
BY TimesCount DEF J!AtMostOne, J!cloudState, J!fixed, J!IInv, J!Deleted

LEMMA JobFail ==
  ASSUME J!IInv, J!Fail
  PROVE  J!IInv'
BY TimesCount DEF J!AtMostOne, J!cloudState, J!fixed, J!IInv, J!Fail, J!Cleaning

LEMMA JobFinal ==
  ASSUME J!IInv, J!Final
  PROVE  J!IInv'
BY TimesCount DEF J!AtMostOne, J!cloudState, J!fixed, J!IInv, J!Final

LEMMA JobKill ==
  ASSUME J!IInv, J!Kill
  PROVE  J!IInv'
BY TimesCount DEF J!AtMostOne, J!cloudState, J!fixed, J!IInv, J!Kill

LEMMA JobInit ==
  ASSUME J!Init
  PROVE  J!IInv
BY TimesCount DEF J!AtMostOne, J!cloudState, J!fixed, J!IInv, J!Init

LEMMA JobStep ==
  ASSUME part = "job", J!IInv, [Next]_vars
  PROVE  part' = "job" /\ J!IInv'
<1>1. CASE Next
  <2>1. J!Next /\ part' = part
    BY <1>1 DEF Next, Keep5, Keep6, Keep7, Keep8, Keep9, Keep10, Keep11, Keep13, Keep14
  <2> QED BY <2>1, JobDispatch, JobElsewhere, JobAdmit, JobDiagnose, JobCreate, JobReady, JobUnexecuted,
      JobRun, JobAwait, JobMeasure, JobRaise, JobRead, JobCancel, JobStopped, JobDelete, JobDeleted, JobFail,
      JobFinal, JobKill DEF J!Next, J!Going
<1>2. CASE UNCHANGED vars
  BY <1>2 DEF vars, J!IInv, J!AtMostOne
<1> QED BY <1>1, <1>2

----------------------------------------------------------------------------
(* The sessions of an instance.                                            *)

LEMMA GroupsAreSensible ==
  \A f \in Groups \cup {Group} : f.client \in Int
<1>1. Group.client = 1 /\ DOMAIN Group = {"group", "backend", "project", "zone", "mode", "port", "client", "ids"}
  BY DEF Group
<1>2. \A f \in Groups : f.client \in {1, 0, -1}
  BY <1>1 DEF Groups
<1> QED BY <1>1, <1>2

LEMMA EnvironmentIsSensible ==
  \A e \in Deployments : e.raw = Group
<1>1. /\ Revised(TRUE, FALSE).raw = Group /\ Revised(TRUE, TRUE).raw = Group /\ Revised(FALSE, FALSE).raw = Group
      /\ DOMAIN Revised(TRUE, FALSE) = {"named", "raw", "backend", "port", "zone", "dry"}
  BY DEF Revised
<1>2. [Revised(TRUE, FALSE) EXCEPT !.backend = "quantconnect", !.port = "paper", !.zone = TRUE].raw = Group
  BY <1>1
<1> SUFFICES ASSUME NEW e \in Deployments PROVE e.raw = Group
  OBVIOUS
<1>3. \/ e = Revised(TRUE, FALSE) \/ e = Revised(TRUE, TRUE) \/ e = Revised(FALSE, FALSE)
      \/ e = [Revised(TRUE, FALSE) EXCEPT !.backend = "quantconnect", !.port = "paper", !.zone = TRUE]
  BY DEF Deployments
<1> QED BY <1>1, <1>2, <1>3

LEMMA GatewayLoad ==
  ASSUME X!IInv, X!Load
  PROVE  X!IInv'
<1>1. /\ v7 = "start" /\ v7' = "idle" /\ v5' = X!Settings(X!File)
      /\ UNCHANGED <<v1, v2, v3, v4, v6, v8, v9, v10>>
  BY DEF X!Load, X!outside
<1>2. X!File.client \in Int
  BY GroupsAreSensible, EnvironmentIsSensible DEF X!IInv, X!Configured, X!File
<1>3. v5'.client \in Int /\ (v5'.usual => v5'.port \in {v5'.mode, "none"})
  <2> DEFINE f == X!File
  <2>1. f.client \in Int
    BY <1>2
  <2> HIDE DEF f
  <2>2. v5' = X!Settings(f)
    BY <1>1 DEF f
  <2> DEFINE said == X!First(f.port, v1.port)
             mode == X!First(f.mode, "live")
             backend == X!Backend(f)
  <2>3. /\ v5'.client = (IF f.client >= 0 THEN f.client ELSE 0)
        /\ v5'.mode = mode
        /\ v5'.port = (IF backend = "gateway" THEN X!First(said, mode) ELSE said)
    BY <2>2 DEF X!Settings, X!UsualPort
  <2>4. v5'.usual = (said = "none")
    BY <2>2 DEF X!Settings
  <2>5. X!First("none", mode) = mode
    BY DEF X!First
  <2> HIDE DEF said, mode, backend
  <2>6. v5'.client \in Int
    BY <2>1, <2>3
  <2>7. v5'.usual => v5'.port \in {v5'.mode, "none"}
    BY <2>3, <2>4, <2>5
  <2> QED BY <2>6, <2>7
<1>4. v6 = X!Unset /\ v8 = X!NoReq /\ v9 = X!NoSess
  BY <1>1 DEF X!IInv, X!Configured, X!Nobody
<1>5. X!Configured'
  BY <1>1, <1>3 DEF X!IInv, X!Configured
<1>6. X!Nobody' /\ X!Served' /\ X!Validated'
  BY <1>1 DEF X!IInv, X!Nobody, X!Served, X!Validated
<1>7. X!FoundInProject'
  BY <1>1, <1>4 DEF X!FoundInProject, X!NoReq, X!Unset
<1> QED BY <1>5, <1>6, <1>7 DEF X!IInv

LEMMA GatewayReceive ==
  ASSUME X!IInv, X!Receive
  PROVE  X!IInv'
<1>1. PICK kind \in {"cycle", "read", "permission", "commands"} :
        /\ kind # "commands" => (X!ReadOnly(kind) => X!NonzeroClient)
        /\ v8' = X!Opened(kind)
  BY DEF X!Receive
<1>2. v7 = "idle" /\ v7' = "host" /\ UNCHANGED <<v1, v2, v3, v4, v5, v6, v9, v10>>
  BY DEF X!Receive, X!outside, X!instance
<1>3. X!ReadOnly(kind) \in BOOLEAN
  BY DEF X!ReadOnly
<1> DEFINE read == X!ReadOnly(kind)
           once == kind # "commands" /\ (read \/ kind = "permission")
<1> HIDE DEF read
<1>4. /\ v8'.kind = kind /\ v8'.read = read /\ v8'.prove = (~read \/ kind = "commands")
      /\ v8'.tries = (IF once THEN 1 ELSE Times) /\ v8'.addr = X!Unset /\ DOMAIN v8' = DOMAIN X!NoReq
  BY <1>1 DEF X!Opened, X!NoReq, read
<1> HIDE DEF once
<1>5. v8'.read \/ v8'.prove
  BY <1>4
<1>6. v8'.tries \in Int /\ v8'.tries <= Times
  BY <1>4, TimesCount
<1>7. v8'.read /\ v8'.kind # "commands" => v5.client > 0
  BY <1>1, <1>4 DEF X!NonzeroClient, read
<1>8. X!ReadOnly(v8.kind)' = v8'.read
  BY <1>2, <1>4 DEF X!ReadOnly, read
<1>9. X!Configured'
  BY <1>2 DEF X!IInv, X!Configured
<1>10. X!Nobody'
  BY <1>2, <1>4, <1>6 DEF X!IInv, X!Nobody
<1>11. X!Served'
  BY <1>2, <1>5, <1>7, <1>8 DEF X!Served
<1>12. X!Validated'
  BY <1>2 DEF X!Validated
<1>13. X!FoundInProject'
  BY <1>2, <1>4 DEF X!IInv, X!FoundInProject, X!Unset, X!NoReq
<1> QED BY <1>9, <1>10, <1>11, <1>12, <1>13 DEF X!IInv

LEMMA GatewayResolveHost ==
  ASSUME X!IInv, X!ResolveHost
  PROVE  X!IInv'
BY TimesCount
   DEF X!IInv, X!Configured, X!Nobody, X!Served, X!Validated, X!FoundInProject, X!ReadOnly, X!Listens,
       X!OfTheGroup, X!MayWrite, X!NoReq, X!NoSess, X!outside, X!instance, X!Unset, X!End, X!ResolveHost,
       X!Lookup, X!NewHost, X!Name

LEMMA GatewayRefresh ==
  ASSUME X!IInv, X!Refresh
  PROVE  X!IInv'
BY TimesCount
   DEF X!IInv, X!Configured, X!Nobody, X!Served, X!Validated, X!FoundInProject, X!ReadOnly, X!Listens,
       X!OfTheGroup, X!MayWrite, X!NoReq, X!NoSess, X!outside, X!instance, X!Unset, X!End, X!Refresh,
       X!Lookup, X!NewHost, X!LastGood, X!Name

LEMMA GatewayConnect ==
  ASSUME X!IInv, X!Connect
  PROVE  X!IInv'
<1>1. v7 = "connect" /\ UNCHANGED <<v1, v2, v3, v4, v5, v6, v10>>
  BY DEF X!Connect, X!outside, X!instance
<1>2. X!Configured'
  <2>1. v7' # "start"
    BY DEF X!Connect, X!Lost
  <2> QED BY <1>1, <2>1 DEF X!IInv, X!Configured
<1>3. CASE X!Lost
  <2>1. /\ v9' = X!NoSess
        /\ \/ v8' = [v8 EXCEPT !.tries = @ - 1] /\ v7' = "refresh"
           \/ v8' = X!NoReq /\ v7' = "idle"
    BY <1>3 DEF X!Lost
  <2>2. DOMAIN v8 = DOMAIN X!NoReq /\ v8.tries \in Int /\ v8.tries <= Times
    BY DEF X!IInv, X!Nobody
  <2>3. \/ v8' = X!NoReq /\ v7' = "idle"
        \/ /\ v7' = "refresh" /\ v8'.tries = v8.tries - 1 /\ DOMAIN v8' = DOMAIN X!NoReq
           /\ v8'.kind = v8.kind /\ v8'.read = v8.read /\ v8'.prove = v8.prove /\ v8'.addr = v8.addr
    BY <2>1, <2>2 DEF X!NoReq
  <2>4. X!Nobody'
    BY <2>1, <2>2, <2>3, TimesCount DEF X!Nobody, X!NoReq
  <2>5. X!Served'
    BY <1>1, <2>3 DEF X!IInv, X!Served, X!ReadOnly
  <2>6. X!Validated'
    BY <2>3 DEF X!Validated
  <2>7. X!FoundInProject'
    BY <1>1, <2>3 DEF X!IInv, X!FoundInProject, X!NoReq, X!Unset
  <2> QED BY <1>2, <2>4, <2>5, <2>6, <2>7 DEF X!IInv
<1>4. CASE ~X!Lost
  <2> DEFINE gw == X!Reached(v8.addr)
             client == v5.client + (IF v8.kind = "cycle" THEN Times - v8.tries ELSE 0)
  <2>1. /\ X!Listens(X!UserAt(gw), v5.port)
        /\ v9' = [open |-> TRUE, as |-> X!UserAt(gw), locked |-> gw = "ours" /\ v3.locked,
                  write |-> ~v8.read, client |-> client]
        /\ v7' = "accounts" /\ v8' = v8
    BY <1>4 DEF X!Connect
  <2>2. v9'.open /\ v9'.as = X!UserAt(gw) /\ v9'.write = ~v8.read /\ v9'.client = client
    BY <2>1
  <2>3. /\ v5.client \in Int /\ v8.tries \in Int /\ v8.tries <= Times
        /\ v8.read = X!ReadOnly(v8.kind) /\ (v8.read \/ v8.prove)
        /\ v8.read /\ v8.kind # "commands" => v5.client > 0
    BY <1>1 DEF X!IInv, X!Configured, X!Nobody, X!Served
  <2>4. ~v9'.write /\ v8.kind # "commands" => v9'.client > 0
    <3>1. v5.client > 0 => client > 0
      BY <2>3, TimesCount
    <3> HIDE DEF client
    <3> QED BY <2>2, <2>3, <3>1
  <2>5. X!Nobody'
    BY <1>1, <2>1 DEF X!IInv, X!Nobody
  <2>6. X!Served'
    BY <1>1, <2>1, <2>3 DEF X!Served, X!ReadOnly
  <2>7. X!Validated'
    BY <1>1, <2>1, <2>2, <2>4 DEF X!Validated, X!Listens
  <2>8. X!FoundInProject'
    BY <1>1, <2>1 DEF X!IInv, X!FoundInProject
  <2> QED BY <1>2, <2>5, <2>6, <2>7, <2>8 DEF X!IInv
<1> QED BY <1>3, <1>4

LEMMA GatewayAccounts ==
  ASSUME X!IInv, X!Accounts
  PROVE  X!IInv'
BY TimesCount
   DEF X!IInv, X!Configured, X!Nobody, X!Served, X!Validated, X!FoundInProject, X!ReadOnly, X!Listens,
       X!OfTheGroup, X!MayWrite, X!NoReq, X!NoSess, X!outside, X!instance, X!Unset, X!End, X!Accounts,
       X!Refused, X!Lost

LEMMA GatewayPermit ==
  ASSUME X!IInv, X!Permit
  PROVE  X!IInv'
BY TimesCount
   DEF X!IInv, X!Configured, X!Nobody, X!Served, X!Validated, X!FoundInProject, X!ReadOnly, X!Listens,
       X!OfTheGroup, X!MayWrite, X!NoReq, X!NoSess, X!outside, X!instance, X!Unset, X!End, X!Permit,
       X!Refused, X!Lost

LEMMA GatewayUse ==
  ASSUME X!IInv, X!Use
  PROVE  X!IInv'
BY TimesCount
   DEF X!IInv, X!Configured, X!Nobody, X!Served, X!Validated, X!FoundInProject, X!ReadOnly, X!Listens,
       X!OfTheGroup, X!MayWrite, X!NoReq, X!NoSess, X!outside, X!instance, X!Unset, X!End, X!Use

LEMMA GatewayOutside ==
  ASSUME X!IInv, X!Outside
  PROVE  X!IInv'
<1>1. UNCHANGED <<v1, v4, v5, v6, v7, v8, v9>>
  BY DEF X!Outside, X!instance
<1>2. v2' \in Groups /\ v3'.ours \in 0..2 /\ DOMAIN v3' = {"ours", "other", "as", "locked"}
  <2>1. CASE X!Move
    BY <2>1 DEF X!Move, X!IInv, X!Configured
  <2>2. CASE X!Relogin
    BY <2>2 DEF X!Relogin, X!IInv, X!Configured
  <2>3. CASE X!Reconfigure
    BY <2>3 DEF X!Reconfigure, X!IInv, X!Configured
  <2> QED BY <2>1, <2>2, <2>3 DEF X!Outside
<1>3. X!Configured'
  BY <1>1, <1>2 DEF X!IInv, X!Configured
<1>4. X!Nobody' /\ X!Served' /\ X!FoundInProject'
  BY <1>1 DEF X!IInv, X!Nobody, X!Served, X!FoundInProject, X!ReadOnly
<1>5. X!Validated'
  BY <1>1 DEF X!IInv, X!Validated, X!Listens, X!OfTheGroup, X!MayWrite
<1> QED BY <1>3, <1>4, <1>5 DEF X!IInv

LEMMA GatewayRestart ==
  ASSUME X!IInv, X!Restart
  PROVE  X!IInv'
BY TimesCount
   DEF X!IInv, X!Configured, X!Nobody, X!Served, X!Validated, X!FoundInProject, X!ReadOnly, X!Listens,
       X!OfTheGroup, X!MayWrite, X!NoReq, X!NoSess, X!outside, X!instance, X!Unset, X!End, X!Restart,
       X!NoConf

LEMMA GatewayInit ==
  ASSUME X!Init
  PROVE  X!IInv
BY TimesCount DEF X!Init, X!IInv, X!Configured, X!Nobody, X!Served, X!Validated, X!FoundInProject, X!NoReq, X!Unset

LEMMA GatewayStep ==
  ASSUME part = "gateway", X!IInv, [Next]_vars
  PROVE  part' = "gateway" /\ X!IInv'
<1>1. CASE Next
  <2>1. X!Next /\ part' = part
    BY <1>1 DEF Next, Keep5, Keep6, Keep7, Keep8, Keep9, Keep10, Keep11, Keep13, Keep14
  <2> QED BY <2>1, GatewayLoad, GatewayReceive, GatewayResolveHost, GatewayRefresh, GatewayConnect, GatewayAccounts,
      GatewayPermit, GatewayUse, GatewayOutside, GatewayRestart DEF X!Next
<1>2. CASE UNCHANGED vars
  <2>1. UNCHANGED <<v1, v2, v3, v4, v5, v6, v7, v8, v9>> /\ part' = part
    BY <1>2 DEF vars
  <2> QED BY <2>1 DEF X!IInv, X!Configured, X!Nobody, X!Served, X!Validated, X!FoundInProject, X!ReadOnly,
          X!Listens, X!OfTheGroup, X!MayWrite
<1> QED BY <1>1, <1>2

LEMMA GatewayHolds ==
  ASSUME X!IInv
  PROVE  X!LiveIsOurs /\ X!PaperIsPaper /\ X!FoundInProject /\ X!ReadingOnly /\ X!RefusedIsClosed
<1>1. X!LiveIsOurs
  BY DEF X!IInv, X!Nobody, X!Validated, X!LiveIsOurs, X!OfTheGroup, X!MayWrite, X!NoSess
<1>2. X!PaperIsPaper
  <2> SUFFICES ASSUME v9.write, v5.mode = "paper", v5.usual
               PROVE  v9.as = {"p"}
    BY DEF X!PaperIsPaper
  <2>1. v7 \in {"accounts", "permit", "use"}
    BY DEF X!IInv, X!Nobody, X!NoSess
  <2>2. v5.port = (IF v9.as = {"p"} THEN "paper" ELSE "live") /\ v5.port \in {"paper", "none"}
    BY <2>1 DEF X!IInv, X!Validated, X!Configured, X!Listens
  <2> QED BY <2>2
<1>3. X!ReadingOnly
  <2> SUFFICES ASSUME v9.open
               PROVE  /\ v5.dry \/ v8.kind = "read" => ~v9.write
                      /\ ~v9.write /\ v8.kind # "commands" => v9.client > 0
    BY DEF X!ReadingOnly
  <2>1. v7 \in {"accounts", "permit", "use"}
    BY DEF X!IInv, X!Nobody, X!NoSess
  <2> QED BY <2>1 DEF X!IInv, X!Served, X!Validated, X!ReadOnly
<1>4. X!RefusedIsClosed
  BY DEF X!IInv, X!Nobody, X!RefusedIsClosed, X!NoSess
<1> QED BY <1>1, <1>2, <1>3, <1>4 DEF X!IInv

----------------------------------------------------------------------------
(* The new risk of account_new_risk_gate_support.py.                       *)

LEMMA RiskIsSensible == V!Sensible
<1>1. V!Fit(Silent)
  BY DEF Silent, V!Fit, V!Unseen, V!None
<1>2. ASSUME NEW r, V!Fit(r), NEW x
      PROVE  /\ V!Fit([r EXCEPT !.dd = x]) /\ V!Fit([r EXCEPT !.pend = x])
             /\ V!Fit([r EXCEPT !.loss = x]) /\ V!Fit([r EXCEPT !.max = x])
  BY <1>2 DEF V!Fit, V!Unseen
<1>3. ASSUME NEW x, NEW y
      PROVE  V!Fit(Read(x, y)) /\ V!Fit(Old(x, y)) /\ V!Fit([Read(x, y) EXCEPT !.vol = 1])
  BY <1>1 DEF Read, Old, V!Fit, V!Unseen
<1> DEFINE fits(f) == V!Fit(f.nat) /\ V!Fit(f.meta) /\ V!Fit(f.proj)
<1>4. ASSUME NEW n, NEW m, NEW j, V!Fit(n), V!Fit(m), V!Fit(j)
      PROVE  fits(Told(n, m, j))
  BY <1>4 DEF Told
<1> HIDE DEF fits
<1>5. \A x, y : V!Fit(Read(x, y)) /\ V!Fit(Old(x, y)) /\ V!Fit([Read(x, y) EXCEPT !.vol = 1])
  BY <1>3
<1>6. \A x, y, z : /\ V!Fit([Read(x, y) EXCEPT !.dd = z]) /\ V!Fit([Read(x, y) EXCEPT !.pend = z])
                   /\ V!Fit([Read(x, y) EXCEPT !.loss = z])
  BY <1>2, <1>5
<1>7. \A z : V!Fit([Silent EXCEPT !.pend = z]) /\ V!Fit([Silent EXCEPT !.max = z])
  BY <1>1, <1>2
<1>8. \A f \in Situations : fits(f)
  BY <1>1, <1>4, <1>5, <1>6, <1>7, Zenon DEF Situations
<1> QED BY <1>8 DEF V!Sensible, fits

\* The loss and the volatility of a snapshot are the first that are given.
LEMMA RiskSnapshot ==
  ASSUME NEW n, NEW s, NEW t, V!Fit(n), V!Fit(s.meta), V!Fit(s.proj)
  PROVE  /\ V!Snapshot(n, s, t).loss = V!First(n.loss, V!First(s.meta.loss, s.proj.loss))
         /\ V!Snapshot(n, s, t).vol = V!First(n.vol, V!First(s.meta.vol, s.proj.vol))
         /\ DOMAIN V!Snapshot(n, s, t) = DOMAIN V!Unseen
<1> DEFINE p == V!Portfolio(n, s.meta)
           late == [p EXCEPT !.peak = V!First(p.peak, s.meta.peak), !.vol = V!First(p.vol, s.meta.vol)]
           c == V!Cache(n, s.meta, s.proj)
           once == V!Project(p, c, t)
<1>1. /\ DOMAIN p = DOMAIN V!Unseen /\ p.vol = n.vol
      /\ p.loss = V!First(n.loss, s.meta.loss)
  BY DEF V!Portfolio, V!Fit, V!Unseen
<1>2. /\ DOMAIN c = DOMAIN V!Unseen /\ c.loss = s.proj.loss
      /\ c.vol = IF V!Given(n.vol) THEN s.proj.vol ELSE V!First(s.meta.vol, s.proj.vol)
  BY DEF V!Cache, V!Fit, V!Unseen
<1>3. ASSUME NEW q, NEW j, DOMAIN j = DOMAIN V!Unseen
      PROVE  /\ DOMAIN V!Project(q, j, t) = DOMAIN V!Unseen
             /\ V!Project(q, j, t).loss = V!First(q.loss, j.loss)
             /\ V!Project(q, j, t).vol = V!First(q.vol, j.vol)
  BY <1>3 DEF V!Project, V!Unseen
<1>4. late.loss = p.loss /\ late.vol = V!First(n.vol, s.meta.vol)
  BY <1>1 DEF V!Unseen
<1>5. V!Snapshot(n, s, t) = V!Project(late, once, t)
  BY DEF V!Snapshot
<1> HIDE DEF p, late, c
<1>6. DOMAIN once = DOMAIN V!Unseen /\ once.loss = V!First(p.loss, c.loss) /\ once.vol = V!First(p.vol, c.vol)
  BY <1>2, <1>3
<1> HIDE DEF once
<1>7. /\ V!Snapshot(n, s, t).loss = V!First(late.loss, once.loss)
      /\ V!Snapshot(n, s, t).vol = V!First(late.vol, once.vol)
      /\ DOMAIN V!Snapshot(n, s, t) = DOMAIN V!Unseen
  BY <1>3, <1>5, <1>6
<1> QED BY <1>1, <1>2, <1>4, <1>6, <1>7 DEF V!First, V!Given

\* Without the authority to exit the target is cut by the volatility alone.
LEMMA RiskCut ==
  ASSUME NEW s, NEW a, DOMAIN s = DOMAIN V!Unseen, s.vol \in Int, ~v5.stop, v6 = V!Full
  PROVE  V!Cut(s, a) >= (v6 * (V!Full - V!Larger(0, s.vol))) \div V!Full
<1> DEFINE u == [s EXCEPT !.peak = V!None, !.dd = V!None]
           max == V!LossLimit(v4.proj)
           e == V!Evaluate(u, max).scale
<1>1. u.peak = V!None /\ u.dd = V!None /\ u.vol = s.vol
  BY DEF V!Unseen
<1> HIDE DEF u
<1>2. e = V!Full \/ (s.vol # V!Bad /\ e = V!Smaller(V!Full - V!Larger(V!None, 0), V!Full - V!Larger(s.vol, 0)))
  BY <1>1 DEF V!Evaluate, V!None, V!Bad, V!Brake, V!Larger
<1>3. V!Cut(s, a) = (v6 * e) \div V!Full
  BY DEF V!Cut, u
<1> HIDE DEF e
<1>4. e \in Int /\ e >= V!Full - V!Larger(0, s.vol)
  BY <1>2 DEF V!Full, V!Smaller, V!Larger, V!None
<1> QED BY <1>3, <1>4 DEF V!Full, V!Larger

LEMMA RiskStart ==
  ASSUME V!IInv, V!Start
  PROVE  V!IInv'
<1>1. PICK f \in Situations, c \in Runtimes, w \in {V!None, V!Full} :
        v3' = V!AsRead(f.nat) /\ v4' = [meta |-> V!AsRead(f.meta), proj |-> V!AsRead(f.proj)] /\ v6' = w
  BY DEF V!Start
<1>2. \A r : V!Fit(r) => V!Fit(V!AsRead(r))
  BY DEF V!Fit, V!AsRead, V!Unseen
<1>3. V!Fit(f.nat) /\ V!Fit(f.meta) /\ V!Fit(f.proj)
  BY RiskIsSensible DEF V!Sensible
<1>4. V!Heard'
  <2>1. v4'.meta = V!AsRead(f.meta) /\ v4'.proj = V!AsRead(f.proj) /\ DOMAIN v4' = {"meta", "proj"}
    BY <1>1
  <2>2. V!Fit(v3') /\ V!Fit(v4'.meta) /\ V!Fit(v4'.proj)
    BY <1>1, <1>2, <1>3, <2>1
  <2>3. v1' = "observe"
    BY DEF V!Start
  <2> QED BY <1>1, <2>1, <2>2, <2>3 DEF V!Heard
<1>5. v1' = "observe" /\ v13' = V!NoOrder /\ v7' = v7 /\ v12' = [v12 EXCEPT !.at = 0, !.after = FALSE]
  BY DEF V!Start
<1> QED BY <1>4, <1>5 DEF V!IInv, V!Passed, V!Recorded, V!NeverAfterBreach, V!LossWithinLimit, V!NoForcedExit,
        V!BlockedIsTold, V!Bought, V!NoOrder

LEMMA RiskObserve ==
  ASSUME V!IInv, V!Observe
  PROVE  V!IInv'
<1>1. v1 = "observe" /\ v1' \in {"gate", "brake", "over"} /\ UNCHANGED <<v4, v6, v13>>
  BY DEF V!Observe
<1>2. v3' = v3 \/ v3' = [v3 EXCEPT !.brk = 1]
  BY DEF V!Observe
<1>3. V!Heard'
  <2>1. V!Fit(v3)
    BY DEF V!IInv, V!Heard
  <2>2. V!Fit(v3')
    BY <1>2, <2>1 DEF V!Fit, V!Unseen
  <2>3. v1' = "gate" => v6 # V!None
    BY DEF V!Observe, V!Given
  <2> QED BY <1>1, <2>2, <2>3 DEF V!IInv, V!Heard
<1>4. V!Recorded'
  <2>1. PICK answers \in BOOLEAN :
          /\ V!Consult(V!Admission, answers)
          /\ v12' = [v12 EXCEPT !.seen = v12.seen \/ (V!Admission.hard /\ v5.session /\ answers)]
    BY DEF V!Observe
  <2>2. DOMAIN v12' = DOMAIN v12 /\ v12'.seen = (v12.seen \/ (V!Admission.hard /\ v5.session /\ answers))
    BY <2>1 DEF V!IInv, V!Recorded
  <2>3. v12'.seen => v7'
    BY <2>1, <2>2 DEF V!IInv, V!Recorded, V!Consult, V!Records
  <2> QED BY <2>2, <2>3 DEF V!IInv, V!Recorded
<1>5. v13.side = "none"
  BY <1>1 DEF V!IInv
<1> QED BY <1>1, <1>3, <1>4, <1>5 DEF V!IInv, V!Passed, V!NeverAfterBreach, V!LossWithinLimit, V!NoForcedExit,
        V!BlockedIsTold, V!Bought

LEMMA RiskBrakeReduce ==
  ASSUME V!IInv, V!BrakeReduce
  PROVE  V!IInv'
<1>1. v1 = "brake" /\ v1' = "over" /\ UNCHANGED <<V!cycle, v7, v8, v9, v10, v12, v14>>
  BY DEF V!BrakeReduce
<1>2. v13' = v13 \/ (v5.stop /\ v13' = [side |-> "sell", brake |-> TRUE])
  BY DEF V!BrakeReduce, V!MayBrake
<1>3. v13.side = "none"
  BY <1>1 DEF V!IInv
<1> QED BY <1>1, <1>2, <1>3 DEF V!IInv, V!Heard, V!Recorded, V!Passed, V!NeverAfterBreach, V!LossWithinLimit,
        V!NoForcedExit, V!BlockedIsTold, V!Bought, V!cycle

LEMMA RiskGate ==
  ASSUME V!IInv, V!Gate
  PROVE  V!IInv'
<1>1. /\ v1 = "gate" /\ v1' \in {"over", "order"} /\ UNCHANGED <<v2, V!cycle, v11, v12, v13>>
      /\ v9' = V!Here /\ v10' = V!Cut(V!Here, V!Admission)
  BY DEF V!Gate
<1>2. V!Heard' /\ V!Heard
  BY <1>1 DEF V!IInv, V!Heard, V!cycle
<1>3. v13.side = "none" /\ v13'.side = "none"
  BY <1>1 DEF V!IInv
<1>4. V!Recorded'
  <2>1. v7 => v7'
    BY DEF V!Gate, V!Consult
  <2> QED BY <1>1, <2>1 DEF V!IInv, V!Recorded
<1>5. V!BlockedIsTold'
  BY DEF V!Gate, V!Attention, V!BlockedIsTold
<1>6. /\ v9'.loss = V!First(v3.loss, V!First(v4.meta.loss, v4.proj.loss))
      /\ V!Here.vol = V!First(v3.vol, V!First(v4.meta.vol, v4.proj.vol)) /\ DOMAIN V!Here = DOMAIN V!Unseen
  BY <1>1, <1>2, RiskSnapshot DEF V!Here, V!Heard
<1>7. ASSUME v1' = "order", ~v5.stop PROVE v10' >= V!Uncut
  <2>1. v6 = V!Full
    BY <1>2, <1>1 DEF V!IInv, V!Heard
  <2>2. V!Here.vol \in Int
    BY <1>2, <1>6 DEF V!Heard, V!Fit, V!First
  <2>3. V!Cut(V!Here, V!Admission) >= (v6 * (V!Full - V!Larger(0, V!Here.vol))) \div V!Full
    BY <1>6, <1>7, <2>1, <2>2, RiskCut
  <2> QED BY <1>1, <1>6, <2>3 DEF V!Uncut
<1>8. V!Passed'
  BY <1>1, <1>6, <1>7 DEF V!Passed, V!cycle, V!Uncut
<1> QED BY <1>1, <1>2, <1>3, <1>4, <1>5, <1>8 DEF V!IInv, V!NeverAfterBreach, V!LossWithinLimit, V!NoForcedExit, V!Bought

LEMMA RiskLook ==
  ASSUME V!IInv, V!Look
  PROVE  V!IInv'
<1>1. v1 = "order" /\ v1' \in {"over", "submit"} /\ UNCHANGED <<v2, V!cycle, v8, v9, v10, v11, v13, v14>>
  BY DEF V!Look
<1>2. v7 => v7'
  BY DEF V!Look, V!Consult
<1>3. v12' = v12 \/ v12' = [v12 EXCEPT !.at = v2, !.after = v12.seen]
  BY DEF V!Look
<1>4. v1' = "submit" => ~v7' /\ v12' = [v12 EXCEPT !.at = v2, !.after = v12.seen]
  BY DEF V!Look, V!LooksAgain, V!Refuses
<1>5. V!Recorded'
  BY <1>2, <1>3 DEF V!IInv, V!Recorded
<1>6. v1' = "submit" => ~v12'.after
  BY <1>2, <1>4 DEF V!IInv, V!Recorded
<1>7. v13.side = "none"
  BY <1>1 DEF V!IInv
<1> QED BY <1>1, <1>5, <1>6, <1>7 DEF V!IInv, V!Heard, V!Passed, V!NeverAfterBreach, V!LossWithinLimit,
        V!NoForcedExit, V!BlockedIsTold, V!Bought, V!cycle, V!Uncut

LEMMA RiskSubmit ==
  ASSUME V!IInv, V!Submit
  PROVE  V!IInv'
<1>1. v1 = "submit" /\ v1' = "over" /\ UNCHANGED <<v2, V!cycle, v7, v8, v9, v10, v12, v14>>
  BY DEF V!Submit
<1>2. v13' = v13 \/ (~V!CycleRefuses /\ v13' = [side |-> "buy", brake |-> FALSE])
  BY DEF V!Submit
<1>3. ~V!CycleRefuses /\ V!Given(v5.max) => v9.loss \in 0..(v5.max - 1)
  BY DEF V!CycleRefuses, V!Evaluate, V!SubmissionLimit
<1>4. v13.side = "none"
  BY <1>1 DEF V!IInv
<1> QED BY <1>1, <1>2, <1>3, <1>4 DEF V!IInv, V!Heard, V!Recorded, V!Passed, V!NeverAfterBreach, V!LossWithinLimit,
        V!NoForcedExit, V!BlockedIsTold, V!Bought, V!cycle

LEMMA RiskSell ==
  ASSUME V!IInv, V!Sell
  PROVE  V!IInv'
<1>1. v1 = "order" /\ v1' = "over" /\ UNCHANGED <<v2, V!cycle, v7, v8, v9, v10, v12, v14>>
  BY DEF V!Sell
<1>2. v13' = v13 \/ v13' = [side |-> "sell", brake |-> FALSE]
  BY DEF V!Sell
<1>3. v13.side = "none"
  BY <1>1 DEF V!IInv
<1> QED BY <1>1, <1>2, <1>3 DEF V!IInv, V!Heard, V!Recorded, V!Passed, V!NeverAfterBreach, V!LossWithinLimit,
        V!NoForcedExit, V!BlockedIsTold, V!Bought, V!cycle, V!Uncut

LEMMA RiskOtherOpens ==
  ASSUME V!IInv, V!OtherOpens
  PROVE  V!IInv'
BY DEF V!OtherOpens, V!IInv, V!Heard, V!Recorded, V!Passed, V!NeverAfterBreach, V!LossWithinLimit, V!NoForcedExit,
       V!BlockedIsTold, V!Bought, V!cycle, V!Uncut

LEMMA RiskTick ==
  ASSUME V!IInv, V!Tick
  PROVE  V!IInv'
BY DEF V!Tick, V!IInv, V!Heard, V!Recorded, V!Passed, V!NeverAfterBreach, V!LossWithinLimit, V!NoForcedExit,
       V!BlockedIsTold, V!Bought, V!cycle, V!Uncut

LEMMA RiskLeave ==
  ASSUME V!IInv, V!Leave
  PROVE  V!IInv'
<1>1. V!Fit(V!Unseen)
  BY DEF V!Fit, V!Unseen, V!None
<1> QED BY <1>1 DEF V!Leave, V!IInv, V!Heard, V!Recorded, V!Passed, V!NeverAfterBreach, V!LossWithinLimit, V!NoForcedExit,
        V!BlockedIsTold, V!Bought, V!NoOrder, V!Fit

LEMMA RiskInit ==
  ASSUME V!Init
  PROVE  V!IInv
<1>1. V!Fit(V!Unseen)
  BY DEF V!Fit, V!Unseen, V!None
<1> QED BY <1>1 DEF V!Init, V!IInv, V!Heard, V!Recorded, V!Passed, V!NeverAfterBreach, V!LossWithinLimit, V!NoForcedExit,
        V!BlockedIsTold, V!Bought, V!NoOrder

LEMMA RiskStep ==
  ASSUME part = "risk", V!IInv, [Next]_vars
  PROVE  part' = "risk" /\ V!IInv'
<1>1. CASE Next
  <2>1. V!Next /\ part' = part
    BY <1>1 DEF Next, Keep14
  <2> QED BY <2>1, RiskStart, RiskObserve, RiskBrakeReduce, RiskGate, RiskLook, RiskSubmit, RiskSell, RiskOtherOpens,
      RiskTick, RiskLeave DEF V!Next, V!End, V!Kill
<1>2. CASE UNCHANGED vars
  BY <1>2 DEF vars, V!IInv, V!Heard, V!Fit, V!Recorded, V!Passed, V!NeverAfterBreach, V!LossWithinLimit, V!NoForcedExit,
     V!BlockedIsTold, V!Bought, V!Uncut
<1> QED BY <1>1, <1>2

----------------------------------------------------------------------------
(* The paper account.                                                      *)

LEMMA PaperMarket ==
  ASSUME A!IInv, NEW s \in A!Held, A!Move(s) \/ A!Remark(s) \/ A!Trade(s)
  PROVE  A!IInv'
<1>1. UNCHANGED A!request
  BY DEF A!Move, A!Remark, A!Trade
<1>2. A!Sound' /\ A!Held' = A!Held
  <2>1. (v1' = v1 \/ v1' = [v1 EXCEPT ![s] = v1[s] + 1]) /\ (v2' = v2 \/ v2' = [v2 EXCEPT ![s] = 5 - v2[s]])
    BY DEF A!Move, A!Remark, A!Trade
  <2>2. DOMAIN v1' = DOMAIN v1 /\ DOMAIN v2' = DOMAIN v2
    BY <2>1
  <2>3. \A t \in A!Held : v1'[t] \in Int /\ v2'[t] \in {2, 3}
    BY <2>1 DEF A!IInv, A!Sound, A!Held
  <2> QED BY <1>1, <2>2, <2>3 DEF A!IInv, A!Sound, A!Held, A!request
<1> QED BY <1>1, <1>2 DEF A!IInv, A!Read, A!NoSnap, A!Moded, A!Weighed, A!Facts, A!Valued, A!NothingGrows,
        A!LiquidatesToZero, A!request

\* A step of the consumer: what a cycle or a liquidation ordered is none of it.
LEMMA PaperConsumes ==
  ASSUME A!IInv, UNCHANGED <<A!market, v5, v14>>, v7' = "consume", v7 \in {"none", "consume"},
         v8' \notin {"idle", "admit", "plan", "order"}, A!Read'
  PROVE  A!IInv'
BY DEF A!IInv, A!Sound, A!Held, A!market, A!Moded, A!Weighed, A!NothingGrows, A!LiquidatesToZero

LEMMA PaperStart ==
  ASSUME A!IInv, A!Start
  PROVE  A!IInv'
<1>1. A!Read'
  BY DEF A!Start, A!IInv, A!Read, A!NoQuotes, A!market, A!Held, A!NoSnap
<1> QED BY <1>1, PaperConsumes DEF A!Start

LEMMA PaperConsumer ==
  ASSUME A!IInv, A!Claim \/ A!Load \/ A!Unavailable \/ A!Value \/ A!Propose \/ A!Decide \/ A!Kill
  PROVE  v7 = "consume" /\ v7' = v7
<1>1. v8 \in {"claim", "load", "value", "propose", "decide"} \/ v7 = "consume"
  BY DEF A!Claim, A!Load, A!Unavailable, A!Value, A!Propose, A!Decide, A!Kill
<1>2. v7 = "consume"
  BY <1>1 DEF A!IInv, A!Moded
<1> QED BY <1>2 DEF A!Claim, A!Load, A!Unavailable, A!Value, A!Propose, A!Decide, A!Kill

LEMMA PaperClaim ==
  ASSUME A!IInv, A!Claim
  PROVE  A!IInv'
<1>1. A!Read'
  BY DEF A!Claim, A!market, A!IInv, A!Read, A!Held, A!NoSnap
<1> QED BY <1>1, PaperConsumer, PaperConsumes DEF A!Claim

LEMMA PaperForgotten ==
  ASSUME A!IInv, A!Forgotten, UNCHANGED A!market, \A s \in DOMAIN v11' : v11'[s] \in {2, 3}
  PROVE  A!Read'
BY DEF A!Forgotten, A!market, A!IInv, A!Read, A!Held, A!NoSnap

LEMMA PaperEnded ==
  ASSUME A!IInv, A!Unavailable \/ A!Decide \/ A!Kill
  PROVE  A!IInv'
<1>1. A!Forgotten /\ UNCHANGED <<A!market, v5, v14>> /\ v8' \in {"claim", "killed"}
  BY DEF A!Unavailable, A!Decide, A!Kill, A!Ended
<1>2. \A s \in DOMAIN v11' : v11'[s] \in {2, 3}
  BY DEF A!Unavailable, A!Decide, A!Kill, A!IInv, A!Read, A!NoQuotes
<1> QED BY <1>1, <1>2, PaperForgotten, PaperConsumer, PaperConsumes

LEMMA PaperLoad ==
  ASSUME A!IInv, A!Load
  PROVE  A!IInv'
<1>1. A!Read'
  BY DEF A!Load, A!market, A!IInv, A!Sound, A!Read, A!Held, A!NoSnap
<1> QED BY <1>1, PaperConsumer, PaperConsumes DEF A!Load

LEMMA PaperQuoted ==
  ASSUME A!IInv, NEW s \in A!Held
  PROVE  A!Quoted(s) \in {2, 3}
BY DEF A!Quoted, A!IInv, A!Read, A!Sound

LEMMA PaperValue ==
  ASSUME A!IInv, A!Value
  PROVE  A!IInv'
<1>1. v8' \in {"value", "propose"} /\ UNCHANGED <<A!market, v5, v6, v7, v9, v13, v14>>
  BY DEF A!Value, A!market
<1>2. \/ UNCHANGED <<v10, v11>>
      \/ \E s \in A!Open : v11' = A!Cached(s) /\ v10' = v10
      \/ \E s \in A!Open : v10' = [v10 EXCEPT !.quantity[s] = 0] /\ v11' = v11
  BY DEF A!Value
<1>3. A!Open \subseteq A!Held /\ A!Held' = A!Held
  BY <1>1 DEF A!Open, A!IInv, A!Sound, A!Held, A!market
<1>4. A!Read'
  <2>1. CASE UNCHANGED <<v10, v11>>
    BY <2>1, <1>3 DEF A!IInv, A!Read, A!NoSnap
  <2>2. CASE \E s \in A!Open : v11' = A!Cached(s) /\ v10' = v10
    <3>1. PICK s \in A!Open : v11' = A!Cached(s) /\ v10' = v10
      BY <2>2
    <3>2. \A t \in DOMAIN v11' : v11'[t] \in {2, 3}
      BY <3>1, <1>3, PaperQuoted DEF A!Cached, A!Quoted, A!IInv, A!Read
    <3> QED BY <3>1, <3>2, <1>3 DEF A!IInv, A!Read, A!NoSnap
  <2>3. CASE \E s \in A!Open : v10' = [v10 EXCEPT !.quantity[s] = 0] /\ v11' = v11
    BY <2>3, <1>3 DEF A!IInv, A!Read, A!NoSnap
  <2> QED BY <1>2, <2>1, <2>2, <2>3
<1> QED BY <1>1, <1>4, PaperConsumer, PaperConsumes

LEMMA PaperPropose ==
  ASSUME A!IInv, A!Propose
  PROVE  A!IInv'
<1> DEFINE off == {s \in A!Syms : A!Proposed(s)}
<1>1. PICK failed \in SUBSET (off \ DOMAIN v11) :
        v11' = [t \in DOMAIN v11 \cup (off \ failed) |-> A!Quoted(t)]
  BY DEF A!Propose
<1>2. UNCHANGED <<A!market, v5, v6, v7, v9, v10, v14>> /\ v8' = "decide"
  BY DEF A!Propose
<1>3. \A t \in DOMAIN v11' : v11'[t] \in {2, 3}
  BY <1>1, PaperQuoted DEF A!Quoted, A!IInv, A!Read, A!Sound, A!Held
<1>4. A!Read'
  BY <1>2, <1>3 DEF A!IInv, A!Read, A!Held, A!NoSnap, A!market
<1> QED BY <1>2, <1>4, PaperConsumer, PaperConsumes

LEMMA PaperPlan ==
  ASSUME A!IInv, NEW sound, A!Plan(sound)
  PROVE  A!IInv'
<1>1. /\ v8 = "idle" /\ v7' = "cycle" /\ v8' = "admit" /\ v9' = 2 /\ UNCHANGED <<A!market, v5, v14>>
      /\ v10' = [quantity |-> v1, value |-> [s \in A!Held |-> v1[s] * v2[s]]]
      /\ \E missing \in {{}, {"b"}} : v11' = [s \in A!Syms \ missing |-> v2[s]]
  BY DEF A!Plan
<1>2. v14 = {}
  BY <1>1 DEF A!IInv, A!Moded
<1>3. A!Read'
  BY <1>1 DEF A!IInv, A!Sound, A!Read, A!Held, A!NoSnap, A!market, A!Syms
<1> QED BY <1>1, <1>2, <1>3 DEF A!IInv, A!Sound, A!Held, A!Moded, A!Weighed, A!NothingGrows, A!LiquidatesToZero, A!market

LEMMA PaperAdmit ==
  ASSUME A!IInv, A!Admit
  PROVE  A!IInv'
<1>1. v8 = "admit" /\ v8' = "plan" /\ UNCHANGED <<A!market, v5, v6, v7, v9, v10, v11, v14>>
  BY DEF A!Admit
<1>2. v7 = "cycle" /\ v9 = 2 /\ v14 = {}
  BY <1>1 DEF A!IInv, A!Moded
<1>3. A!Weighed'
  BY <1>1, <1>2 DEF A!Admit, A!Weighed, A!Facts, A!Valued
<1> QED BY <1>1, <1>2, <1>3 DEF A!IInv, A!Sound, A!Held, A!Read, A!NoSnap, A!Moded, A!NothingGrows, A!LiquidatesToZero,
        A!market

LEMMA PaperRebalance ==
  ASSUME A!IInv, A!Rebalance
  PROVE  A!IInv'
<1>1. v8 = "plan" /\ v8' = "over" /\ UNCHANGED <<A!market, v5, v6, v7, v9, v10, v11>>
  BY DEF A!Rebalance
<1>2. v7 = "cycle" /\ v9 = 2
  BY <1>1 DEF A!IInv, A!Moded
<1>3. ASSUME v5[2].receipt # "allow", NEW o \in v14'
      PROVE  v5[2].receipt = "reduce" /\ o.side = "sell"
  <2>1. A!All(v5[2].receipt, v12)
    BY <1>2, <1>3 DEF A!Rebalance
  <2>2. PICK s \in A!Facts : A!Size(A!Difference(s)) >= v11[s] /\ o.side = IF A!Difference(s) > 0 THEN "buy" ELSE "sell"
    BY <1>2, <1>3, <2>1 DEF A!Rebalance
  <2>3. v5[2].receipt = "reduce"
    BY <1>3, <2>1 DEF A!All, A!IInv, A!Sound, A!Dispositions
  <2> DEFINE before == v10.quantity[s] * v11[s]
             after == v5[2].targets[s]
  <2>4. A!Effect(before, after) # "increases"
    BY <1>1, <2>1, <2>2, <2>3 DEF A!All, A!Allows, A!IInv, A!Weighed
  <2>5. v10.quantity[s] \in Nat /\ v11[s] \in {2, 3} /\ after \in Nat
    BY <2>2 DEF A!Facts, A!Valued, A!IInv, A!Read, A!Sound, A!Held
  <2>6. before \in Nat
    BY <2>5
  <2>7. A!Difference(s) = after - before
    BY <1>2 DEF A!Difference
  <2> HIDE DEF before, after
  <2>8. ~(A!Difference(s) > 0)
    BY <2>2, <2>4, <2>5, <2>6, <2>7 DEF A!Effect, A!Size
  <2> QED BY <2>2, <2>3, <2>8
<1>4. A!NothingGrows'
  BY <1>1, <1>3 DEF A!NothingGrows
<1> QED BY <1>1, <1>2, <1>4 DEF A!IInv, A!Sound, A!Held, A!Read, A!NoSnap, A!Moded, A!Weighed, A!LiquidatesToZero, A!market

LEMMA PaperLiquidate ==
  ASSUME A!IInv, A!Liquidate
  PROVE  A!IInv'
<1>1. v8 = "idle" /\ v7' = "liquidate" /\ v8' = "order" /\ UNCHANGED <<A!market, v5, v9, v11, v14>>
      /\ v10' = [A!NoSnap EXCEPT !.quantity = v1]
  BY DEF A!Liquidate
<1>2. v14 = {}
  BY <1>1 DEF A!IInv, A!Moded
<1>3. A!Read'
  BY <1>1 DEF A!IInv, A!Sound, A!Read, A!Held, A!NoSnap, A!market
<1> QED BY <1>1, <1>2, <1>3 DEF A!IInv, A!Sound, A!Held, A!Moded, A!Weighed, A!NothingGrows, A!LiquidatesToZero, A!market

LEMMA PaperSubmit ==
  ASSUME A!IInv, A!Submit
  PROVE  A!IInv'
<1>1. v8 = "order" /\ v8' \in {"order", "over"} /\ UNCHANGED <<A!market, v5, v6, v7, v9, v10, v11>>
  BY DEF A!Submit
<1>2. v7 = "liquidate"
  BY <1>1 DEF A!IInv, A!Moded
<1>3. ASSUME NEW o \in v14'
      PROVE  v10.quantity[o.symbol] + (IF o.side = "buy" THEN o.quantity ELSE -o.quantity) = 0
  <2>1. CASE o \in v14
    BY <2>1, <1>2 DEF A!IInv, A!LiquidatesToZero
  <2>2. CASE o \notin v14
    <3>1. PICK s \in A!Held : o = [symbol |-> s, side |-> A!Opposite(v10.quantity[s]), quantity |-> A!Size(v10.quantity[s])]
      BY <1>3, <2>2 DEF A!Submit
    <3>2. v10.quantity[s] \in Int
      BY DEF A!IInv, A!Read
    <3>3. o.symbol = s /\ o.side = A!Opposite(v10.quantity[s]) /\ o.quantity = A!Size(v10.quantity[s])
      BY <3>1
    <3> QED BY <3>2, <3>3 DEF A!Opposite, A!Size
  <2> QED BY <2>1, <2>2
<1>4. A!LiquidatesToZero'
  BY <1>1, <1>3 DEF A!LiquidatesToZero
<1> QED BY <1>1, <1>2, <1>4 DEF A!IInv, A!Sound, A!Held, A!Read, A!NoSnap, A!Moded, A!Weighed, A!NothingGrows, A!market

LEMMA PaperInit ==
  ASSUME A!Init
  PROVE  A!IInv
<1>1. A!Sound
  BY DEF A!Init, A!Sound, A!Held, A!Syms, A!Foreign, A!Dispositions
<1>2. A!Read
  BY DEF A!Init, A!Read, A!NoSnap, A!NoQuotes
<1> QED BY <1>1, <1>2 DEF A!Init, A!IInv, A!Moded, A!Weighed, A!NothingGrows, A!LiquidatesToZero

LEMMA PaperStep ==
  ASSUME part = "paper", A!IInv, [Next]_vars
  PROVE  part' = "paper" /\ A!IInv'
<1>1. CASE Next
  <2>1. A!Next /\ part' = part
    BY <1>1 DEF Next, Keep14
  <2> QED BY <2>1, PaperMarket, PaperStart, PaperClaim, PaperLoad, PaperEnded, PaperValue, PaperPropose, PaperPlan,
      PaperAdmit, PaperRebalance, PaperLiquidate, PaperSubmit DEF A!Next
<1>2. CASE UNCHANGED vars
  BY <1>2 DEF vars, A!IInv, A!Sound, A!Held, A!Read, A!NoSnap, A!Moded, A!Weighed, A!Facts, A!Valued, A!NothingGrows,
     A!LiquidatesToZero
<1> QED BY <1>1, <1>2

----------------------------------------------------------------------------
(* The evaluations of strategy_runtime.py.                                 *)

LEMMA StrategyNextDay ==
  ASSUME E!IInv, E!NextDay
  PROVE  E!IInv'
BY DEF E!IInv, E!Dated, E!Capable, E!Granted, E!Judged, E!ActionableIsProven, E!NextDay, E!evaluation,
       E!BuiltLimits, E!Bound, E!CapitalVerified, E!Verified, E!MayApprove

LEMMA StrategyEvidence ==
  ASSUME E!IInv, NEW as, E!Evidence(as)
  PROVE  E!IInv'
BY DEF E!IInv, E!Dated, E!Capable, E!Granted, E!Judged, E!ActionableIsProven, E!Evidence, E!evaluation,
       E!BuiltLimits, E!Bound, E!CapitalVerified, E!Verified, E!MayApprove

LEMMA StrategyBegin ==
  ASSUME E!IInv, E!Begin
  PROVE  E!IInv'
<1>1. /\ v7' \in {"raised", "fetch"} /\ v8' = E!AsOf /\ v14' = E!NoResult /\ UNCHANGED E!world
      /\ v13' = [used |-> "none", granted |-> v5 = "granted"]
  BY DEF E!Begin
<1>2. E!Dated'
  BY <1>1 DEF E!IInv, E!Dated, E!AsOf, E!world
<1>3. E!Granted'
  BY <1>1 DEF E!Granted, E!world
<1>4. E!Judged' /\ E!ActionableIsProven' /\ E!Capable'
  BY <1>1 DEF E!Judged, E!ActionableIsProven, E!Capable, E!NoResult
<1> QED BY <1>2, <1>3, <1>4 DEF E!IInv

LEMMA StrategyFetch ==
  ASSUME E!IInv, E!Fetch
  PROVE  E!IInv'
BY DEF E!IInv, E!Dated, E!Capable, E!Granted, E!Judged, E!ActionableIsProven, E!Fetch, E!world, E!NoResult, E!MayApprove

LEMMA StrategyInputs ==
  ASSUME E!IInv, E!Inputs
  PROVE  E!IInv'
<1>1. v7 = "inputs" /\ v7' \in {"context", "raised"} /\ UNCHANGED <<E!world, v8, v9, v11, v12, v13, v14>>
  BY DEF E!Inputs, E!Raised
<1>2. E!Dated'
  BY <1>1 DEF E!IInv, E!Dated, E!Inputs, E!Raised, E!Complete, E!Within, E!world, E!Profiles
<1> QED BY <1>1, <1>2 DEF E!IInv, E!Capable, E!Granted, E!Judged, E!ActionableIsProven, E!world, E!NoResult, E!MayApprove

LEMMA StrategyContext ==
  ASSUME E!IInv, E!Context
  PROVE  E!IInv'
<1>1. /\ v7 = "context" /\ v7' = "evaluate" /\ UNCHANGED <<E!world, v8, v9, v10, v14>>
      /\ v11' = E!BuiltLimits /\ v12' = E!Verified
      /\ v13' = [v13 EXCEPT !.used = IF v1 = "russell" THEN v5 ELSE "none"]
  BY DEF E!Context, E!Status, E!Reread
<1>2. E!BuiltLimits' = E!BuiltLimits /\ E!Verified' = E!Verified
  BY <1>1 DEF E!BuiltLimits, E!Bound, E!CapitalVerified, E!Verified, E!world
<1>3. v14 = E!NoResult /\ v14' = E!NoResult
  BY <1>1 DEF E!IInv, E!Judged
<1>4. E!Granted'
  BY <1>1 DEF E!IInv, E!Granted, E!world
<1> QED BY <1>1, <1>2, <1>3, <1>4
        DEF E!IInv, E!Dated, E!Capable, E!Judged, E!ActionableIsProven, E!world, E!NoResult, E!MayApprove

LEMMA StrategyEvaluate ==
  ASSUME E!IInv, E!Evaluate
  PROVE  E!IInv'
<1>1. v7 = "evaluate" /\ v7' = "map" /\ UNCHANGED <<E!world, v8, v9, v10, v11, v12, v13>>
  BY DEF E!Evaluate
<1>2. PICK gate \in IF E!MayApprove THEN E!Gates ELSE E!Gates \ {"approve"}, empty \in BOOLEAN :
        v14' = [E!NoResult EXCEPT !.gate = gate, !.empty = empty, !.said = v12]
  BY DEF E!Evaluate
<1>3. /\ DOMAIN v14' = DOMAIN E!NoResult /\ ~v14'.actionable /\ v14'.said = v12
      /\ v14'.gate = "approve" => E!MayApprove
  BY <1>2 DEF E!NoResult
<1> QED BY <1>1, <1>3
        DEF E!IInv, E!Dated, E!Capable, E!Granted, E!Judged, E!ActionableIsProven, E!world,
            E!BuiltLimits, E!Bound, E!CapitalVerified, E!Verified, E!MayApprove

LEMMA StrategyMap ==
  ASSUME E!IInv, E!Map
  PROVE  E!IInv'
<1>1. v7 = "map" /\ v7' \in {"done", "raised"} /\ UNCHANGED <<E!world, v8, v9, v10, v11, v12, v13>>
  BY DEF E!Map, E!Raised
<1>2. \/ v14' = v14
      \/ /\ v14' = [v14 EXCEPT !.actionable = TRUE] /\ v7' = "done"
         /\ ~v14.empty /\ E!Approved /\ ~E!Broke /\ E!Valued
  BY DEF E!Map, E!Raised
<1>3. /\ DOMAIN v14' = DOMAIN E!NoResult /\ v14'.said = v14.said /\ v14'.gate = v14.gate /\ v14'.empty = v14.empty
      /\ v14'.actionable => v7' = "done" /\ ~v14.empty /\ E!Approved /\ ~E!Broke /\ E!Valued
  BY <1>1, <1>2 DEF E!IInv, E!Judged, E!NoResult
<1> QED BY <1>1, <1>3
        DEF E!IInv, E!Dated, E!Capable, E!Granted, E!Judged, E!ActionableIsProven, E!world, E!Approved, E!Broke, E!Valued,
            E!BuiltLimits, E!Bound, E!CapitalVerified, E!Verified, E!MayApprove

LEMMA StrategyInit ==
  ASSUME E!Init
  PROVE  E!IInv
BY DEF E!IInv, E!Dated, E!Capable, E!Granted, E!Judged, E!ActionableIsProven, E!Init, E!NoResult, E!Profiles

LEMMA StrategyStep ==
  ASSUME part = "strategy", E!IInv, [Next]_vars
  PROVE  part' = "strategy" /\ E!IInv'
<1>1. CASE Next
  <2>1. E!Next /\ part' = part
    BY <1>1 DEF Next, Keep14
  <2> QED BY <2>1, StrategyNextDay, StrategyEvidence, StrategyBegin, StrategyFetch, StrategyInputs, StrategyContext,
      StrategyEvaluate, StrategyMap DEF E!Next
<1>2. CASE UNCHANGED vars
  BY <1>2 DEF vars, E!IInv, E!Dated, E!Capable, E!Granted, E!Judged, E!ActionableIsProven,
              E!BuiltLimits, E!Bound, E!CapitalVerified, E!Verified, E!MayApprove
<1> QED BY <1>1, <1>2

LEMMA StrategyHolds ==
  ASSUME E!IInv
  PROVE  E!NoLookAhead /\ E!ActionableIsProven /\ E!UnderEvidence /\ E!StatusIsTrue
BY DEF E!IInv, E!Dated, E!Capable, E!Granted, E!Judged, E!NoLookAhead, E!ActionableIsProven, E!UnderEvidence,
       E!StatusIsTrue, E!MayApprove, E!Verified, E!BuiltLimits

----------------------------------------------------------------------------
(* A pass: RebalancePass_proofs, of the constants of MCPrograms.            *)

PS == INSTANCE RebalancePass_proofs WITH
  Symbols <- Stocks \cup {"h"}, Haven <- "h", Inputs <- Calls, Cash <- {3, 9},
  Premium <- 1, call <- v1, pc <- v2, target <- v3, sweep <- v4, blind <- v5,
  budget <- v6, funds <- v7, left <- v8, stuck <- v9, sold <- v10, bought <- v11,
  spent <- v12, lock <- v13

LEMMA SameInit == S!Init => PS!Init
BY DEF S!Init, PS!Init, S!Zero, PS!Zero

LEMMA SameEstimate == \A c : S!EstimatedCost(c) = PS!EstimatedCost(c)
BY DEF S!EstimatedCost, PS!EstimatedCost, S!MapThenSumSet, PS!MapThenSumSet, S!MapThenFoldSet, PS!MapThenFoldSet,
       S!Underweight, PS!Underweight, S!Price, PS!Price, S!Current, PS!Current, S!Managed, PS!Managed, S!Gap, PS!Gap,
       S!Smaller, PS!Smaller, S!Limit, PS!Limit

LEMMA SameOrders == S!Orders = PS!Orders
<1>1. S!Rows = PS!Rows
  BY DEF S!Rows, PS!Rows
<1>2. S!Lists = PS!Lists
  BY <1>1 DEF S!Lists, PS!Lists
<1>3. ASSUME NEW rows PROVE S!Observed(rows) = PS!Observed(rows)
  BY DEF S!Observed, PS!Observed
<1> QED BY <1>2, <1>3 DEF S!Orders, PS!Orders

LEMMA SameValue == S!Value => PS!Value
BY
   DEF S!plan, PS!plan, S!Managed, PS!Managed, S!Price, PS!Price, S!Reserved, PS!Reserved, S!Weighed,
       PS!Weighed, S!Cap, PS!Cap, S!Exceeds, PS!Exceeds, S!TooSmall, PS!TooSmall, S!Value, PS!Value

LEMMA SameBlocked == S!Blocked => PS!Blocked
BY SameOrders
   DEF S!plan, PS!plan, S!Ends, PS!Ends, S!Blocked, PS!Blocked

LEMMA SamePlan == S!Plan => PS!Plan
BY SameOrders
   DEF S!Unknown, PS!Unknown, S!plan, PS!plan, S!Larger, PS!Larger, S!Smaller, PS!Smaller, S!Managed,
       PS!Managed, S!Price, PS!Price, S!Current, PS!Current, S!Reserved, PS!Reserved, S!Limit, PS!Limit,
       S!Overweight, PS!Overweight, S!Underweight, PS!Underweight, S!Gap, PS!Gap, S!Needed, PS!Needed,
       S!SellQuantity, PS!SellQuantity, S!BuyHundredths, PS!BuyHundredths, S!Worth, PS!Worth,
       S!BuyQuantity, PS!BuyQuantity, S!Investable, PS!Investable, S!SellPlanned, PS!SellPlanned,
       S!BuyPlanned, PS!BuyPlanned, S!Funded, PS!Funded, S!MaySweep, PS!MaySweep, S!Ends, PS!Ends,
       S!GivenUp, PS!GivenUp, S!Plan, PS!Plan

LEMMA SameGate == S!Gate => PS!Gate
BY SameEstimate
   DEF S!Unknown, PS!Unknown, S!plan, PS!plan, S!Zero, PS!Zero, S!Larger, PS!Larger, S!Smaller, PS!Smaller,
       S!Managed, PS!Managed, S!Price, PS!Price, S!Current, PS!Current, S!Reserved, PS!Reserved, S!Limit,
       PS!Limit, S!Underweight, PS!Underweight, S!Gap, PS!Gap, S!Needed, PS!Needed, S!Investable,
       PS!Investable, S!Prohibited, PS!Prohibited, S!RotationBlocks, PS!RotationBlocks, S!BuysBlocked,
       PS!BuysBlocked, S!AfterSells, PS!AfterSells, S!Gate, PS!Gate

LEMMA SameFinish == S!Finish => PS!Finish
BY
   DEF S!plan, PS!plan, S!Finish, PS!Finish

LEMMA SameLock == ASSUME NEW free PROVE S!Lock(free) => PS!Lock(free)
BY
   DEF S!plan, PS!plan, S!Managed, PS!Managed, S!Lock, PS!Lock

LEMMA SameSellSkipped == ASSUME NEW s PROVE S!SellSkipped(s) => PS!SellSkipped(s)
BY
   DEF S!plan, PS!plan, S!Larger, PS!Larger, S!Smaller, PS!Smaller, S!Managed, PS!Managed, S!Price,
       PS!Price, S!Current, PS!Current, S!Overweight, PS!Overweight, S!SellQuantity, PS!SellQuantity,
       S!Wanted, PS!Wanted, S!Visit, PS!Visit, S!SellSkipped, PS!SellSkipped

LEMMA SameSell == ASSUME NEW s PROVE S!Sell(s) => PS!Sell(s)
BY
   DEF S!plan, PS!plan, S!Larger, PS!Larger, S!Smaller, PS!Smaller, S!Managed, PS!Managed, S!Price,
       PS!Price, S!Current, PS!Current, S!Overweight, PS!Overweight, S!SellQuantity, PS!SellQuantity,
       S!Wanted, PS!Wanted, S!Visit, PS!Visit, S!Sell, PS!Sell

LEMMA SameBuy == ASSUME NEW s PROVE S!Buy(s) => PS!Buy(s)
BY
   DEF S!Unknown, PS!Unknown, S!plan, PS!plan, S!Larger, PS!Larger, S!Smaller, PS!Smaller, S!Managed,
       PS!Managed, S!Price, PS!Price, S!Current, PS!Current, S!Reserved, PS!Reserved, S!Weighed,
       PS!Weighed, S!Cap, PS!Cap, S!Limit, PS!Limit, S!Underweight, PS!Underweight, S!Gap, PS!Gap,
       S!BuyHundredths, PS!BuyHundredths, S!Worth, PS!Worth, S!BuyQuantity, PS!BuyQuantity, S!Investable,
       PS!Investable, S!Visit, PS!Visit, S!Seen, PS!Seen, S!Buy, PS!Buy

LEMMA PassIsGrounded == PS!Grounded
<1>1. ASSUME NEW c \in Calls PROVE PS!Sensible(c)
  <2>1. PICK i \in [held: {[a |-> 0, b |-> 2, h |-> 2], [a |-> 2, b |-> 0, h |-> 0], [a |-> 0, b |-> 1, h |-> 0]},
          price: {[a |-> 2, b |-> 3, h |-> 2], [a |-> 2, b |-> 0, h |-> 3]},
          weight: {[a |-> 50, b |-> 30, h |-> 20], [a |-> 0, b |-> 90, h |-> 10]},
          managed: {Stocks \cup {"h"}, {"a", "h"}},
          equity: {16}, approved: {12, 16}, reserve: {2, 20}, threshold: {1}, minimum: {2},
          cashOnly: BOOLEAN, dry: BOOLEAN, warned: BOOLEAN, gate: {"open", "closed", "unavailable"}] : c = i
    BY DEF Calls
  <2>2. c.managed \subseteq Stocks \cup {"h"} /\ {c.cashOnly, c.dry, c.warned} \subseteq BOOLEAN
    BY <2>1 DEF Stocks
  <2>3. {c.approved, c.equity, c.reserve, c.minimum} \subseteq Int /\ c.threshold \in Nat
    BY <2>1
  <2>4. \A s \in Stocks \cup {"h"} : c.held[s] \in Nat
    BY <2>1 DEF Stocks
  <2>5. \A s \in Stocks \cup {"h"} : c.price[s] \in Nat
    BY <2>1 DEF Stocks
  <2>6. \A s \in Stocks \cup {"h"} : c.weight[s] \in Int
    BY <2>1 DEF Stocks
  <2> QED BY <2>2, <2>3, <2>4, <2>5, <2>6 DEF PS!Sensible
<1> QED BY <1>1 DEF PS!Grounded

LEMMA PassStarts == ASSUME S!Init PROVE PS!IInv
BY SameInit, PassIsGrounded, PS!PassInit

LEMMA PassGoesOn ==
  ASSUME part = "pass", PS!IInv, [Next]_vars
  PROVE  part' = "pass" /\ PS!IInv'
<1>1. CASE Next
  <2>1. S!Next /\ part' = part
    BY <1>1 DEF Next, Keep5, Keep6, Keep7, Keep8, Keep9, Keep10, Keep11, Keep13, Keep14
  <2>2. PS!Next
    BY <2>1, SameValue, SameBlocked, SamePlan, SameGate, SameFinish, SameLock, SameSellSkipped, SameSell, SameBuy
       DEF S!Next, PS!Next
  <2> QED BY <2>1, <2>2, PassIsGrounded, PS!PassStep
<1>2. CASE UNCHANGED vars
  <2>1. UNCHANGED PS!vars /\ part' = part
    BY <1>2 DEF vars, PS!vars
  <2> QED BY <2>1, PassIsGrounded, PS!PassStep
<1> QED BY <1>1, <1>2

----------------------------------------------------------------------------
(* What a candidate release knows of the service.                          *)

\* Where the traffic is, and what was seen of who gets it.
LEMMA SharesFirst == \A s \in C!Shares : s[1] \in {"prev", "warm", "reset"} /\ (s[1] = "prev" <=> s \in {<<"prev">>, <<"prev", "warm">>})
BY DEF C!Shares

\* A step that observes nothing, with the service it leads to.
LEMMA ReleaseLeads ==
  ASSUME C!Accounted, DOMAIN v1' = DOMAIN C!Before, v1'.traffic \in C!Shares,
         v1'.traffic[1] = v1.traffic[1] \/ v1'.traffic[1] = "prev"
           \/ (v1'.traffic[1] = "warm" /\ v11["warm"] = 2) \/ (v1'.traffic[1] = "reset" /\ v11["reset"] = 2),
         v4' \in {v4, v1, v1'}, v11' = v11, v8' = v8 \/ v8' = 0,
         v9' = "none" \/ v3' = "begin" => v1' = C!Before,
         v3' \in C!Trying => v1'.traffic[1] = "prev",
         v3' \in {"requalify", "repromote"} => v1'.traffic[1] = "warm",
         v3' \in {"split", "swap", "qualify", "requalify"} => v8' = 0 \/ v3' = v3,
         v3' \in {"promote", "repromote"} => v3' = v3,
         v3' = "report" \/ (v3' = "over" /\ v9' # "cleanup_failed") => C!Clean'
  PROVE  C!Accounted'
<1>1. {DOMAIN v1', DOMAIN v4'} = {DOMAIN C!Before} /\ {v1'.traffic, v4'.traffic} \subseteq C!Shares
  BY DEF C!Accounted
<1>2. v11' \in [{"warm", "reset"} -> 0..2] /\ v8' \in 0..2
  BY DEF C!Accounted
<1>3. C!ServesWhenProven'
  BY DEF C!Accounted, C!ServesWhenProven
<1>4. v3' \in {"split", "swap"} => v8' = 0
  BY DEF C!Accounted
<1>5. v3' = "qualify" => v8' < 2 /\ v8' <= v11'["warm"]
  <2>1. v11["warm"] \in 0..2
    BY DEF C!Accounted
  <2> QED BY <2>1 DEF C!Accounted
<1>6. v3' = "requalify" => v8' < 2 /\ v8' <= v11'["reset"]
  <2>1. v11["reset"] \in 0..2
    BY DEF C!Accounted
  <2> QED BY <2>1 DEF C!Accounted
<1>7. (v3' = "promote" => v11'["warm"] = 2) /\ (v3' = "repromote" => v11'["reset"] = 2)
  BY DEF C!Accounted
<1> QED BY <1>1, <1>2, <1>3, <1>4, <1>5, <1>6, <1>7 DEF C!Accounted

\* A reading, with the place it leads to.
LEMMA ReleaseReads ==
  ASSUME C!Accounted, v1' = v1, v4' \in {v4, v1}, v11' = v11, v8' = v8 \/ v8' = 0,
         v9' = "none" \/ v3' = "begin" => v1 = C!Before,
         v3' \in C!Trying => v1.traffic[1] = "prev",
         v3' \in {"requalify", "repromote"} => v3' = v3,
         v3' \in {"split", "swap", "qualify"} => v8' = 0 \/ v3' = v3,
         v3' = "promote" => v3' = v3,
         v3' = "report" \/ (v3' = "over" /\ v9' # "cleanup_failed") => C!Clean
  PROVE  C!Accounted'
<1>1. DOMAIN v1 = DOMAIN C!Before /\ v1.traffic \in C!Shares
  BY DEF C!Accounted
<1>2. v3' \in {"requalify", "repromote"} => v1.traffic[1] = "warm"
  BY DEF C!Accounted
<1>3. C!Clean' <=> C!Clean
  BY DEF C!Clean
<1> QED BY <1>1, <1>2, <1>3, ReleaseLeads

LEMMA ReleaseInit == ASSUME C!Init PROVE C!Accounted
<1>1. v1.traffic = <<"prev">> /\ v4.traffic = <<"prev">> /\ v1 = C!Before /\ v4 = C!Before
  BY DEF C!Init, C!Before
<1>2. <<"prev">> \in C!Shares /\ <<"prev">>[1] = "prev"
  BY DEF C!Shares
<1> QED BY <1>1, <1>2 DEF C!Init, C!Accounted, C!ServesWhenProven, C!Trying

LEMMA ReleaseBegin == ASSUME C!IInv, C!Accounted, C!Begin PROVE C!Accounted'
<1>1. /\ v1' = v1 /\ v4' = v1 /\ v11' = v11 /\ v8' = v8 /\ v3' = "begin" /\ v9' = "started"
      /\ v9 = "none"
  BY DEF C!Begin, C!Goto, C!NoState
<1>2. v1 = C!Before
  BY <1>1 DEF C!Accounted
<1> QED BY <1>1, <1>2, ReleaseReads DEF C!Trying

LEMMA ReleaseAdmit == ASSUME C!IInv, C!Accounted, C!Admit PROVE C!Accounted'
<1>1. v1' = v1 /\ v4' = v4 /\ v11' = v11 /\ v8' = v8 /\ v3 = "begin" /\ v3' = "deploy" /\ v9' = v9
  BY DEF C!Admit, C!Goto
<1>2. v1 = C!Before /\ v9 # "none"
  BY <1>1 DEF C!Accounted, C!IInv
<1>3. v1.traffic[1] = "prev"
  BY <1>2 DEF C!Before
<1> QED BY <1>1, <1>2, <1>3, ReleaseReads

LEMMA ReleaseBind == ASSUME C!IInv, C!Accounted, C!Bind PROVE C!Accounted'
<1>1. v1' = v1 /\ v4' = v4 /\ v11' = v11 /\ v8' = 0 /\ v3 = "bind" /\ v3' \in {"qualify", "split"} /\ v9' = v9
  BY DEF C!Bind
<1>2. v1.traffic[1] = "prev" /\ v9 # "none"
  BY <1>1 DEF C!Accounted, C!IInv, C!Trying
<1> QED BY <1>1, <1>2, ReleaseReads

\* The commands.
LEMMA ReleaseDeploy == ASSUME C!IInv, C!Accounted, C!Deploy PROVE C!Accounted'
<1> DEFINE e == [v1 EXCEPT !.min = 1, !.latest = "warm", !.tag = v5]
<1>1. C!Command("deploy", "deploy", e, "bind", TRUE, "restore") /\ v11' = v11 /\ v8' = v8 /\ v9' = v9
  BY DEF C!Deploy
<1>2. DOMAIN v1 = DOMAIN C!Before /\ v1.traffic \in C!Shares
  BY DEF C!Accounted
<1>3. DOMAIN e = DOMAIN C!Before /\ e.traffic = v1.traffic
  BY <1>2 DEF C!Before
<1> HIDE DEF e
<1>4. /\ v1' \in {v1, e} /\ v4' \in {v4, v1, v1'} /\ v3 = "deploy" /\ v9 # "none"
      /\ v3' \in {"bind", "restore"}
  BY <1>1 DEF C!IInv, C!Command
<1>5. v1.traffic[1] = "prev"
  BY <1>4 DEF C!Accounted, C!Trying
<1> QED BY <1>1, <1>2, <1>3, <1>4, <1>5, ReleaseLeads

LEMMA ReleaseSplit == ASSUME C!IInv, C!Accounted, C!Split PROVE C!Accounted'
<1> DEFINE e == [v1 EXCEPT !.traffic = <<"prev", "warm">>]
<1>1. C!Command("split", "split", e, "qualify", TRUE, "restore") /\ v11' = v11 /\ v8' = v8 /\ v9' = v9
  BY DEF C!Split
<1>2. DOMAIN v1 = DOMAIN C!Before /\ v1.traffic \in C!Shares
  BY DEF C!Accounted
<1>3. DOMAIN e = DOMAIN C!Before /\ e.traffic = <<"prev", "warm">>
  BY <1>2 DEF C!Before
<1>4. e.traffic \in C!Shares /\ e.traffic[1] = "prev"
  BY <1>3 DEF C!Shares
<1> HIDE DEF e
<1>5. /\ v1' \in {v1, e} /\ v4' \in {v4, v1, v1'} /\ v3 = "split" /\ v9 # "none"
      /\ v3' \in {"qualify", "restore"}
  BY <1>1 DEF C!IInv, C!Command
<1>6. v1.traffic[1] = "prev" /\ v8 = 0
  BY <1>5 DEF C!Accounted, C!Trying
<1> QED BY <1>1, <1>2, <1>3, <1>4, <1>5, <1>6, ReleaseLeads

LEMMA ReleasePromote == ASSUME C!IInv, C!Accounted, C!Promote PROVE C!Accounted'
<1> DEFINE e == [v1 EXCEPT !.traffic = <<"warm">>]
<1>1. C!Command("promote", "promote", e, "restore", FALSE, "restore") /\ v11' = v11 /\ v8' = v8
      /\ v9' \in {"promoted", v9}
  BY DEF C!Promote
<1>2. DOMAIN v1 = DOMAIN C!Before /\ v1.traffic \in C!Shares
  BY DEF C!Accounted
<1>3. DOMAIN e = DOMAIN C!Before /\ e.traffic = <<"warm">>
  BY <1>2 DEF C!Before
<1>4. e.traffic \in C!Shares /\ e.traffic[1] = "warm"
  BY <1>3 DEF C!Shares
<1> HIDE DEF e
<1>5. v1' \in {v1, e} /\ v4' \in {v4, v1, v1'} /\ v3 = "promote" /\ v9 # "none" /\ v3' = "restore"
  BY <1>1 DEF C!IInv, C!Command
<1>6. v11["warm"] = 2
  BY <1>5 DEF C!Accounted
<1>7. "restore" \notin C!Trying
  BY DEF C!Trying
<1> QED BY <1>1, <1>2, <1>3, <1>4, <1>5, <1>6, <1>7, ReleaseLeads

LEMMA ReleaseRestore == ASSUME C!IInv, C!Accounted, C!Restore PROVE C!Accounted'
<1>1. /\ v1' = v1 /\ v4' = v4 /\ v11' = v11 /\ v8' = v8 /\ v3 = "restore" /\ v9' = v9
      /\ (v3' = "report" /\ C!NothingDone) \/ v3' \in {"unsplit", "untag", "reset"}
  BY DEF C!Restore
<1>2. v9 # "none"
  BY <1>1 DEF C!IInv
<1>3. C!NothingDone => C!Clean
  BY DEF C!NothingDone, C!Clean, C!Before
<1> QED BY <1>1, <1>2, <1>3, ReleaseReads DEF C!Trying

LEMMA ReleaseUnsplit == ASSUME C!IInv, C!Accounted, C!Unsplit PROVE C!Accounted'
<1> DEFINE e == [v1 EXCEPT !.traffic = C!Before.traffic]
           there == IF v5 THEN "untag" ELSE "reset"
<1>1. C!Command("unsplit", "unsplit", e, there, FALSE, "failed") /\ v11' = v11 /\ v8' = v8 /\ v9' = v9
  BY DEF C!Unsplit
<1>2. DOMAIN v1 = DOMAIN C!Before /\ v1.traffic \in C!Shares
  BY DEF C!Accounted
<1>3. DOMAIN e = DOMAIN C!Before /\ e.traffic = <<"prev">>
  BY <1>2 DEF C!Before
<1>4. e.traffic \in C!Shares /\ e.traffic[1] = "prev"
  BY <1>3 DEF C!Shares
<1>5. there \in {"untag", "reset"}
  OBVIOUS
<1> HIDE DEF e, there
<1>6. /\ v1' \in {v1, e} /\ v4' \in {v4, v1, v1'} /\ v3 = "unsplit" /\ v9 # "none"
      /\ v3' \in {there, "failed"}
  BY <1>1 DEF C!IInv, C!Command
<1>7. v3' \in {"untag", "reset", "failed"} /\ v3' \notin C!Trying
  BY <1>5, <1>6 DEF C!Trying
<1> QED BY <1>1, <1>2, <1>3, <1>4, <1>6, <1>7, ReleaseLeads

LEMMA ReleaseUntag == ASSUME C!IInv, C!Accounted, C!Untag PROVE C!Accounted'
<1>1. /\ v1' \in {v1, [v1 EXCEPT !.tag = FALSE]} /\ v4' = v1' /\ v11' = v11 /\ v8' = v8 /\ v9' = v9
      /\ v3 = "untag" /\ v3' \in {"reset", "failed"}
  BY DEF C!Untag
<1>2. DOMAIN v1 = DOMAIN C!Before /\ v1.traffic \in C!Shares
  BY DEF C!Accounted
<1>3. DOMAIN v1' = DOMAIN C!Before /\ v1'.traffic = v1.traffic
  BY <1>1, <1>2 DEF C!Before
<1>4. v9 # "none" /\ v3' \notin C!Trying
  BY <1>1 DEF C!IInv, C!Trying
<1> QED BY <1>1, <1>2, <1>3, <1>4, ReleaseLeads

LEMMA ReleaseReset == ASSUME C!IInv, C!Accounted, C!Reset PROVE C!Accounted'
<1> DEFINE e == [v1 EXCEPT !.min = 0, !.latest = "reset"]
           there == IF ~v7 THEN "failed" ELSE IF v6 THEN "swap" ELSE "assert"
<1>1. C!Command("reset", "reset", e, there, FALSE, "failed") /\ v11' = v11 /\ v8' = 0 /\ v9' = v9
  BY DEF C!Reset
<1>2. DOMAIN v1 = DOMAIN C!Before /\ v1.traffic \in C!Shares
  BY DEF C!Accounted
<1>3. DOMAIN e = DOMAIN C!Before /\ e.traffic = v1.traffic
  BY <1>2 DEF C!Before
<1>5. there \in {"failed", "swap", "assert"}
  OBVIOUS
<1> HIDE DEF e, there
<1>6. /\ v1' \in {v1, e} /\ v4' \in {v4, v1, v1'} /\ v3 = "reset" /\ v9 # "none"
      /\ v3' \in {there, "failed"}
  BY <1>1 DEF C!IInv, C!Command
<1>7. v3' \in {"failed", "swap", "assert"} /\ v3' \notin C!Trying
  BY <1>5, <1>6 DEF C!Trying
<1> QED BY <1>1, <1>2, <1>3, <1>6, <1>7, ReleaseLeads

LEMMA ReleaseSwap == ASSUME C!IInv, C!Accounted, C!Swap PROVE C!Accounted'
<1> DEFINE e == [v1 EXCEPT !.traffic = <<"warm", "reset">>]
<1>1. C!Command("swap", "swap", e, "requalify", TRUE, "failed") /\ v11' = v11 /\ v8' = v8 /\ v9' = v9
      /\ v1.traffic = <<"warm">>
  BY DEF C!Swap
<1>2. DOMAIN v1 = DOMAIN C!Before /\ v1.traffic \in C!Shares
  BY DEF C!Accounted
<1>3. DOMAIN e = DOMAIN C!Before /\ e.traffic = <<"warm", "reset">>
  BY <1>2 DEF C!Before
<1>4. e.traffic \in C!Shares /\ e.traffic[1] = "warm" /\ v1.traffic[1] = "warm"
  BY <1>1, <1>3 DEF C!Shares
<1> HIDE DEF e
<1>5. /\ v1' \in {v1, e} /\ v4' \in {v4, v1, v1'} /\ v3 = "swap" /\ v9 # "none"
      /\ v3' \in {"requalify", "failed"}
  BY <1>1 DEF C!IInv, C!Command
<1>6. v8 = 0 /\ v3' \notin C!Trying
  BY <1>5 DEF C!Accounted, C!Trying
<1> QED BY <1>1, <1>2, <1>3, <1>4, <1>5, <1>6, ReleaseLeads

LEMMA ReleaseRepromote == ASSUME C!IInv, C!Accounted, C!Repromote PROVE C!Accounted'
<1> DEFINE e == [v1 EXCEPT !.traffic = <<"reset">>]
<1>1. C!Command("repromote", "repromote", e, "assert", FALSE, "failed") /\ v11' = v11 /\ v8' = v8 /\ v9' = v9
  BY DEF C!Repromote
<1>2. DOMAIN v1 = DOMAIN C!Before /\ v1.traffic \in C!Shares
  BY DEF C!Accounted
<1>3. DOMAIN e = DOMAIN C!Before /\ e.traffic = <<"reset">>
  BY <1>2 DEF C!Before
<1>4. e.traffic \in C!Shares /\ e.traffic[1] = "reset"
  BY <1>3 DEF C!Shares
<1> HIDE DEF e
<1>5. /\ v1' \in {v1, e} /\ v4' \in {v4, v1, v1'} /\ v3 = "repromote" /\ v9 # "none"
      /\ v3' \in {"assert", "failed"}
  BY <1>1 DEF C!IInv, C!Command
<1>6. v11["reset"] = 2 /\ v3' \notin C!Trying
  BY <1>5 DEF C!Accounted, C!Trying
<1> QED BY <1>1, <1>2, <1>3, <1>4, <1>5, <1>6, ReleaseLeads

LEMMA ReleaseAssert == ASSUME C!IInv, C!Accounted, C!Assert PROVE C!Accounted'
<1>1. /\ v1' = v1 /\ v4' = v4 /\ v11' = v11 /\ v8' = v8 /\ v3 = "assert" /\ v3' = "report"
      /\ v9' = v9
  BY DEF C!Assert, C!Goto
<1>2. v9 # "none"
  BY <1>1 DEF C!IInv
<1>3. v1.traffic \in {<<"prev">>, <<"reset">>}
  <2>1. v1.traffic \in C!Shares /\ "warm" \notin {v1.traffic[i] : i \in DOMAIN v1.traffic}
    BY DEF C!Assert, C!Referenced, C!Accounted
  <2>2. v1.traffic # <<"warm">> /\ v1.traffic # <<"warm", "reset">>
    BY <2>1
  <2>3. v1.traffic # <<"prev", "warm">>
    <3> SUFFICES ASSUME v1.traffic = <<"prev", "warm">> PROVE FALSE
      OBVIOUS
    <3>1. 2 \in DOMAIN v1.traffic /\ v1.traffic[2] = "warm"
      OBVIOUS
    <3> QED BY <2>1, <3>1
  <2> QED BY <2>1, <2>2, <2>3 DEF C!Shares
<1>4. C!Clean
  BY <1>3 DEF C!Assert, C!Bound, C!Clean
<1> QED BY <1>1, <1>2, <1>4, ReleaseReads DEF C!Trying

LEMMA ReleaseReport == ASSUME C!IInv, C!Accounted, C!Report \/ C!CleanupFailed PROVE C!Accounted'
<1>1. /\ v1' = v1 /\ v4' = v4 /\ v11' = v11 /\ v8' = v8 /\ v3 \in {"report", "failed"} /\ v3' = "over"
      /\ (v3 = "report" /\ v9' = "restored") \/ v9' = "cleanup_failed"
  BY DEF C!Report, C!CleanupFailed, C!Goto
<1>2. v3 = "report" => C!Clean
  BY DEF C!Accounted
<1> QED BY <1>1, <1>2, ReleaseReads DEF C!Trying

LEMMA ReleaseStops == ASSUME C!IInv, C!Accounted, C!Raise \/ C!Kill PROVE C!Accounted'
<1>1. /\ v1' = v1 /\ v4' = v4 /\ v11' = v11 /\ v8' = v8 /\ v9' = v9 /\ v3 # "idle"
      /\ (v3 = "begin" /\ v3' = "over") \/ v3' \in {"restore", "failed", "idle"}
  BY DEF C!Raise, C!Kill, C!Goto, C!Trying, C!Cleaning
<1>2. v9 # "none" /\ (v3 = "begin" => v1 = C!Before)
  BY <1>1 DEF C!IInv, C!Accounted
<1>3. v1 = C!Before => C!Clean
  BY DEF C!Clean, C!Before
<1> QED BY <1>1, <1>2, <1>3, ReleaseReads DEF C!Trying

\* An instance that is up twice in a row has been seen so.
LEMMA ReleaseObserves ==
  ASSUME C!IInv, C!Accounted, NEW r \in {"warm", "reset"}, NEW here, NEW there, C!Observe(r, here, there),
         (r = "warm" /\ here = "qualify" /\ there = "promote") \/ (r = "reset" /\ here = "requalify" /\ there = "repromote")
  PROVE  C!Accounted'
<1>1. /\ v1' = v1 /\ v4' = v4 /\ v9' = v9 /\ v3 = here
      /\ v8' = (IF r \in v2 THEN v8 + 1 ELSE 0)
      /\ v11' = [v11 EXCEPT ![r] = IF r \notin v2 THEN 0 ELSE IF @ = 2 THEN 2 ELSE @ + 1]
      /\ v3' = (IF v8' = 2 THEN there ELSE here)
  BY DEF C!Observe, C!Healthy
<1>2. v11 \in [{"warm", "reset"} -> 0..2] /\ v8 \in {0, 1} /\ v8 <= v11[r] /\ v9 # "none"
  BY <1>1 DEF C!Accounted, C!IInv
<1>3. v11[r] \in 0..2
  BY <1>2
<1>4. v11'[r] = (IF r \notin v2 THEN 0 ELSE IF v11[r] = 2 THEN 2 ELSE v11[r] + 1)
  BY <1>1, <1>2
<1>5. v8' \in 0..2 /\ v8' <= v11'[r] /\ (v8' = 2 => v11'[r] = 2) /\ v11'[r] \in 0..2
  BY <1>1, <1>2, <1>3, <1>4
<1>6. v11' \in [{"warm", "reset"} -> 0..2] /\ \A q \in {"warm", "reset"} \ {r} : v11'[q] = v11[q]
  BY <1>1, <1>2, <1>5
<1>7. v1.traffic[1] = (IF r = "warm" THEN "prev" ELSE "warm")
  BY <1>1 DEF C!Accounted, C!Trying
<1>8. C!ServesWhenProven'
  BY <1>1, <1>6, <1>7 DEF C!Accounted, C!ServesWhenProven
<1>9. CASE r = "warm"
  <2>1. v3 = "qualify" /\ v3' \in {"qualify", "promote"} /\ (v3' = "promote" <=> v8' = 2)
    BY <1>1, <1>9
  <2> QED BY <1>1, <1>2, <1>5, <1>6, <1>7, <1>8, <1>9, <2>1 DEF C!Accounted
<1>10. CASE r = "reset"
  <2>1. v3 = "requalify" /\ v3' \in {"requalify", "repromote"} /\ (v3' = "repromote" <=> v8' = 2)
    BY <1>1, <1>10
  <2> QED BY <1>1, <1>2, <1>5, <1>6, <1>7, <1>8, <1>10, <2>1 DEF C!Accounted, C!Trying
<1> QED BY <1>9, <1>10

LEMMA ReleaseStep == ASSUME C!IInv, C!Accounted, C!Next \/ UNCHANGED vars PROVE C!Accounted'
<1>1. CASE UNCHANGED vars \/ \E r \in {"warm", "reset"} : C!InstanceChanges(r)
  <2>1. UNCHANGED <<v1, v3, v4, v8, v9, v11>>
    BY <1>1 DEF vars, C!InstanceChanges
  <2> QED BY <2>1 DEF C!Accounted, C!ServesWhenProven, C!Clean
<1>2. CASE C!Qualify \/ C!Requalify
  BY <1>2, ReleaseObserves DEF C!Qualify, C!Requalify
<1> QED BY <1>1, <1>2, ReleaseBegin, ReleaseAdmit, ReleaseDeploy, ReleaseBind, ReleaseSplit, ReleasePromote, ReleaseRestore,
           ReleaseUnsplit, ReleaseUntag, ReleaseReset, ReleaseSwap, ReleaseRepromote, ReleaseAssert, ReleaseReport,
           ReleaseStops DEF C!Next, C!Going

LEMMA ReleaseHolds == ASSUME C!Accounted PROVE C!ServesWhenProven /\ C!NothingLeftUntold
BY DEF C!Accounted, C!Clean, C!NothingLeftUntold

----------------------------------------------------------------------------
(* What a Flex run is told, and what it posts.                             *)

\* What a Flex run knows of its posts.
LEMMA FlexSlots ==
  ASSUME U!IInv, NEW i \in 1..Len(v4.slots)
  PROVE  /\ v4.slots[i] \in {"b", "c"} /\ v4.slots[i] # U!Primary /\ v4.slots[i] \in U!Accounts
         /\ <<v4.slots[i], "return">> \in U!Pairs /\ <<v4.slots[i], "flows">> \in U!Pairs
<1>1. v4.slots[i] \in {"b", "c"} /\ DOMAIN v4.slots = 1..Len(v4.slots)
  BY DEF U!IInv
<1>2. v4.slots[i] \in U!Rows(v4.slots)
  BY <1>1 DEF U!Rows
<1> QED BY <1>1, <1>2 DEF U!Accounts, U!Pairs, U!Primary

LEMMA FlexShape ==
  ASSUME U!IInv
  PROVE  /\ Len(v4.slots) \in Nat /\ DOMAIN v4.slots = 1..Len(v4.slots) /\ v8 \in Nat /\ v8 >= 1
         /\ \A i \in 1..(v8 - 1) : i \in Nat /\ i >= 1 /\ i < v8
         /\ \A i \in 1..Len(v4.slots) : i \in Nat
BY DEF U!IInv

LEMMA FlexPairs ==
  ASSUME NEW p \in U!Pairs
  PROVE  p = <<p[1], p[2]>> /\ p[2] \in {"return", "trades", "flows"} /\ (p[2] = "trades" => p[1] = U!Primary)
BY DEF U!Pairs, U!Primary

\* A post of what the run may publish; what was acknowledged is held.
LEMMA FlexPostTells ==
  ASSUME U!Informed, NEW p \in U!Publishes, p \notin v9, NEW next, U!Post(p, next), next \notin {"request", "read"},
         v1 # "idle", UNCHANGED U!PostUnchanged
  PROVE  /\ U!Books' /\ v1' = next /\ v11'[p] # ""
         /\ \A q \in U!Pairs : q # p => v11'[q] = v11[q]
         /\ v9 \subseteq v9' /\ v9' \subseteq v9 \cup {p}
<1>1. /\ p \in U!Pairs /\ p[1] \in U!Accounts /\ U!OwnKeys(v4) /\ U!Books
      /\ UNCHANGED <<v2, v3, v4, v5, v6, v7, v13>> /\ v1' = next
  BY DEF U!Informed, U!Publishes, U!PostUnchanged, U!Post, U!Go
<1>2. U!Publishes' = U!Publishes /\ \A a, k : U!Owed(a, k)' <=> U!Owed(a, k)
  BY <1>1 DEF U!Publishes, U!Accounts, U!Owed, U!Unsendable, U!Mismatch
<1>3. \A q \in v12 : q \in U!Pairs /\ q[1] \in U!Accounts
  BY <1>1 DEF U!Books, U!Publishes
<1>4. CASE U!Owed(p[1], p[2])
  <2>1. PICK ans \in U!Answers : v11' = [v11 EXCEPT ![p] = U!Status(ans)] /\ v12' = U!Held(p, ans.stored) /\ v9' = v9 \cup {p}
    BY <1>4 DEF U!Post
  <2>2. U!Status(ans) \in {"ok", "rejected", "http", "unsure"} /\ (U!Status(ans) = "ok" => ans.stored)
    BY DEF U!Status, U!Answers
  <2>3. DOMAIN v11' = U!Pairs /\ v11'[p] = U!Status(ans) /\ \A q \in U!Pairs : q # p => v11'[q] = v11[q]
    BY <1>1, <2>1 DEF U!Books
  <2>4. v12 \subseteq v12' /\ v12' \subseteq v12 \cup {p} /\ (ans.stored => p \in v12')
    <3>1. CASE ~ans.stored
      BY <2>1, <3>1 DEF U!Held
    <3>2. CASE ans.stored
      <4>1. v12' = {q \in v12 : v4.keys[q[1]] # v4.keys[p[1]] \/ q[2] # p[2]} \cup {p}
        BY <2>1, <3>2 DEF U!Held
      <4>2. ASSUME NEW q \in v12, v4.keys[q[1]] = v4.keys[p[1]], q[2] = p[2] PROVE q = p
        <5>1. q[1] = p[1]
          BY <1>1, <1>3, <4>2 DEF U!OwnKeys, U!Accounts
        <5> QED BY <1>1, <1>3, <4>2, <5>1, FlexPairs
      <4> QED BY <4>1, <4>2
    <3> QED BY <3>1, <3>2
  <2>5. v12' \subseteq v9'
    BY <1>1, <2>1, <2>4 DEF U!Books
  <2>6. ASSUME NEW q \in v9' PROVE q \in U!Publishes' /\ U!Owed(q[1], q[2])' /\ v11'[q] \in {"ok", "rejected", "http", "unsure"}
    <3>1. CASE q = p
      BY <1>2, <1>4, <2>2, <2>3, <3>1
    <3>2. CASE q # p
      <4>1. q \in v9 /\ q \in U!Pairs
        BY <1>1, <2>1, <2>6, <3>2 DEF U!Books, U!Publishes
      <4> QED BY <1>1, <1>2, <2>3, <3>2, <4>1 DEF U!Books
    <3> QED BY <3>1, <3>2
  <2>7. ASSUME NEW q \in U!Pairs
        PROVE  (v11'[q] = "ok" => q \in v12') /\ (v11'[q] # "" /\ U!Owed(q[1], q[2])' => q \in v9')
    <3>1. CASE q = p
      BY <2>1, <2>2, <2>3, <2>4, <3>1
    <3>2. CASE q # p
      BY <1>1, <1>2, <2>1, <2>3, <2>4, <3>2 DEF U!Books
    <3> QED BY <3>1, <3>2
  <2>8. U!Books'
    BY <1>1, <2>3, <2>5, <2>6, <2>7 DEF U!Books
  <2> QED BY <1>1, <2>1, <2>2, <2>3, <2>8
<1>5. CASE ~U!Owed(p[1], p[2])
  <2> DEFINE why == U!Unsendable(p[1], p[2])
             say == IF why # "" THEN why ELSE "mismatch"
  <2>1. v11' = [v11 EXCEPT ![p] = say] /\ v12' = v12 /\ v9' = v9
    BY <1>5 DEF U!Post
  <2>2. say # "" /\ say # "ok"
    BY DEF U!Unsendable
  <2> HIDE DEF say
  <2>3. DOMAIN v11' = U!Pairs /\ v11'[p] = say /\ \A q \in U!Pairs : q # p => v11'[q] = v11[q]
    BY <1>1, <2>1 DEF U!Books
  <2>4. ASSUME NEW q \in v9' PROVE q \in U!Publishes' /\ U!Owed(q[1], q[2])' /\ v11'[q] \in {"ok", "rejected", "http", "unsure"}
    <3>1. q \in v9 /\ q \in U!Pairs /\ q # p
      BY <1>1, <2>1, <2>4 DEF U!Books, U!Publishes
    <3> QED BY <1>1, <1>2, <2>3, <3>1 DEF U!Books
  <2>5. ASSUME NEW q \in U!Pairs
        PROVE  (v11'[q] = "ok" => q \in v12') /\ (v11'[q] # "" /\ U!Owed(q[1], q[2])' => q \in v9')
    <3>1. CASE q = p
      BY <1>2, <1>5, <2>2, <2>3, <3>1
    <3>2. CASE q # p
      BY <1>1, <1>2, <2>1, <2>3, <3>2 DEF U!Books
    <3> QED BY <3>1, <3>2
  <2>6. U!Books'
    BY <1>1, <2>1, <2>3, <2>4, <2>5 DEF U!Books
  <2> QED BY <1>1, <2>1, <2>2, <2>3, <2>6
<1> QED BY <1>4, <1>5

LEMMA InformedInit == ASSUME U!Init PROVE U!Informed
<1>1. DOMAIN v11 = U!Pairs /\ \A p \in U!Pairs : v11[p] = ""
  BY DEF U!Init
<1>2. v9 = {} /\ v12 = {} /\ v1 = "idle" /\ v13 = "" /\ v2 = "full"
  BY DEF U!Init
<1>3. U!Books
  BY <1>1, <1>2 DEF U!Books
<1>4. U!StopsWhenShared
  BY <1>2 DEF U!StopsWhenShared
<1> QED BY <1>2, <1>3, <1>4 DEF U!Informed, U!Places, U!Rounds, U!SuccessIsHeld, U!ReadingIsAsked, U!Reading

LEMMA InformedDispatch == ASSUME U!IInv, U!Informed, U!Dispatch PROVE U!Informed'
<1>1. /\ v9' = {} /\ v12' = {} /\ v8' = 1 /\ v11' = [p \in U!Pairs |-> ""]
      /\ (v1' = "request" /\ v13' = "" /\ U!Valid(v4')) \/ (v1' = "idle" /\ (v13' = "2" \/ v2' = "preflight"))
  BY DEF U!Dispatch, U!Go
<1>2. U!Books'
  BY <1>1 DEF U!Books
<1>3. U!StopsWhenShared'
  BY <1>1 DEF U!StopsWhenShared
<1>4. U!SuccessIsHeld' /\ U!ReadingIsAsked'
  BY <1>1 DEF U!SuccessIsHeld, U!ReadingIsAsked, U!Publishing, U!Reading
<1>5. U!Rounds'
  BY <1>1 DEF U!Rounds
<1> QED BY <1>1, <1>2, <1>3, <1>4, <1>5 DEF U!Informed, U!Places, U!Valid

\* A step with which nothing is told or posted.
LEMMA InformedSame ==
  ASSUME U!IInv, U!Informed, UNCHANGED <<v2, v3, v4, v9, v11, v12>>, v5' = v5 \/ (v1 = "request" /\ v1' \notin DOMAIN U!Places),
         v1 # "idle", v1' \in {"request", "read"} => v1 \in {"request", "read"} /\ v8' = v8,
         v1' = "idle" \/ v13' = v13,
         v1' \in DOMAIN U!Places => v2 \in U!Places[v1'] /\ (U!AllVerified \/ v1 \in DOMAIN U!Places),
         U!Rounds', U!SuccessIsHeld', U!ReadingIsAsked'
  PROVE  U!Informed'
<1>1. v1 = "request" => v9 = {} /\ v12 = {} /\ \A p \in U!Pairs : v11[p] = ""
  BY DEF U!Informed, U!Books
<1>2. U!Books'
  <2>1. CASE v5' = v5
    <3>1. U!Publishes' = U!Publishes /\ \A a, k : U!Owed(a, k)' <=> U!Owed(a, k)
      BY <2>1 DEF U!Publishes, U!Accounts, U!Owed, U!Unsendable, U!Mismatch
    <3> QED BY <3>1 DEF U!Informed, U!Books
  <2>2. CASE v1 = "request"
    BY <1>1, <2>2 DEF U!Informed, U!Books
  <2> QED BY <2>1, <2>2
<1>3. U!StopsWhenShared'
  BY DEF U!Informed, U!StopsWhenShared
<1>4. v1' \in DOMAIN U!Places \/ v9' # {} => U!AllVerified'
  <2>1. ASSUME v5' = v5, U!AllVerified PROVE U!AllVerified'
    BY <2>1 DEF U!AllVerified, U!Targets, U!Verified
  <2>2. CASE v1 = "request" /\ v1' \notin DOMAIN U!Places
    BY <1>1, <2>2
  <2>3. CASE v5' = v5
    BY <2>1, <2>3 DEF U!Informed
  <2> QED BY <2>2, <2>3
<1> QED BY <1>2, <1>3, <1>4 DEF U!Informed, U!OwnKeys

\* The report.
LEMMA InformedReads == ASSUME U!IInv, U!Informed, U!Request \/ U!Pending \/ U!Collect PROVE U!Informed'
<1>1. /\ v1 \in {"request", "read"} /\ UNCHANGED <<v2, v3, v4, v9, v11, v12, v8>> /\ v8 = 1
      /\ v9 = {} /\ U!OwnKeys(v4)
  BY DEF U!Request, U!Pending, U!Collect, U!At, U!Informed, U!Books, U!Rounds
<1>2. U!SuccessIsHeld' /\ U!ReadingIsAsked' /\ (v1' = "idle" \/ v13' = v13)
  <2>1. v13' = "1" \/ (v13' = v13 /\ v13 = "")
    BY DEF U!Request, U!Pending, U!Collect, U!Fail, U!At, U!Informed
  <2>2. v1' = "idle" \/ v13' = v13
    BY DEF U!Request, U!Pending, U!Collect, U!Fail, U!Go
  <2> QED BY <1>1, <2>1, <2>2 DEF U!SuccessIsHeld, U!ReadingIsAsked
<1>3. CASE U!Request \/ U!Pending
  <2>1. v1' \in {"read", "idle"} /\ (v5' = v5 \/ v1 = "request")
    BY <1>3 DEF U!Request, U!Pending, U!Fail, U!Go, U!At, U!OnPending
  <2>2. U!Rounds'
    BY <1>1, <2>1 DEF U!Rounds
  <2>3. v1' \notin DOMAIN U!Places
    BY <2>1 DEF U!Places
  <2> QED BY <1>1, <1>2, <2>1, <2>2, <2>3, InformedSame
<1>4. CASE U!Collect
  <2>1. v5' = v5 /\ v1 = "read" /\ (v1' = "idle" \/ (v1' = U!First /\ U!AllVerified))
    BY <1>4 DEF U!Collect, U!Fail, U!Go, U!At
  <2>2. CASE v1' = "idle"
    <3>1. U!Rounds' /\ v1' \notin DOMAIN U!Places
      BY <2>2 DEF U!Rounds, U!Places
    <3> QED BY <1>1, <1>2, <2>1, <2>2, <3>1, InformedSame
  <2>3. CASE v1' = U!First /\ U!AllVerified
    <3>1. \/ v1' = "return" /\ v2 \in {"full", "primary"}
          \/ v1' = "flows" /\ v2 = "flows"
          \/ v1' = "more" /\ v2 = "additional"
          \/ v1' = "finish" /\ v2 \notin {"full", "primary", "flows", "additional"}
      BY <2>3 DEF U!First
    <3>2. U!Rounds'
      <4>1. v8 <= Len(v4.slots) + 1 /\ \A i \in 1..(v8 - 1) : FALSE
        BY <1>1, FlexShape
      <4>2. v1' # "moreflows" /\ (v2 = "full" => v1' = "return")
        BY <3>1
      <4> QED BY <1>1, <3>1, <4>1, <4>2 DEF U!Rounds
    <3>3. v1' \in DOMAIN U!Places => v2 \in U!Places[v1']
      BY <3>1 DEF U!Places
    <3>4. v1' \notin {"request", "read"} /\ v1 # "idle"
      BY <2>1, <3>1
    <3> QED BY <1>1, <1>2, <2>1, <2>3, <3>2, <3>3, <3>4, InformedSame
  <2> QED BY <2>1, <2>2, <2>3
<1> QED BY <1>3, <1>4

\* What the posts leave is as it must be.
LEMMA InformedPost ==
  ASSUME U!IInv, U!Informed, UNCHANGED U!PostUnchanged, U!Books', v1' \notin {"idle", "request", "read"}, v1 \in DOMAIN U!Places,
         v1' \in DOMAIN U!Places => v2 \in U!Places[v1'], U!Rounds', U!StopsWhenShared'
  PROVE  U!Informed'
<1>1. UNCHANGED <<v2, v3, v4, v5, v13>> /\ v13 = "" /\ U!OwnKeys(v4) /\ U!AllVerified
  BY DEF U!PostUnchanged, U!Informed, U!Places
<1>2. v2 \in U!Publishing
  <2>1. v2 \in U!Places[v1]
    BY DEF U!Informed
  <2> QED BY <2>1 DEF U!Places, U!Publishing
<1>3. U!OwnKeys(v4)' /\ U!AllVerified'
  BY <1>1 DEF U!OwnKeys, U!AllVerified, U!Targets, U!Verified
<1>4. U!SuccessIsHeld' /\ U!ReadingIsAsked'
  BY <1>1, <1>2 DEF U!SuccessIsHeld, U!ReadingIsAsked, U!Publishing, U!Reading
<1> QED BY <1>1, <1>3, <1>4 DEF U!Informed

LEMMA InformedPrimary == ASSUME U!IInv, U!Informed, U!PublishReturn \/ U!PublishTrades \/ U!PublishFlows PROVE U!Informed'
<1>1. UNCHANGED U!PostUnchanged /\ v8' = v8 /\ v8 = 1 /\ v1 \in DOMAIN U!Places /\ v2' = v2 /\ v4' = v4
  BY DEF U!PublishReturn, U!PublishTrades, U!PublishFlows, U!At, U!Informed, U!Rounds, U!PostUnchanged, U!Places
<1>2. PICK k \in {"return", "trades", "flows"} :
        /\ v1 = k
        /\ U!Post(<<U!Primary, k>>, IF v2 \in {"primary", "flows"} THEN "finish"
                                    ELSE IF k = "return" THEN "trades" ELSE IF k = "trades" THEN "flows" ELSE "more")
        /\ (k = "return" => v2 \in {"full", "primary"}) /\ (k = "trades" => v2 = "full") /\ (k = "flows" => v2 \in {"full", "flows"})
  <2>1. CASE U!PublishReturn
    <3>1. v1 = "return" /\ v2 \in {"full", "primary"}
      BY <2>1 DEF U!PublishReturn, U!At, U!Informed, U!Places
    <3>2. U!Post(<<U!Primary, "return">>, IF v2 = "primary" THEN "finish" ELSE "trades")
      BY <2>1 DEF U!PublishReturn
    <3>3. CASE v2 = "primary"
      BY <3>1, <3>2, <3>3
    <3>4. CASE v2 = "full"
      BY <3>1, <3>2, <3>4
    <3> QED BY <3>1, <3>3, <3>4
  <2>2. CASE U!PublishTrades
    <3>1. v1 = "trades" /\ v2 = "full" /\ U!Post(<<U!Primary, "trades">>, "flows")
      BY <2>2 DEF U!PublishTrades, U!At, U!Informed, U!Places
    <3> QED BY <3>1
  <2>3. CASE U!PublishFlows
    <3>1. v1 = "flows" /\ v2 \in {"full", "flows"}
      BY <2>3 DEF U!PublishFlows, U!At, U!Informed, U!Places
    <3>2. U!Post(<<U!Primary, "flows">>, IF v2 = "flows" THEN "finish" ELSE "more")
      BY <2>3 DEF U!PublishFlows
    <3>3. CASE v2 = "flows"
      BY <3>1, <3>2, <3>3
    <3>4. CASE v2 = "full"
      BY <3>1, <3>2, <3>4
    <3> QED BY <3>1, <3>3, <3>4
  <2> QED BY <2>1, <2>2, <2>3
<1> DEFINE p == <<U!Primary, k>>
           next == IF v2 \in {"primary", "flows"} THEN "finish"
                   ELSE IF k = "return" THEN "trades" ELSE IF k = "trades" THEN "flows" ELSE "more"
<1>3. p \in U!Publishes /\ p \in U!Pairs
  BY <1>2 DEF U!Publishes, U!Pairs, U!Accounts, U!Publishing
<1>4. p \notin v9 /\ \A q \in v9 : q[1] = U!Primary
  BY <1>2 DEF U!IInv, U!PostedSoFar, U!Primary
<1>5. next \notin {"request", "read", "idle"} /\ v1 # "idle" /\ U!Post(p, next)
  BY <1>2
<1>6. next \in DOMAIN U!Places => v2 \in U!Places[next]
  BY <1>2 DEF U!Places
<1>7. p[1] = U!Primary /\ (k = "trades" => p = <<U!Primary, "trades">>) /\ (k # "trades" => p # <<U!Primary, "trades">>)
  OBVIOUS
<1>8. (next = "more" => k = "flows") /\ (next = "flows" => k = "trades") /\ next \notin {"moreflows", "return"}
      /\ (next = "finish" => v2 # "full")
  BY <1>2
<1> HIDE DEF p, next
<1>9. /\ U!Books' /\ v1' = next /\ v11'[p] # "" /\ \A q \in U!Pairs : q # p => v11'[q] = v11[q]
      /\ v9 \subseteq v9' /\ v9' \subseteq v9 \cup {p}
  BY <1>1, <1>3, <1>4, <1>5, FlexPostTells
<1>10. U!Rounds'
  <2>1. v2 = "full" /\ v1' = "flows" => v11'[<<U!Primary, "trades">>] # ""
    BY <1>7, <1>8, <1>9
  <2>2. v2 = "full" /\ v1' = "more" => v11'[<<U!Primary, "trades">>] # ""
    <3>1. <<U!Primary, "trades">> \in U!Pairs
      BY DEF U!Pairs
    <3>2. v2 = "full" /\ v1 = "flows" => v11[<<U!Primary, "trades">>] # ""
      BY DEF U!Informed, U!Rounds
    <3> QED BY <1>2, <1>7, <1>8, <1>9, <3>1, <3>2
  <2>3. v8 <= Len(v4.slots) + 1 /\ \A i \in 1..(v8 - 1) : FALSE
    BY <1>1, FlexShape
  <2>4. v1' # "moreflows" /\ v1' \notin {"request", "read", "return"} /\ v8' = 1 /\ v4' = v4 /\ v2' = v2
    BY <1>1, <1>5, <1>8, <1>9
  <2>5. v2 = "full" => v1' # "finish"
    BY <1>8, <1>9
  <2> QED BY <1>1, <2>1, <2>2, <2>3, <2>4, <2>5 DEF U!Rounds
<1>11. U!StopsWhenShared'
  <2>1. \A q \in v9' : q[1] = U!Primary
    BY <1>4, <1>7, <1>9
  <2>2. \A i \in DOMAIN v4.slots : v4.slots[i] # U!Primary
    BY FlexSlots, FlexShape
  <2>3. \A i \in DOMAIN v4.slots : <<v4.slots[i], "return">> \notin v9'
    BY <2>1, <2>2
  <2> QED BY <1>1, <2>3 DEF U!StopsWhenShared
<1> QED BY <1>1, <1>5, <1>6, <1>9, <1>10, <1>11, InformedPost

\* Another account has its turn.
LEMMA InformedAdditional == ASSUME U!IInv, U!Informed, U!PublishAdditional PROVE U!Informed'
<1> DEFINE p == <<U!Account, "return">>
<1>1. /\ v1 = "more" /\ v8 \in 1..Len(v4.slots) /\ ~U!Skip /\ U!Post(p, "moreflows") /\ UNCHANGED U!PostUnchanged /\ v8' = v8
      /\ v2' = v2 /\ v4' = v4 /\ v2 \in {"full", "additional"} /\ v1 \in DOMAIN U!Places
  <2>1. v1 = "more" /\ v8 <= Len(v4.slots) /\ ~U!Skip /\ U!Post(p, "moreflows") /\ UNCHANGED <<v8, U!PostUnchanged>>
    BY DEF U!PublishAdditional, U!At, U!More
  <2>2. v1 \in DOMAIN U!Places /\ v2 \in U!Places["more"]
    BY <2>1 DEF U!Informed, U!Places
  <2>3. v8 \in 1..Len(v4.slots)
    BY <2>1, FlexShape
  <2> QED BY <2>1, <2>2, <2>3 DEF U!PostUnchanged, U!Places
<1>2. p \in U!Pairs /\ U!Account # U!Primary /\ U!Account \in U!Accounts
  BY <1>1, FlexSlots DEF U!Account
<1>3. p \in U!Publishes
  BY <1>1, <1>2 DEF U!Publishes, U!Publishing
<1>4. \A i \in 1..Len(v4.slots) : i # v8 => v4.slots[i] # U!Account
  BY <1>1 DEF U!IInv, U!Apart, U!Account
<1>5. \A j \in 1..Len(v4.slots) : j >= v8 => <<v4.slots[j], "return">> \notin v9
  <2> SUFFICES ASSUME NEW j \in 1..Len(v4.slots), j >= v8, <<v4.slots[j], "return">> \in v9 PROVE FALSE
    OBVIOUS
  <2>1. v4.slots[j] # U!Primary
    BY FlexSlots
  <2>2. PICK i \in 1..(v8 - 1) : v4.slots[j] = v4.slots[i]
    BY <1>1, <2>1 DEF U!IInv, U!PostedSoFar
  <2>3. i \in 1..Len(v4.slots) /\ i # j
    BY <1>1, <2>2 DEF U!IInv
  <2> QED BY <2>2, <2>3 DEF U!IInv, U!Apart
<1>6. p \notin v9
  BY <1>1, <1>5 DEF U!Account
<1>7. p[1] = U!Account /\ p[2] = "return"
  OBVIOUS
<1>8. \A i \in 1..Len(v4.slots) : i # v8 => <<v4.slots[i], "return">> # p
  BY <1>4
<1>9. \A k \in {"return", "trades", "flows"} : <<U!Primary, k>> \in U!Pairs /\ <<U!Primary, k>> # p
  BY <1>2 DEF U!Pairs
<1>10. p = <<v4.slots[v8], "return">>
  BY DEF U!Account
<1> HIDE DEF p
<1>11. /\ U!Books' /\ v1' = "moreflows" /\ v11'[p] # "" /\ \A q \in U!Pairs : q # p => v11'[q] = v11[q]
       /\ v9 \subseteq v9' /\ v9' \subseteq v9 \cup {p}
  BY <1>1, <1>3, <1>6, FlexPostTells DEF U!Informed
<1>12. \A i \in 1..Len(v4.slots) : i # v8 => v11'[<<v4.slots[i], "return">>] = v11[<<v4.slots[i], "return">>]
  BY <1>8, <1>11, FlexSlots
<1>13. \A i \in 1..(v8 - 1) : U!NotStopped(i) /\ i \in 1..Len(v4.slots) /\ i # v8
  <2>1. \A i \in 1..(v8 - 1) : U!NotStopped(i)
    BY <1>1 DEF U!Informed, U!Rounds
  <2>2. \A i \in 1..(v8 - 1) : i \in 1..Len(v4.slots) /\ i # v8
    BY <1>1, FlexShape
  <2> QED BY <2>1, <2>2
<1>14. \A k \in {"return", "trades", "flows"} : v11'[<<U!Primary, k>>] = v11[<<U!Primary, k>>]
  BY <1>9, <1>11
<1>15. U!Rounds'
  <2>1. \A i \in 1..(v8 - 1) : U!NotStopped(i)'
    BY <1>1, <1>12, <1>13 DEF U!NotStopped, U!Tried
  <2>2. U!Tried(v8)'
    BY <1>1, <1>10, <1>11 DEF U!Tried
  <2>3. v2 = "full" => v11'[<<U!Primary, "trades">>] # ""
    BY <1>1, <1>14 DEF U!Informed, U!Rounds
  <2>4. v8 <= Len(v4.slots) + 1
    BY <1>1
  <2> QED BY <1>1, <1>11, <2>1, <2>2, <2>3, <2>4 DEF U!Rounds
<1>16. U!StopsWhenShared'
  <2> SUFFICES ASSUME NEW i \in DOMAIN v4.slots, NEW j \in DOMAIN v4.slots
               PROVE  /\ (i < j /\ v11'[<<v4.slots[i], "return">>] \in {"rejected", "http"}) => <<v4.slots[j], "return">> \notin v9'
                      /\ (v2 = "full" /\ <<v4.slots[j], "return">> \in v9') =>
                           \A k \in {"return", "trades", "flows"} : v11'[<<U!Primary, k>>] \notin {"unsure", "http", "rejected"}
    BY <1>1 DEF U!StopsWhenShared
  <2>0. i \in 1..Len(v4.slots) /\ j \in 1..Len(v4.slots)
    BY DEF U!IInv
  <2>1. i < v8 => v11'[<<v4.slots[i], "return">>] \notin {"rejected", "http"}
    <3> SUFFICES ASSUME i < v8 PROVE v11'[<<v4.slots[i], "return">>] \notin {"rejected", "http"}
      OBVIOUS
    <3>1. i \in 1..(v8 - 1)
      BY <1>1, <2>0
    <3>2. i # v8 /\ U!NotStopped(i)
      BY <1>13, <3>1
    <3> QED BY <1>12, <2>0, <3>2 DEF U!NotStopped, U!Stops
  <2>2. j > v8 => <<v4.slots[j], "return">> \notin v9'
    <3> SUFFICES ASSUME j > v8 PROVE <<v4.slots[j], "return">> \notin v9'
      OBVIOUS
    <3>1. <<v4.slots[j], "return">> # p /\ j >= v8
      BY <1>1, <1>8, <2>0, FlexShape
    <3> QED BY <1>1, <1>5, <1>11, <2>0, <3>1
  <2>3. i < j => i < v8 \/ j > v8
    BY <1>1, <2>0
  <2>4. v2 = "full" => \A k \in {"return", "trades", "flows"} : v11[<<U!Primary, k>>] \notin {"unsure", "http", "rejected"}
    BY <1>1 DEF U!Skip, U!FailedPrimary, U!Failed
  <2> QED BY <1>14, <2>1, <2>2, <2>3, <2>4
<1> QED BY <1>1, <1>11, <1>15, <1>16, InformedPost DEF U!Places

LEMMA InformedFlows == ASSUME U!IInv, U!Informed, U!AdditionalFlows PROVE U!Informed'
<1> DEFINE p == <<U!Account, "flows">>
<1>1. /\ v1 = "moreflows" /\ v8 \in 1..Len(v4.slots) /\ U!Post(p, "more") /\ UNCHANGED U!PostUnchanged /\ v8' = v8 + 1
      /\ v2' = v2 /\ v4' = v4 /\ v2 = "full" /\ v1 \in DOMAIN U!Places
      /\ v11[<<U!Account, "return">>] \in {"ok", "unavailable"}
  BY DEF U!AdditionalFlows, U!At, U!FlowsToo, U!PostUnchanged, U!Places, U!IInv
<1>2. p \in U!Pairs /\ U!Account # U!Primary /\ U!Account \in U!Accounts
  BY <1>1, FlexSlots DEF U!Account
<1>3. p \in U!Publishes
  BY <1>1, <1>2 DEF U!Publishes, U!Publishing
<1>4. p \notin v9
  <2> SUFFICES ASSUME p \in v9 PROVE FALSE
    OBVIOUS
  <2>1. PICK i \in 1..(v8 - 1) : U!Account = v4.slots[i]
    BY <1>1, <1>2 DEF U!IInv, U!PostedSoFar
  <2>2. i \in 1..Len(v4.slots) /\ i # v8 /\ v8 \in 1..Len(v4.slots)
    BY <1>1, <2>1
  <2> QED BY <2>1, <2>2 DEF U!IInv, U!Apart, U!Account
<1>5. \A a : <<a, "return">> # p /\ <<a, "trades">> # p
  OBVIOUS
<1>6. <<U!Primary, "flows">> # p /\ \A k \in {"return", "trades", "flows"} : <<U!Primary, k>> \in U!Pairs
  BY <1>2 DEF U!Pairs
<1> HIDE DEF p
<1>7. /\ U!Books' /\ v1' = "more" /\ v11'[p] # "" /\ \A q \in U!Pairs : q # p => v11'[q] = v11[q]
      /\ v9 \subseteq v9' /\ v9' \subseteq v9 \cup {p}
  BY <1>1, <1>3, <1>4, FlexPostTells DEF U!Informed
<1>8. \A i \in 1..Len(v4.slots) : v11'[<<v4.slots[i], "return">>] = v11[<<v4.slots[i], "return">>]
  BY <1>5, <1>7, FlexSlots
<1>9. \A k \in {"return", "trades", "flows"} : v11'[<<U!Primary, k>>] = v11[<<U!Primary, k>>]
  BY <1>5, <1>6, <1>7
<1>10. U!Rounds'
  <2>0. \A i \in 1..(v8 - 1) : i \in 1..Len(v4.slots)
    BY <1>1, FlexShape
  <2>1. \A i \in 1..(v8 - 1) : U!NotStopped(i) /\ i \in 1..Len(v4.slots)
    BY <1>1, <2>0 DEF U!Informed, U!Rounds
  <2>2. U!NotStopped(v8)
    BY <1>1 DEF U!NotStopped, U!Tried, U!Stops, U!Account
  <2>3. \A i \in 1..v8 : U!NotStopped(i) /\ i \in 1..Len(v4.slots)
    BY <1>1, <2>1, <2>2
  <2>4. \A i \in 1..v8 : U!NotStopped(i)'
    BY <1>1, <1>8, <2>3 DEF U!NotStopped, U!Tried
  <2>5. v8' - 1 = v8 /\ v8' <= Len(v4.slots) + 1
    BY <1>1
  <2>6. v11'[<<U!Primary, "trades">>] # ""
    BY <1>1, <1>9 DEF U!Informed, U!Rounds
  <2> QED BY <1>1, <1>7, <2>4, <2>5, <2>6 DEF U!Rounds
<1>11. U!StopsWhenShared'
  <2>1. \A i \in DOMAIN v4.slots : <<v4.slots[i], "return">> \in v9' => <<v4.slots[i], "return">> \in v9
    BY <1>5, <1>7
  <2>2. DOMAIN v4.slots = 1..Len(v4.slots)
    BY DEF U!IInv
  <2> QED BY <1>1, <1>8, <1>9, <2>1, <2>2 DEF U!Informed, U!StopsWhenShared
<1> QED BY <1>1, <1>7, <1>10, <1>11, InformedPost DEF U!Places

LEMMA InformedMoves == ASSUME U!IInv, U!Informed, U!NextAdditional \/ U!NoMore PROVE U!Informed'
<1>1. UNCHANGED <<v2, v3, v4, v5, v9, v11, v12, v13>> /\ v2 \in {"full", "additional"} /\ v1 \in {"more", "moreflows"}
  <2>1. UNCHANGED <<v2, v3, v4, v5, v9, v11, v12, v13>> /\ v1 \in {"more", "moreflows"}
    BY DEF U!NextAdditional, U!NoMore, U!At, U!Kept, U!PostUnchanged
  <2>2. v1 \in DOMAIN U!Places /\ v2 \in U!Places[v1]
    BY <2>1 DEF U!Informed, U!Places
  <2> QED BY <2>1, <2>2 DEF U!Places
<1>2. v1' \in {"more", "finish"}
  BY DEF U!NextAdditional, U!NoMore, U!Go
<1>3. U!SuccessIsHeld' /\ U!ReadingIsAsked'
  BY <1>1 DEF U!Informed, U!SuccessIsHeld, U!ReadingIsAsked, U!Reading
<1>4. U!Rounds'
  <2>1. CASE U!NextAdditional
    <3>1. /\ v1 = "moreflows" /\ v8 \in 1..Len(v4.slots) /\ v8' = v8 + 1
          /\ (v1' = "finish" /\ U!Stops(v11[<<U!Account, "return">>])) \/ (v1' = "more" /\ ~U!Stops(v11[<<U!Account, "return">>]))
      BY <2>1 DEF U!NextAdditional, U!At, U!Go, U!IInv
    <3>2. U!Tried(v8) /\ \A i \in 1..(v8 - 1) : U!NotStopped(i)
      BY <3>1 DEF U!Informed, U!Rounds
    <3>3. v1' = "more" => \A i \in 1..v8 : U!NotStopped(i)
      BY <3>1, <3>2 DEF U!NotStopped, U!Account
    <3>4. v8' - 1 = v8 /\ v8' <= Len(v4.slots) + 1 /\ v8 \in DOMAIN v4.slots
      BY <3>1 DEF U!IInv
    <3>5. v2 = "full" => v11[<<U!Primary, "trades">>] # ""
      BY <3>1 DEF U!Informed, U!Rounds
    <3>6. v1' = "finish" => \E i \in DOMAIN v4.slots : U!Stops(v11[<<v4.slots[i], "return">>])
      BY <3>1, <3>4 DEF U!Account
    <3> QED BY <1>1, <1>2, <3>3, <3>4, <3>5, <3>6 DEF U!Rounds, U!NotStopped, U!Tried
  <2>2. CASE U!NoMore
    <3>1. v1 = "more" /\ v1' = "finish" /\ ~(v8 <= Len(v4.slots) /\ ~U!Skip)
      BY <2>2 DEF U!NoMore, U!At, U!Go, U!More
    <3>2. v2 = "full" => U!FailedPrimary \/ \A i \in DOMAIN v4.slots : U!Tried(i)
      <4>1. \A i \in 1..(v8 - 1) : U!NotStopped(i)
        BY <3>1 DEF U!Informed, U!Rounds
      <4>2. ~(v8 <= Len(v4.slots)) => \A i \in DOMAIN v4.slots : i \in 1..(v8 - 1)
        BY DEF U!IInv
      <4> QED BY <3>1, <4>1, <4>2 DEF U!NotStopped, U!Skip
    <3>3. v2 = "full" => v11[<<U!Primary, "trades">>] # ""
      BY <3>1 DEF U!Informed, U!Rounds
    <3> QED BY <1>1, <3>1, <3>2, <3>3 DEF U!Rounds, U!Tried, U!FailedPrimary
  <2> QED BY <2>1, <2>2
<1>5. v1' \in DOMAIN U!Places => v2 \in U!Places[v1']
  BY <1>1, <1>2 DEF U!Places
<1>6. v1 \in DOMAIN U!Places /\ v1 # "idle"
  BY <1>1 DEF U!Places
<1> QED BY <1>1, <1>2, <1>3, <1>4, <1>5, <1>6, InformedSame

\* The exit code.
LEMMA InformedFinish == ASSUME U!IInv, U!Informed, U!Finish PROVE U!Informed'
<1>1. /\ v1 = "finish" /\ v1' = "idle" /\ UNCHANGED <<v2, v3, v4, v5, v9, v11, v12>>
      /\ v13' = IF v2 \in U!Publishing THEN U!Code ELSE IF U!Reported THEN "0" ELSE "1"
  BY DEF U!Finish, U!At, U!Go
<1>2. \A p \in v9 : p \in U!Publishes /\ p \in U!Pairs /\ v11[p] \in {"ok", "rejected", "http", "unsure"}
  BY DEF U!Informed, U!Books, U!Publishes
<1>3. \A p \in U!Pairs : (v11[p] = "ok" => p \in v12) /\ (v11[p] # "" /\ U!Owed(p[1], p[2]) => p \in v9)
  BY DEF U!Informed, U!Books
<1>4. U!ReadingIsAsked'
  <2>1. v2 \in U!Reading => v9 = {}
    BY DEF U!Informed, U!ReadingIsAsked
  <2>2. v2 \in U!Reading /\ v13' = "0" => U!AskedFor
    BY <1>1 DEF U!Reported, U!Reading, U!Publishing
  <2>3. v2 \in U!Reading => U!Primary \in U!Targets
    BY DEF U!Targets, U!Reading
  <2> QED BY <1>1, <2>1, <2>2, <2>3 DEF U!ReadingIsAsked, U!AskedFor
<1>5. ASSUME v2 \in U!Publishing, U!Code = "0"
      PROVE  /\ v9 \subseteq v12 /\ \A a \in U!Wanted : <<a, IF v2 = "flows" THEN "flows" ELSE "return">> \in v12
             /\ (v2 = "full" /\ U!Owed(U!Primary, "trades")) => <<U!Primary, "trades">> \in v12
  <2>1. \A k \in {"return", "trades", "flows"} : <<U!Primary, k>> \in U!Pairs
    BY DEF U!Pairs
  <2>2. \A a \in U!Rows(v4.slots) : <<a, "return">> \in U!Pairs /\ \E i \in DOMAIN v4.slots : a = v4.slots[i]
    BY FlexSlots, FlexShape DEF U!Rows
  <2>3. CASE v2 = "primary"
    <3>1. v11[<<U!Primary, "return">>] = "ok"
      BY <1>5, <2>3 DEF U!Code, U!Good
    <3>2. v9 \subseteq {<<U!Primary, "return">>}
      BY <1>2, <2>3 DEF U!Publishes
    <3>3. U!Wanted = {U!Primary}
      BY <2>3 DEF U!Wanted
    <3> QED BY <1>3, <2>1, <2>3, <3>1, <3>2, <3>3
  <2>4. CASE v2 = "flows"
    <3>1. v11[<<U!Primary, "flows">>] = "ok"
      BY <1>5, <2>4 DEF U!Code, U!Good
    <3>2. v9 \subseteq {<<U!Primary, "flows">>}
      BY <1>2, <2>4 DEF U!Publishes
    <3>3. U!Wanted = {U!Primary}
      BY <2>4 DEF U!Wanted
    <3> QED BY <1>3, <2>1, <2>4, <3>1, <3>2, <3>3
  <2>5. CASE v2 = "additional"
    <3>1. \A a \in U!Rows(v4.slots) : v11[<<a, "return">>] = "ok"
      BY <1>5, <2>5 DEF U!Code, U!Good
    <3>2. U!Wanted = U!Rows(v4.slots)
      BY <2>5 DEF U!Wanted
    <3>3. \A p \in v9 : p = <<p[1], "return">> /\ p[1] \in U!Rows(v4.slots)
      BY <1>2, <2>5, FlexPairs DEF U!Publishes, U!Accounts
    <3> QED BY <1>3, <2>2, <2>5, <3>1, <3>2, <3>3
  <2>6. CASE v2 = "full"
    <3>1. ~U!FailedPrimary /\ \A a \in U!Rows(v4.slots) : v11[<<a, "return">>] \in {"", "ok"} /\ v11[<<a, "flows">>] \notin U!Failed
      BY <1>5, <2>6 DEF U!Code
    <3>2. v11[<<U!Primary, "return">>] = "ok" /\ \A k \in {"trades", "flows"} : v11[<<U!Primary, k>>] \notin U!Failed
      BY <3>1 DEF U!FailedPrimary
    <3>3. \A i \in DOMAIN v4.slots : v4.slots[i] \in U!Rows(v4.slots)
      BY DEF U!Rows
    <3>4. \A i \in DOMAIN v4.slots : U!Tried(i)
      BY <1>1, <2>6, <3>1, <3>3 DEF U!Informed, U!Rounds, U!Stops
    <3>5. \A a \in U!Rows(v4.slots) : v11[<<a, "return">>] = "ok"
      BY <2>2, <3>1, <3>4 DEF U!Tried
    <3>6. U!Wanted = {U!Primary} \cup U!Rows(v4.slots)
      BY <2>6 DEF U!Wanted
    <3>7. ASSUME NEW p \in v9 PROVE p \in v12
      <4>1. p \in U!Pairs /\ p = <<p[1], p[2]>> /\ p[2] \in {"return", "trades", "flows"} /\ p[1] \in {U!Primary} \cup U!Rows(v4.slots)
            /\ (p[2] = "trades" => p[1] = U!Primary)
        BY <1>2, <3>7, FlexPairs DEF U!Publishes, U!Accounts
      <4>2. v11[p] \in {"ok", "rejected", "http", "unsure"}
        BY <1>2, <3>7
      <4>3. p[2] = "return" => v11[p] = "ok"
        BY <3>2, <3>5, <4>1
      <4>4. p[2] # "return" => v11[p] \notin U!Failed
        BY <3>1, <3>2, <4>1
      <4>5. v11[p] = "ok"
        BY <4>2, <4>3, <4>4 DEF U!Failed
      <4> QED BY <1>3, <4>1, <4>5
    <3>8. ASSUME U!Owed(U!Primary, "trades") PROVE <<U!Primary, "trades">> \in v12
      <4> DEFINE p == <<U!Primary, "trades">>
      <4>1. v11[p] # ""
        BY <1>1, <2>6 DEF U!Informed, U!Rounds
      <4>2. p \in U!Pairs /\ p[1] = U!Primary /\ p[2] = "trades"
        BY <2>1
      <4> HIDE DEF p
      <4>3. p \in v9
        BY <1>3, <3>8, <4>1, <4>2
      <4> QED BY <3>7, <4>3 DEF p
    <3>9. \A a \in U!Wanted : v11[<<a, "return">>] = "ok" /\ <<a, "return">> \in U!Pairs
      BY <2>1, <2>2, <3>2, <3>5, <3>6
    <3> QED BY <1>3, <2>6, <3>7, <3>8, <3>9
  <2> QED BY <1>5, <2>3, <2>4, <2>5, <2>6 DEF U!Publishing
<1>6. U!SuccessIsHeld'
  <2>1. U!Wanted' = U!Wanted /\ (U!Owed(U!Primary, "trades")' <=> U!Owed(U!Primary, "trades"))
    BY <1>1 DEF U!Wanted, U!Owed, U!Unsendable, U!Mismatch
  <2> QED BY <1>1, <1>5, <2>1 DEF U!SuccessIsHeld
<1>7. U!Rounds' /\ v1' \notin DOMAIN U!Places
  BY <1>1 DEF U!Rounds, U!Places
<1> QED BY <1>1, <1>4, <1>6, <1>7, InformedSame

LEMMA InformedStep == ASSUME U!IInv, U!Informed, U!Next \/ UNCHANGED vars PROVE U!Informed'
<1>1. CASE UNCHANGED vars
  <2>1. U!Books'
    BY <1>1 DEF vars, U!Informed, U!Books, U!Publishes, U!Accounts, U!Owed, U!Unsendable, U!Mismatch
  <2>2. U!Rounds'
    BY <1>1 DEF vars, U!Informed, U!Rounds, U!NotStopped, U!Tried, U!FailedPrimary
  <2>3. U!SuccessIsHeld'
    BY <1>1 DEF vars, U!Informed, U!SuccessIsHeld, U!Wanted, U!Owed, U!Unsendable, U!Mismatch
  <2>4. U!ReadingIsAsked' /\ U!StopsWhenShared'
    BY <1>1 DEF vars, U!Informed, U!ReadingIsAsked, U!StopsWhenShared
  <2>5. (U!AllVerified' <=> U!AllVerified) /\ (U!OwnKeys(v4)' <=> U!OwnKeys(v4))
    BY <1>1 DEF vars, U!AllVerified, U!Verified, U!Targets, U!OwnKeys
  <2> QED BY <1>1, <2>1, <2>2, <2>3, <2>4, <2>5 DEF vars, U!Informed
<1> QED BY <1>1, InformedDispatch, InformedReads, InformedPrimary, InformedAdditional, InformedFlows, InformedMoves, InformedFinish DEF U!Next

\* What was posted had been verified.
LEMMA InformedHolds == ASSUME U!Informed PROVE U!PostedIsVerified /\ U!StopsWhenShared /\ U!SuccessIsHeld /\ U!ReadingIsAsked
<1>1. ASSUME v9 # {}
      PROVE  /\ v5.scope \subseteq U!Approved /\ \A a \in U!Wanted : a \in v5.scope /\ ~v5.of[a].stray
             /\ (v3 => \A p \in v9 : p[2] # "flows" => v5.of[p[1]].period = "asked")
  <2>1. U!AllVerified /\ v2 \in U!Publishing
    BY <1>1 DEF U!Informed, U!Books, U!Publishes
  <2>2. U!Wanted \subseteq U!Targets /\ U!Primary \in U!Targets
    BY <2>1 DEF U!Wanted, U!Targets, U!Publishing
  <2>3. \A p \in v9 : ~U!Mismatch(p[1], p[2])
    BY DEF U!Informed, U!Books, U!Owed
  <2> QED BY <2>1, <2>2, <2>3 DEF U!AllVerified, U!Verified, U!Mismatch
<1> QED BY <1>1 DEF U!PostedIsVerified, U!Informed

----------------------------------------------------------------------------
(* How a drawdown was measured before a buy.                               *)

\* What an account and a strategy say are numbers, and a peak is positive.
LEMMA RiskIsReadable == V!Readable
<1> DEFINE good(r) == V!Numbers(r)
           said(f) == good(f.nat) /\ good(f.meta) /\ good(f.proj)
<1>1. DOMAIN Silent = {"eq", "peak", "dd", "at", "pend", "brk", "obs", "drift", "vol", "loss", "max"}
      /\ Silent.eq = -9 /\ Silent.peak = -9 /\ Silent.dd = -9
  BY DEF Silent
<1> DEFINE able(x, y) ==
             /\ good(Read(x, y)) /\ good([Read(x, y) EXCEPT !.vol = 1])
             /\ \A z : good([Read(x, y) EXCEPT !.pend = z]) /\ good([Read(x, y) EXCEPT !.loss = z])
             /\ \A z \in Int : good([Read(x, y) EXCEPT !.dd = z])
<1>2. ASSUME NEW x \in Int, NEW y \in Int, y > 0 \/ y = -9 \/ y = -8
      PROVE  able(x, y)
  <2>1. DOMAIN Read(x, y) = DOMAIN Silent /\ Read(x, y).eq = x /\ Read(x, y).peak = y /\ Read(x, y).dd = -9
    BY <1>1, <1>2 DEF Read
  <2> QED BY <1>1, <1>2, <2>1 DEF V!Numbers, V!None, V!Bad
<1>3. /\ good(Silent) /\ \A z : good([Silent EXCEPT !.pend = z]) /\ good([Silent EXCEPT !.max = z])
      /\ \A y : \A x \in Int : good(Old(x, y))
  BY <1>1 DEF Old, V!Numbers, V!None, V!Bad
<1> HIDE DEF able
<1>4. able(3, 3) /\ able(1, 3) /\ able(2, 3) /\ able(3, -9) /\ able(-8, 3) /\ able(3, -8) /\ able(-9, 3)
  BY <1>2
<1> HIDE DEF good
<1>5. 0 \in Int /\ -8 \in Int
  OBVIOUS
<1>6. /\ good([Read(3, -9) EXCEPT !.dd = 0]) /\ good([Read(3, -9) EXCEPT !.dd = -8])
      /\ good(Read(3, 3)) /\ good(Read(1, 3)) /\ good(Read(2, 3)) /\ good(Read(3, -9)) /\ good(Read(-8, 3))
      /\ good(Read(3, -8)) /\ good(Read(-9, 3)) /\ good([Read(2, 3) EXCEPT !.vol = 1])
      /\ \A z : good([Read(3, 3) EXCEPT !.pend = z]) /\ good([Read(3, 3) EXCEPT !.loss = z])
  BY <1>4, <1>5, Zenon DEF able
<1>7. good(Old(0, 0)) /\ good(Old(0, 1)) /\ good(Old(0, 2)) /\ good(Old(0, -1)) /\ good(Old(2, 0))
  BY <1>3
<1>8. ASSUME NEW n, NEW m, NEW j, good(n), good(m), good(j)
      PROVE  said(Told(n, m, j))
  BY <1>8 DEF Told
<1> HIDE DEF said
<1>9. \A f \in Situations : said(f)
  BY <1>3, <1>6, <1>7, <1>8, Zenon DEF Situations
<1> QED BY <1>9 DEF V!Readable, said, good

LEMMA DataFit == V!Sensible /\ V!Readable
BY RiskIsSensible, RiskIsReadable

\* What is admitted was measured.
LEMMA MeasuredOnce ==
  ASSUME NEW n, NEW m, NEW j, NEW t, V!Fit(n), V!Fit(m), V!Fit(j), V!Numbers(n), V!Numbers(m), V!Numbers(j)
  PROVE  LET c == V!Cache(n, m, j)
             p == V!Portfolio(n, m)
             once == V!Project(p, c, t)
             late == [p EXCEPT !.peak = V!First(@, m.peak), !.vol = V!First(@, m.vol)] IN
         /\ p.eq = n.eq /\ p.dd = n.dd /\ p.at = n.at /\ p.peak = n.peak
         /\ \A k \in {"pend", "brk", "obs", "drift"} : p[k] = V!First(n[k], m[k]) /\ late[k] = p[k]
         /\ late.eq = n.eq /\ late.dd = n.dd /\ late.at = n.at /\ late.peak = V!First(n.peak, m.peak)
         /\ DOMAIN once = DOMAIN V!Unseen
         /\ once.pend = j.pend /\ once.peak = V!First(n.peak, V!First(m.peak, j.peak))
         /\ V!Unsafe(j.brk) => V!Unsafe(once.brk)
         /\ (once.dd >= 0 /\ ~V!Given(n.dd) /\ ~V!Given(n.peak) /\ ~V!Given(m.peak) /\ ~V!Given(j.peak)) =>
              \E r \in {m, j} : once.dd = r.dd /\ once.at = r.at
<1> DEFINE c == V!Cache(n, m, j)
           p == V!Portfolio(n, m)
           once == V!Project(p, c, t)
           late == [p EXCEPT !.peak = V!First(p.peak, m.peak), !.vol = V!First(p.vol, m.vol)]
<1>1. /\ DOMAIN p = DOMAIN V!Unseen /\ p.eq = n.eq /\ p.dd = n.dd /\ p.at = n.at /\ p.peak = n.peak
      /\ p.pend = V!First(n.pend, m.pend) /\ p.brk = V!First(n.brk, m.brk)
      /\ p.obs = V!First(n.obs, m.obs) /\ p.drift = V!First(n.drift, m.drift)
  BY DEF V!Portfolio, V!Fit, V!Unseen
<1>2. /\ late.eq = p.eq /\ late.dd = p.dd /\ late.at = p.at /\ late.peak = V!First(p.peak, m.peak)
      /\ late.pend = p.pend /\ late.brk = p.brk /\ late.obs = p.obs /\ late.drift = p.drift
  BY <1>1 DEF V!Unseen
<1>3. /\ DOMAIN c = DOMAIN V!Unseen /\ c.eq = n.eq /\ c.peak = V!First(n.peak, V!First(m.peak, j.peak))
      /\ c.pend = j.pend /\ c.brk = j.brk /\ c.obs = j.obs /\ c.drift = j.drift
      /\ c.dd = (IF V!Given(n.dd) \/ V!Given(n.peak) THEN n.dd ELSE IF V!Given(m.dd) THEN m.dd ELSE j.dd)
      /\ ~V!Given(n.dd) => c.at = IF V!Given(m.dd) THEN m.at ELSE j.at
  BY DEF V!Cache, V!Fit, V!Unseen
<1> HIDE DEF c, p
<1>4. /\ DOMAIN once = DOMAIN V!Unseen /\ once.pend = c.pend /\ once.peak = V!First(p.peak, c.peak)
      /\ V!Unsafe(c.brk) => V!Unsafe(once.brk)
      /\ once.at = IF V!Given(p.dd) THEN p.at ELSE c.at
  <2>1. DOMAIN once = DOMAIN V!Unseen /\ once.pend = c.pend
    BY <1>3 DEF V!Project, V!Unseen
  <2>2. once.peak = V!First(p.peak, c.peak)
    BY <1>3 DEF V!Project, V!Unseen
  <2>3. once.at = IF V!Given(p.dd) THEN p.at ELSE c.at
    BY <1>3 DEF V!Project, V!Unseen
  <2>4. once.brk = IF (V!Unsafe(p.brk) \/ V!Unsafe(c.brk)) \/ V!Pending(p, c) THEN 1 ELSE V!First(c.brk, 0)
    BY <1>3 DEF V!Project, V!Unseen
  <2>5. V!Unsafe(c.brk) => V!Unsafe(once.brk)
    BY <2>4 DEF V!Unsafe, V!None
  <2> QED BY <2>1, <2>2, <2>3, <2>5
<1>5. ASSUME once.dd >= 0, ~V!Given(n.dd), ~V!Given(n.peak), ~V!Given(m.peak), ~V!Given(j.peak)
      PROVE  \E r \in {m, j} : once.dd = r.dd /\ once.at = r.at
  <2>1. ~(V!First(p.peak, c.peak) > 0) /\ ~(p.dd >= 0) /\ ~V!Given(p.peak) /\ ~V!Given(p.dd)
    BY <1>1, <1>3, <1>5 DEF V!First, V!Given, V!None
  <2>2. once.dd = IF p.dd >= 0 THEN p.dd ELSE V!Measured(IF p.eq > 0 THEN p.eq ELSE V!None, V!First(p.peak, c.peak), c.dd, c.at, t)
    BY <1>3, <2>1 DEF V!Project, V!Unseen
  <2>3. once.dd = c.dd
    BY <1>5, <2>1, <2>2 DEF V!Measured, V!None
  <2> QED BY <1>3, <1>4, <1>5, <2>1, <2>3
<1>6. V!First(p.peak, c.peak) = V!First(n.peak, V!First(m.peak, j.peak))
  BY <1>1, <1>3 DEF V!First
<1> HIDE DEF once, late
<1>7. /\ \A k \in {"pend", "brk", "obs", "drift"} : p[k] = V!First(n[k], m[k]) /\ late[k] = p[k]
  BY <1>1, <1>2
<1> QED BY <1>1, <1>2, <1>3, <1>4, <1>5, <1>6, <1>7 DEF once, late, c, p

LEMMA MeasuredTwice ==
  ASSUME NEW n, NEW m, NEW j, NEW t, NEW max, V!Fit(n), V!Fit(m), V!Fit(j), V!Numbers(n), V!Numbers(m), V!Numbers(j),
         NEW sx, sx.meta = m, sx.proj = j, ~V!Evaluate(V!Snapshot(n, sx, t), max).no
  PROVE  /\ n.eq > 0
         /\ \A v \in {n.pend, n.brk, n.obs, n.drift, j.pend, j.brk} : ~V!Unsafe(v)
         /\ IF n.dd >= 0 THEN n.dd < V!Brake
            ELSE IF n.peak > 0 THEN n.peak > 0 /\ n.peak - n.eq < V!Brake
            ELSE \/ m.peak > 0 /\ m.peak - n.eq < V!Brake
                 \/ j.peak > 0 /\ j.peak - n.eq < V!Brake
                 \/ \E r \in {m, j} : V!Young(r, t)
<1> DEFINE c == V!Cache(n, m, j)
           p == V!Portfolio(n, m)
           once == V!Project(p, c, t)
           late == [p EXCEPT !.peak = V!First(p.peak, m.peak), !.vol = V!First(p.vol, m.vol)]
           s == V!Project(late, once, t)
           eq == IF n.eq > 0 THEN n.eq ELSE V!None
           peak == V!First(n.peak, V!First(m.peak, j.peak))
           alone == V!Given(late.peak) /\ ~V!Given(n.dd) /\ ~V!Given(once.dd)
           ex == IF V!Given(n.dd) THEN late ELSE once
           dd == IF n.dd >= 0 THEN n.dd ELSE V!Measured(eq, peak, ex.dd, ex.at, t)
<1>1. s = V!Snapshot(n, sx, t)
  BY DEF V!Snapshot
<1>2. /\ p.eq = n.eq /\ p.dd = n.dd /\ p.at = n.at /\ p.peak = n.peak
      /\ \A k \in {"pend", "brk", "obs", "drift"} : p[k] = V!First(n[k], m[k]) /\ late[k] = p[k]
      /\ late.eq = n.eq /\ late.dd = n.dd /\ late.at = n.at /\ late.peak = V!First(n.peak, m.peak)
      /\ DOMAIN once = DOMAIN V!Unseen
      /\ once.pend = j.pend /\ once.peak = peak
      /\ V!Unsafe(j.brk) => V!Unsafe(once.brk)
      /\ (once.dd >= 0 /\ ~V!Given(n.dd) /\ ~V!Given(n.peak) /\ ~V!Given(m.peak) /\ ~V!Given(j.peak)) =>
           \E r \in {m, j} : once.dd = r.dd /\ once.at = r.at
  BY MeasuredOnce
<1> HIDE DEF c, p, once, late
<1>3. V!First(late.peak, once.peak) = peak
  BY <1>2 DEF V!First
<1>4. /\ s.eq = eq /\ s.peak = peak /\ s.dd = IF alone THEN V!None ELSE dd
      /\ s.obs = IF (~V!Given(eq) \/ (~V!Given(dd) /\ ~alone)) \/ V!Pending(late, once) \/ V!Unsafe(late.obs) THEN 1 ELSE V!First(once.obs, 0)
      /\ s.brk = IF (V!Unsafe(late.brk) \/ V!Unsafe(once.brk)) \/ V!Pending(late, once) THEN 1 ELSE V!First(once.brk, 0)
      /\ s.drift = V!First(late.drift, once.drift)
  BY <1>2, <1>3 DEF V!Project, V!Unseen
<1>5. ~V!Evaluate(s, max).no
  BY <1>1
<1> HIDE DEF s
<1>6. /\ s.eq > 0 /\ s.peak # V!Bad /\ ~V!Unsafe(s.obs) /\ ~V!Unsafe(s.brk) /\ ~V!Unsafe(s.drift)
      /\ ~((IF s.dd >= 0 THEN s.dd ELSE IF s.eq > 0 /\ s.peak > 0 THEN V!Larger(0, s.peak - s.eq) ELSE V!None) >= V!Brake)
  BY <1>5 DEF V!Evaluate
<1>7. n.eq > 0 /\ eq = n.eq
  BY <1>4, <1>6 DEF V!None
<1>8. /\ (V!Given(dd) \/ alone) /\ ~V!Unsafe(late.pend) /\ ~V!Unsafe(once.pend) /\ ~V!Unsafe(late.obs)
      /\ ~V!Unsafe(late.brk) /\ ~V!Unsafe(once.brk)
  BY <1>4, <1>6 DEF V!Unsafe, V!Pending, V!None
<1>9. \A v \in {n.pend, n.brk, n.obs, n.drift, j.pend, j.brk} : ~V!Unsafe(v)
  BY <1>2, <1>4, <1>6, <1>8 DEF V!Unsafe, V!First, V!Given
<1>10. {n.eq, n.dd, n.peak, m.peak, j.peak, peak, eq} \subseteq Int
  BY DEF V!Numbers, V!First, V!None
<1>11. CASE n.dd >= 0
  <2>1. ~alone /\ dd = n.dd
    BY <1>11 DEF V!Given, V!None
  <2> QED BY <1>4, <1>6, <1>7, <1>9, <1>10, <1>11, <2>1 DEF V!Brake
<1>12. ASSUME ~(n.dd >= 0), peak > 0
       PROVE  peak - n.eq < V!Brake
  <2>1. dd = V!Larger(0, peak - n.eq)
    BY <1>7, <1>12 DEF V!Measured
  <2>2. V!Larger(0, peak - n.eq) >= 0 /\ V!Larger(0, peak - n.eq) >= peak - n.eq /\ V!Larger(0, peak - n.eq) \in Int
    BY <1>10 DEF V!Larger
  <2>3. ~(V!Larger(0, peak - n.eq) >= V!Brake)
    BY <1>4, <1>6, <1>7, <1>12, <2>1, <2>2 DEF V!None
  <2> QED BY <1>10, <2>2, <2>3 DEF V!Brake
<1>13. CASE ~(n.dd >= 0) /\ n.peak > 0
  <2>1. peak = n.peak
    BY <1>13 DEF V!First, V!Given, V!None
  <2> QED BY <1>7, <1>9, <1>12, <1>13, <2>1
<1>14. CASE ~(n.dd >= 0) /\ ~(n.peak > 0)
  <2>1. n.peak = V!None
    BY <1>4, <1>6, <1>14 DEF V!Numbers, V!First, V!Given, V!None, V!Bad
  <2>2. peak = V!First(m.peak, j.peak)
    BY <2>1 DEF V!First, V!Given
  <2>3. CASE peak > 0
    <3>1. peak \in {m.peak, j.peak}
      BY <2>2 DEF V!First
    <3> QED BY <1>7, <1>9, <1>12, <1>14, <2>3, <3>1
  <2>4. CASE ~(peak > 0)
    <3>1. m.peak = V!None /\ j.peak = V!None
      BY <1>4, <1>6, <2>2, <2>4 DEF V!Numbers, V!First, V!Given, V!None, V!Bad
    <3>2. ~alone
      BY <1>2, <2>1, <3>1 DEF V!Given, V!First
    <3>3. V!Given(dd) /\ dd = V!Measured(eq, peak, ex.dd, ex.at, t)
      BY <1>8, <1>14, <3>2
    <3>4. ex.at \notin {V!None, V!Bad} /\ t - ex.at \in 0..1 /\ ex.dd >= 0 /\ dd = ex.dd
      BY <2>4, <3>3 DEF V!Measured, V!Given
    <3>5. ~V!Given(n.dd)
      BY <1>2, <1>14, <3>4
    <3>6. PICK r \in {m, j} : once.dd = r.dd /\ once.at = r.at
      BY <1>2, <2>1, <3>1, <3>4, <3>5 DEF V!Given
    <3>7. r.dd \in Int /\ ~(r.dd >= V!Brake)
      BY <1>4, <1>6, <3>2, <3>4, <3>5, <3>6 DEF V!Numbers
    <3>8. V!Young(r, t)
      BY <3>4, <3>5, <3>6, <3>7 DEF V!Young, V!Brake
    <3> QED BY <1>7, <1>9, <1>14, <3>8
  <2> QED BY <2>3, <2>4
<1> QED BY <1>11, <1>13, <1>14

LEMMA LookedStart == ASSUME V!IInv, V!LookedAt, V!Start PROVE V!LookedAt'
<1>1. PICK f \in Situations : v3' = V!AsRead(f.nat) /\ v4' = [meta |-> V!AsRead(f.meta), proj |-> V!AsRead(f.proj)]
  BY DEF V!Start
<1>2. \A r : V!Fit(r) /\ V!Numbers(r) => V!Numbers(V!AsRead(r))
  BY DEF V!Fit, V!AsRead, V!Unseen, V!Numbers
<1>3. /\ V!Fit(f.nat) /\ V!Fit(f.meta) /\ V!Fit(f.proj) /\ V!Numbers(f.nat) /\ V!Numbers(f.meta) /\ V!Numbers(f.proj)
  BY DataFit DEF V!Sensible, V!Readable
<1>4. V!Numbers(V!AsRead(f.nat)) /\ V!Numbers(V!AsRead(f.meta)) /\ V!Numbers(V!AsRead(f.proj))
  BY <1>2, <1>3
<1>5. v4'.meta = V!AsRead(f.meta) /\ v4'.proj = V!AsRead(f.proj)
  BY <1>1
<1>6. v1' = "observe" /\ ~V!Bought'
  BY DEF V!Start, V!Bought, V!NoOrder
<1> QED BY <1>1, <1>4, <1>5, <1>6 DEF V!LookedAt

\* Until a buy is looked at there is nothing to show.
LEMMA LookedBefore ==
  ASSUME V!IInv, V!LookedAt, V!Observe \/ V!BrakeReduce \/ V!Gate \/ V!Sell
  PROVE  V!LookedAt'
<1>1. v4' = v4 /\ (v3' = v3 \/ v3' = [v3 EXCEPT !.brk = 1]) /\ v1' # "submit" /\ v1 \in {"observe", "brake", "gate", "order"}
  BY DEF V!Observe, V!BrakeReduce, V!Gate, V!Sell, V!cycle
<1>2. ~V!Bought'
  BY <1>1 DEF V!Observe, V!BrakeReduce, V!Gate, V!Sell, V!IInv, V!Bought
<1>3. V!Numbers(v3')
  BY <1>1 DEF V!LookedAt, V!Numbers, V!IInv, V!Heard, V!Fit, V!Unseen
<1> QED BY <1>1, <1>2, <1>3 DEF V!LookedAt

LEMMA LookedLook == ASSUME V!IInv, V!LookedAt, V!Look PROVE V!LookedAt'
<1>1. UNCHANGED <<V!cycle, v13>> /\ v1 = "order"
  BY DEF V!Look
<1>2. ~V!Bought'
  BY <1>1 DEF V!IInv, V!Bought
<1>3. ASSUME v1' = "submit" PROVE V!MeasuredWell(v12.at)'
  <2>1. ~V!Admission.no /\ v12' = [v12 EXCEPT !.at = v2, !.after = v12.seen]
    BY <1>3 DEF V!Look, V!LooksAgain, V!Refuses
  <2>2. v12'.at = v2
    BY <2>1 DEF V!IInv, V!Recorded
  <2>3. ~V!Evaluate(V!Snapshot(v3, v4, v2), V!LossLimit(v4.proj)).no
    BY <2>1 DEF V!Admission, V!Here
  <2>4. /\ V!Fit(v3) /\ V!Fit(v4.meta) /\ V!Fit(v4.proj) /\ V!Numbers(v3) /\ V!Numbers(v4.meta) /\ V!Numbers(v4.proj)
    BY DEF V!IInv, V!Heard, V!LookedAt
  <2> DEFINE max == V!LossLimit(v4.proj)
  <2> HIDE DEF max
  <2>5. ~V!Evaluate(V!Snapshot(v3, v4, v2), max).no
    BY <2>3 DEF max
  <2>6. V!MeasuredWell(v2)
    BY <2>4, <2>5, MeasuredTwice DEF V!MeasuredWell, V!NoBreach
  <2> QED BY <1>1, <2>2, <2>6 DEF V!MeasuredWell, V!NoBreach, V!cycle
<1> QED BY <1>1, <1>2, <1>3 DEF V!LookedAt, V!cycle

LEMMA LookedAfter ==
  ASSUME V!IInv, V!LookedAt, V!Submit \/ V!OtherOpens \/ V!Tick \/ UNCHANGED vars
  PROVE  V!LookedAt'
<1>1. UNCHANGED V!cycle /\ v12'.at = v12.at
  BY DEF V!Submit, V!OtherOpens, V!Tick, vars, V!cycle, V!IInv, V!Recorded
<1>2. V!Bought' \/ v1' = "submit" => V!Bought \/ v1 = "submit"
  BY DEF V!Submit, V!OtherOpens, V!Tick, vars, V!Bought
<1> QED BY <1>1, <1>2 DEF V!LookedAt, V!MeasuredWell, V!NoBreach, V!cycle

LEMMA LookedLeave == ASSUME V!Leave PROVE V!LookedAt'
<1>1. v3' = V!Unseen /\ v4' = [meta |-> V!Unseen, proj |-> V!Unseen] /\ v1' = "idle" /\ ~V!Bought'
  BY DEF V!Leave, V!Bought, V!NoOrder
<1>2. V!Numbers(V!Unseen)
  BY DEF V!Numbers, V!Unseen, V!None
<1>3. v4'.meta = V!Unseen /\ v4'.proj = V!Unseen
  BY <1>1
<1> QED BY <1>1, <1>2, <1>3 DEF V!LookedAt

LEMMA LookedInit == ASSUME V!Init PROVE V!LookedAt
<1>1. v3 = V!Unseen /\ v4 = [meta |-> V!Unseen, proj |-> V!Unseen] /\ v1 = "idle" /\ ~V!Bought
  BY DEF V!Init, V!Bought, V!NoOrder
<1>2. V!Numbers(V!Unseen)
  BY DEF V!Numbers, V!Unseen, V!None
<1>3. v4.meta = V!Unseen /\ v4.proj = V!Unseen
  BY <1>1
<1> QED BY <1>1, <1>2, <1>3 DEF V!LookedAt

LEMMA LookedStep == ASSUME V!IInv, V!LookedAt, V!Next \/ UNCHANGED vars PROVE V!LookedAt'
BY LookedStart, LookedBefore, LookedLook, LookedAfter, LookedLeave DEF V!Next, V!End, V!Kill

----------------------------------------------------------------------------
(* The writes of somebody else during a warm recovery.                     *)

LEMMA OvertakenInit == ASSUME W!Init PROVE W!Overtaken
BY DEF W!Init, W!Overtaken, W!Past, W!Reads, W!None

\* Steps of the attempt that neither read nor write the service.
LEMMA OvertakenProcess ==
  ASSUME W!IInv, W!Overtaken, W!Start \/ W!Watch \/ W!Prove \/ W!Raise \/ W!Recover \/ W!HealthChanges \/ W!Expire \/ W!Kill \/ UNCHANGED vars
  PROVE  W!Overtaken' /\ W!ForeignStands
<1>1. v1' = v1 /\ UNCHANGED <<v3, v4>>
  BY DEF W!Start, W!Watch, W!Prove, W!Raise, W!Recover, W!HealthChanges, W!Expire, W!Kill, W!cloud, W!process, vars
<1>2. CASE W!Start
  BY <1>1, <1>2 DEF W!Start, W!Overtaken, W!Past, W!Reads, W!ForeignStands, W!SpecOf
<1>3. CASE W!Watch
  <2>1. UNCHANGED <<v8, v10, v11>> /\ v5 = "watch" /\ v5' \in {"watch", "read"} /\ v6' \in {v6, "promote"}
    BY <1>3 DEF W!Watch
  <2>2. v6 = "activate"
    BY <2>1 DEF W!IInv
  <2> QED BY <1>1, <2>1, <2>2 DEF W!Overtaken, W!Past, W!Reads, W!ForeignStands, W!SpecOf
<1>4. CASE W!Prove \/ W!Raise \/ W!Kill
  <2>1. UNCHANGED <<v8, v10, v11, v9, v6>> /\ v5 # "idle" /\ v5' \in {"over", "recover", "idle"}
    BY <1>4 DEF W!Prove, W!Raise, W!Kill
  <2>2. v5' = "recover" => v5 \notin {"idle", "recover", "over"}
    BY <1>4 DEF W!Prove, W!Raise, W!Kill
  <2>3. v5' = "recover" /\ v11 => W!Reads
    <3>1. v11 => v5 # "check"
      BY <2>1 DEF W!IInv, W!Overtaken
    <3> QED BY <2>2, <3>1 DEF W!Reads
  <2> QED BY <1>1, <2>1, <2>3 DEF W!Overtaken, W!Past, W!Reads, W!ForeignStands, W!SpecOf
<1>5. CASE W!Recover
  BY <1>1, <1>5 DEF W!Recover, W!IInv, W!Overtaken, W!Past, W!Reads, W!ForeignStands, W!SpecOf
<1>6. CASE W!HealthChanges \/ W!Expire \/ UNCHANGED vars
  <2>1. UNCHANGED W!process
    BY <1>6 DEF W!HealthChanges, W!Expire, W!process, W!cloud, vars
  <2> QED BY <1>1, <2>1 DEF W!process, W!Overtaken, W!Past, W!Reads, W!Goal, W!ForeignStands, W!SpecOf
<1> QED BY <1>2, <1>3, <1>4, <1>5, <1>6

LEMMA OvertakenCheck ==
  ASSUME W!IInv, W!Overtaken, W!Check
  PROVE  W!Overtaken' /\ W!ForeignStands
<1>1. /\ v5 = "check" /\ v5' = "read" /\ v8' = v1 /\ v1.rv = 1
      /\ UNCHANGED <<W!cloud, v4, v6, v9, v10, v11>>
  BY DEF W!Check
<1>2. ~v3
  BY <1>1 DEF W!Overtaken
<1>3. v6 = "create" /\ v5 # "idle"
  BY <1>1 DEF W!IInv
<1>4. v11 = (v6 # "create")
  BY <1>3 DEF W!Overtaken
<1>5. ~v11
  BY <1>3, <1>4
<1> QED BY <1>1, <1>2, <1>5 DEF W!cloud, W!Overtaken, W!Past, W!Reads, W!ForeignStands, W!SpecOf

LEMMA OvertakenRead ==
  ASSUME W!IInv, W!Overtaken, W!Read
  PROVE  W!Overtaken' /\ W!ForeignStands
<1>1. ~v3 /\ v1.tmpl = v8.tmpl
  BY DEF W!Read, W!Stable, W!SpecOf, W!Overtaken, W!Past, W!Reads
<1>2. v6' = v6 /\ v9' = v1 /\ v5 = "read" /\ v5' = "put" /\ UNCHANGED <<W!cloud, v4, v8, v10, v11>>
  BY DEF W!Read
<1>3. v11 = (v6 # "create") /\ (v11 => v1.tmpl = "new")
  BY <1>1, <1>2 DEF W!Overtaken, W!Reads
<1>4. W!Goal(v6)' = [tmpl |-> "new", want |-> W!Asks[v6]]
  BY <1>2, <1>3 DEF W!Goal, W!Asks, W!IInv
<1> QED BY <1>1, <1>2, <1>3, <1>4 DEF W!cloud, W!Overtaken, W!Past, W!Reads, W!ForeignStands, W!SpecOf

LEMMA OvertakenPut ==
  ASSUME W!IInv, W!Overtaken, W!Put
  PROVE  W!Overtaken' /\ W!ForeignStands
<1> DEFINE p == [before |-> v9, to |-> W!Goal(v6)]
           w == [kind |-> v6, rv |-> v9.rv, to |-> W!Goal(v6)]
<1>1. /\ v10' = p /\ v4' = v4 \cup {w} /\ v5 = "put" /\ v5' = "wait"
      /\ UNCHANGED <<W!cloud, v6, v8, v9, v11>>
  BY DEF W!Put
<1>2. p # W!None /\ p.before = v9 /\ p.to = W!Goal(v6) /\ w.rv = v9.rv
  BY DEF W!None
<1>3. W!Goal(v6).tmpl = "new"
  BY <1>1 DEF W!Overtaken
<1> HIDE DEF p, w
<1>4. \A v \in v4' : v.rv \in Nat /\ W!Past(v.rv, v1.rv)
  BY <1>1, <1>2 DEF W!Overtaken
<1> QED BY <1>1, <1>2, <1>3, <1>4 DEF W!cloud, W!Overtaken, W!Past, W!Reads, W!ForeignStands, W!SpecOf

LEMMA OvertakenSettle ==
  ASSUME W!IInv, W!Overtaken, W!Settle
  PROVE  W!Overtaken' /\ W!ForeignStands
<1>1. ~v3 /\ v1.tmpl = "new"
  BY DEF W!Settle, W!SpecOf, W!Overtaken, W!Past, W!Reads
<1>2. /\ v8' = v1 /\ v10' = W!None /\ v5 = "settle" /\ UNCHANGED <<W!cloud, v4, v9>>
      /\ v5' \in {"read", "watch", "prove", "over"} /\ v11' = (v6' # "create")
  BY DEF W!Settle, W!Overtaken, W!IInv, W!Kinds
<1> QED BY <1>1, <1>2 DEF W!cloud, W!Overtaken, W!Past, W!Reads, W!ForeignStands, W!SpecOf

LEMMA OvertakenRollback ==
  ASSUME W!IInv, W!Overtaken, W!Rollback
  PROVE  W!Overtaken' /\ W!ForeignStands
<1>1. /\ v5 = "read" /\ v6 = "restore" /\ W!OurSuccessor /\ v8' = v1
      /\ UNCHANGED <<W!cloud, v4, v6, v10, v11>>
      /\ (v5' = "over" /\ v9' = v9) \/ (v5' = "put" /\ v9' = v1)
  BY DEF W!Rollback
<1>2. v11
  BY <1>1 DEF W!Overtaken
<1>3. ~v3 /\ v1.tmpl = "new"
  BY <1>1, <1>2 DEF W!OurSuccessor, W!SpecOf, W!Overtaken, W!Past, W!Reads
<1>4. v5' = "put" => W!Goal(v6)' = [tmpl |-> "new", want |-> W!Asks[v6]]
  BY <1>1, <1>3 DEF W!Goal, W!Asks
<1>5. UNCHANGED <<v1, v3>> /\ {v1.gen, v1.rv} \subseteq Nat
  BY <1>1 DEF W!cloud, W!Overtaken
<1>6. W!Reads' => v8'.gen \in Nat /\ W!Past(v8'.gen, v1'.gen) /\ v8'.tmpl = "new"
  BY <1>1, <1>3, <1>5 DEF W!Past
<1>7. v5' = "put" => /\ {v9'.gen, v9'.rv} \subseteq Nat /\ W!Past(v9'.gen, v1'.gen)
                     /\ W!Past(v9'.rv, v1'.rv) /\ v9'.tmpl = "new"
  BY <1>1, <1>3, <1>5 DEF W!Past
<1> QED BY <1>1, <1>2, <1>3, <1>4, <1>5, <1>6, <1>7 DEF W!Overtaken, W!Past, W!ForeignStands

\* The service moves on, and the attempt stands where it stood, or raises.
LEMMA OvertakenMoves ==
  ASSUME W!IInv, W!Overtaken, ~v3, UNCHANGED <<v6, v8, v9, v10, v11>>, v4' \subseteq v4,
         v5' = v5 \/ (v5 = "wait" /\ v5' \in {"recover", "settle"}),
         DOMAIN v1' = {"gen", "rv", "tmpl", "want", "have", "seen"}, {v1'.gen, v1'.rv} \subseteq Nat,
         v1'.gen >= v1.gen, v1'.rv > v1.rv,
         v3' => /\ v1'.gen > v1.gen
                /\ W!SpecOf(v1)' # [tmpl |-> "new", want |-> W!Asks[v6]]
                /\ v10 # W!None => W!SpecOf(v1)' # v10.to
  PROVE  W!Overtaken'
<1>1. W!Goal(v6)' = W!Goal(v6)
  BY DEF W!Goal
<1>2. W!Reads' => W!Reads
  BY DEF W!Reads
<1> QED BY <1>1, <1>2 DEF W!Overtaken, W!Past

LEMMA OvertakenUpdated ==
  ASSUME W!Overtaken, NEW to, DOMAIN to = {"tmpl", "want"}
  PROVE  LET s == W!Updated(v1, to) IN
         /\ DOMAIN s = {"gen", "rv", "tmpl", "want", "have", "seen"}
         /\ s.rv = v1.rv + 1 /\ s.gen = (IF to = W!SpecOf(v1) THEN v1.gen ELSE v1.gen + 1)
         /\ s.tmpl = to.tmpl /\ s.want = to.want
BY DEF W!Updated, W!Overtaken

LEMMA OvertakenArrive ==
  ASSUME W!IInv, W!Overtaken, NEW w \in v4, W!Arrive(w)
  PROVE  W!Overtaken' /\ W!ForeignStands
<1>1. /\ v4' \subseteq v4 /\ UNCHANGED <<v3, v6, v8, v9, v10, v11>>
      /\ v5' = v5 \/ (v5 = "wait" /\ v5' \in {"recover", "settle"})
      /\ v1' = IF v1.rv = w.rv THEN W!Updated(v1, w.to) ELSE v1
  BY DEF W!Arrive, W!Current
<1>2. v3 => v1' = v1
  BY <1>1 DEF W!Overtaken, W!Past
<1>3. CASE v1' = v1
  <2>1. W!Reads' => W!Reads
    BY <1>1 DEF W!Reads
  <2> QED BY <1>1, <1>3, <2>1 DEF W!Overtaken, W!Past, W!Goal, W!ForeignStands, W!SpecOf
<1>4. CASE v1' # v1
  <2>1. /\ DOMAIN v1' = DOMAIN v1 /\ v1'.rv = v1.rv + 1
        /\ v1'.gen \in {v1.gen, v1.gen + 1}
    BY <1>1, <1>4 DEF W!Updated, W!Overtaken
  <2>2. {v1.gen, v1.rv} \subseteq Nat
    BY DEF W!Overtaken
  <2>3. W!Overtaken'
    BY <1>1, <1>2, <1>4, <2>1, <2>2, OvertakenMoves DEF W!Overtaken
  <2> QED BY <1>2, <1>4, <2>3 DEF W!ForeignStands
<1> QED BY <1>3, <1>4

LEMMA OvertakenReconcile ==
  ASSUME W!IInv, W!Overtaken, W!Reconcile
  PROVE  W!Overtaken' /\ W!ForeignStands
<1>1. /\ DOMAIN v1' = DOMAIN v1 /\ v1'.rv = v1.rv + 1 /\ v1'.gen = v1.gen /\ W!SpecOf(v1)' = W!SpecOf(v1)
      /\ UNCHANGED <<v3, W!process, v4>>
  BY DEF W!Reconcile, W!Overtaken, W!SpecOf
<1>2. UNCHANGED <<v5, v6, v8, v9, v10, v11>>
  BY <1>1 DEF W!process
<1>3. W!Goal(v6)' = W!Goal(v6)
  BY <1>2 DEF W!Goal
<1>4. W!Reads' = W!Reads
  BY <1>2 DEF W!Reads
<1> QED BY <1>1, <1>2, <1>3, <1>4 DEF W!Overtaken, W!Past, W!ForeignStands

LEMMA OvertakenForeign ==
  ASSUME W!IInv, W!Overtaken, W!Foreign
  PROVE  W!Overtaken' /\ W!ForeignStands
<1>1. PICK to \in W!Specs \ {W!SpecOf(v1), [tmpl |-> "new", want |-> W!Asks[v6]]} :
         (v10 # W!None => to # v10.to) /\ v1' = W!Updated(v1, to)
  BY DEF W!Foreign
<1>2. ~v3 /\ v3' /\ UNCHANGED <<W!process, v4>>
  BY DEF W!Foreign
<1>3. DOMAIN to = {"tmpl", "want"} /\ to = [tmpl |-> to.tmpl, want |-> to.want]
  BY <1>1 DEF W!Specs
<1>4. /\ DOMAIN v1' = DOMAIN v1 /\ v1'.rv = v1.rv + 1 /\ v1'.gen = v1.gen + 1
      /\ v1'.tmpl = to.tmpl /\ v1'.want = to.want
  BY <1>1 DEF W!Updated, W!Overtaken
<1>5. W!SpecOf(v1)' = to
  BY <1>3, <1>4 DEF W!SpecOf
<1>6. {v1.gen, v1.rv} \subseteq Nat /\ UNCHANGED <<v5, v6, v8, v9, v10, v11>>
  BY <1>2 DEF W!Overtaken, W!process
<1>7. W!Overtaken'
  BY <1>1, <1>2, <1>4, <1>5, <1>6, OvertakenMoves DEF W!Overtaken
<1> QED BY <1>2, <1>7 DEF W!ForeignStands

LEMMA OvertakenStep ==
  ASSUME W!IInv, W!Overtaken, W!Next \/ UNCHANGED vars
  PROVE  W!Overtaken' /\ W!ForeignStands
BY OvertakenProcess, OvertakenCheck, OvertakenRead, OvertakenPut, OvertakenSettle, OvertakenRollback,
   OvertakenArrive, OvertakenReconcile, OvertakenForeign DEF W!Next, W!Forward, W!Backward, W!Around

----------------------------------------------------------------------------
(* The address of a gateway.                                               *)

\* An address gives way to an address.
LEMMA AddressStays ==
  ASSUME X!IInv, X!Next \/ UNCHANGED vars
  PROVE  X!AddressKept
<1> SUFFICES ASSUME v6 \in X!Addresses, ~v5.project, v7 # "start", v7' # "start" PROVE v6' # X!Name
  BY DEF X!AddressKept
<1>1. v6 # X!Unset /\ v6 # X!Name
  BY DEF X!Addresses, X!Unset, X!Name
<1>2. CASE X!ResolveHost
  BY <1>1, <1>2 DEF X!ResolveHost
<1>3. CASE X!Refresh
  <2>1. PICK h \in IF v5.zone THEN X!Lookup ELSE {v8.addr} :
           IF v5.zone THEN X!NewHost(X!LastGood(h)) ELSE UNCHANGED <<v4, v6>>
    BY <1>3 DEF X!Refresh
  <2>2. CASE v5.zone
    <3>1. h \in {v3.ours, X!Name} /\ v3.ours # X!Name /\ v6' = X!LastGood(h)
      BY <2>1, <2>2 DEF X!Lookup, X!NewHost, X!IInv, X!Configured, X!Name
    <3> QED BY <1>1, <3>1 DEF X!LastGood
  <2>3. CASE ~v5.zone
    BY <1>1, <2>1, <2>3
  <2> QED BY <2>2, <2>3
<1>4. CASE X!Load \/ X!Receive \/ X!Connect \/ X!Accounts \/ X!Permit \/ X!Use \/ X!Outside \/ UNCHANGED vars
  BY <1>1, <1>4 DEF X!Load, X!Receive, X!Connect, X!Accounts, X!Permit, X!Use, X!Outside, X!instance, vars
<1>5. CASE X!Restart
  BY <1>5 DEF X!Restart
<1> QED BY <1>2, <1>3, <1>4, <1>5 DEF X!Next

==============================================================================
