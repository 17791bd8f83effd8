----------------------------- MODULE NewRiskGate ------------------------------
(***************************************************************************)
(* When an account may take new risk                                       *)
(* (application/account_new_risk_gate_support.py and its three callers):   *)
(* cycles read the account, hear a strategy's older facts, restore or      *)
(* record the durable breaker of the account's journal, cut the targets,   *)
(* look again before a buy is reserved, and pass the gate of the cycle     *)
(* when the order is sent (ibkr_order_execution.py).  Another profile's    *)
(* cycle may open the breaker at any time, the journal may fail, and the   *)
(* process may be killed between two steps.  One instrument is held.  The  *)
(* decision proper is the platform kit's (Evaluate).                       *)
(***************************************************************************)
EXTENDS Integers

CONSTANTS
  Facts,      \* what the account read and the strategy may say together
  Settings,   \* the switch of exits, the session, the limit of the runtime
  MaxAge,     \* BROKER_DRAWDOWN_MAX_AGE_SECONDS
  Clock       \* bound: the last time

\* A fact that is not given; one that is given and cannot be read.
None == -9
Bad == -8
\* The drawdown that trips the brake: equity two under its peak.
Brake == 2
\* What the strategy wants to hold.
Full == 2
\* No snapshot: everything is unknown.
Unseen == [eq |-> None, peak |-> None, dd |-> None, at |-> None, pend |-> None, brk |-> None,
           obs |-> 1, drift |-> None, vol |-> None, loss |-> None, max |-> None]
NoRuntime == [stop |-> FALSE, session |-> FALSE, max |-> None]
NoOrder == [side |-> "none", brake |-> FALSE]

VARIABLES
  pc, now,
  nat,      \* the account read: account_values
  sig,      \* the strategy's metadata, and its account_new_risk_snapshot
  conf,     \* settings of the cycle
  want,     \* the strategy's target, None without one
  open,     \* the journal's breaker is OPEN
  blocked,  \* account_new_risk_buy_blocked
  snap,     \* _cycle_snapshot
  target,   \* the target that is left
  held,
  evid,     \* history: a breach was seen or recorded; when a buy was looked at
            \* last, and whether after such a breach
  sent,     \* the order of this cycle
  paged     \* an attention was sent by this process

vars == <<pc, now, nat, sig, conf, want, open, blocked, snap, target, held, evid, sent, paged>>
cycle == <<nat, sig, conf, want>>

Given(v) == v # None
First(v, w) == IF Given(v) THEN v ELSE w
\* Anything but an explicit healthy value.
Unsafe(v) == v \notin {None, 0}
Larger(a, b) == IF a > b THEN a ELSE b
Smaller(a, b) == IF a < b THEN a ELSE b

TypeOK ==
  /\ pc \in {"idle", "observe", "brake", "gate", "order", "submit", "over"}
  /\ now \in 2..Clock /\ want \in {None, Full}
  /\ {conf.stop, conf.session} \subseteq BOOLEAN /\ conf.max \in {None} \cup Nat
  /\ {open, blocked} \subseteq BOOLEAN /\ {target, held} \subseteq 0..Full
  /\ {nat.eq, nat.peak, nat.dd, snap.dd, snap.peak} \subseteq {None, Bad} \cup 0..3
  /\ evid.at \in 0..Clock /\ {evid.seen, evid.after} \subseteq BOOLEAN
  /\ sent \in [side : {"none", "buy", "sell"}, brake : BOOLEAN]
  /\ paged \in {"no", "failed", "yes"}

----------------------------------------------------------------------------
(* The snapshot of the account.                                            *)

\* Mutant: without freshness.
AnyMeasured(eq, peak, dd, at, t) ==
  IF eq > 0 /\ peak > 0 THEN Larger(0, peak - eq) ELSE IF dd >= 0 THEN dd ELSE None
\* The drawdown of this read, else one that was measured a short time ago.
Measured(eq, peak, dd, at, t) ==
  CASE eq > 0 /\ peak > 0 -> Larger(0, peak - eq)
    [] ~(eq > 0 /\ peak > 0) /\ at \notin {None, Bad} /\ t - at \in 0..MaxAge /\ dd >= 0 -> dd
    [] OTHER -> None

\* Mutant: the strategy's facts, else the account's.
StrategyFirst(n, m) ==
  [n EXCEPT !.pend = First(m.pend, @), !.brk = First(m.brk, @), !.obs = First(m.obs, @),
            !.drift = First(m.drift, @), !.loss = First(m.loss, @)]
\* The account's facts, else the strategy's.
Portfolio(n, m) ==
  [n EXCEPT !.pend = First(@, m.pend), !.brk = First(@, m.brk), !.obs = First(@, m.obs),
            !.drift = First(@, m.drift), !.loss = First(@, m.loss)]

\* What was measured together stays together, the account's own outranks it.
Cache(n, m, j) ==
  LET late == IF Given(m.dd) THEN m ELSE j IN
  [j EXCEPT !.eq = n.eq, !.peak = First(n.peak, First(m.peak, @)),
            !.vol = IF Given(n.vol) THEN @ ELSE First(m.vol, @),
            !.dd = IF Given(n.dd) \/ Given(n.peak) THEN n.dd ELSE late.dd,
            !.at = IF Given(n.dd) THEN @ ELSE late.at]

\* Mutant: what the strategy knows of pending orders does not count.
OwnPending(p, j) == Unsafe(p.pend)
\* Whoever says that an order is unknown.
Pending(p, j) == Unsafe(p.pend) \/ Unsafe(j.pend)

Project(p, j, t) ==
  LET eq == IF p.eq > 0 THEN p.eq ELSE None
      broken == Unsafe(p.brk) \/ Unsafe(j.brk)
      peak == First(p.peak, j.peak)
      explicit == IF Given(p.dd) THEN p ELSE j
      dd == IF p.dd >= 0 THEN p.dd ELSE Measured(eq, peak, explicit.dd, explicit.at, t)
      \* Native peak only: the kit derives it.
      peakOnly == Given(p.peak) /\ ~Given(p.dd) /\ ~Given(j.dd)
      unseen == ~Given(eq) \/ (~Given(dd) /\ ~peakOnly)
  IN [j EXCEPT
        !.eq = eq, !.peak = peak, !.vol = First(p.vol, @), !.at = explicit.at,
        !.dd = IF peakOnly THEN None ELSE dd,
        !.obs = IF unseen \/ Pending(p, j) \/ Unsafe(p.obs) THEN 1 ELSE First(@, 0),
        !.brk = IF broken \/ Pending(p, j) THEN 1 ELSE First(@, 0),
        !.drift = First(p.drift, @), !.loss = First(p.loss, @)]

\* Projected twice: the second time from what was projected, with the late
\* copies of the strategy.
Snapshot(n, s, t) ==
  LET p == Portfolio(n, s.meta)
      late == [p EXCEPT !.peak = First(@, s.meta.peak), !.vol = First(@, s.meta.vol)]
  IN Project(late, Project(p, Cache(n, s.meta, s.proj), t), t)

\* A limit that cannot be read is none.
Limit(v) == IF v > 0 THEN v ELSE None
\* The strategy's limit, else that of the runtime target or the environment.
LossLimit(j) == IF Given(j.max) THEN Limit(j.max) ELSE conf.max

\* evaluate_new_risk_admission of the platform kit: what is unknown is prohibited.
Evaluate(s, max) ==
  LET dd == IF s.dd >= 0 THEN s.dd ELSE IF s.eq > 0 /\ s.peak > 0 THEN Larger(0, s.peak - s.eq) ELSE None
      hard == dd >= Brake
      invalid == Bad \in {s.peak, s.vol} \/ ~(s.eq > 0)
  IN [hard |-> hard,
      no |-> hard \/ invalid \/ Unsafe(s.obs) \/ Unsafe(s.brk) \/ Unsafe(s.drift)
             \/ (Given(max) /\ s.loss \notin 0..(max - 1)),
      broken |-> Unsafe(s.brk),
      scale |-> IF hard THEN 0 ELSE IF invalid THEN Full
                ELSE Smaller(Full - Larger(dd, 0), Full - Larger(s.vol, 0))]

Here == Snapshot(nat, sig, now)
Admission == Evaluate(Here, LossLimit(sig.proj))

\* Mutant: the drawdown cuts, whoever may exit.
CutAnyway(s, a) == (want * a.scale) \div Full
\* Without the authority to exit the drawdown is left out of the sizing.
Cut(s, a) ==
  LET sized == IF conf.stop THEN a ELSE Evaluate([s EXCEPT !.peak = None, !.dd = None], LossLimit(sig.proj))
  IN (want * sized.scale) \div Full

----------------------------------------------------------------------------
(* Cycles.                                                                 *)

\* The facts of a snapshot, with the time of their measurement.
AsRead(r) == [r EXCEPT !.at = IF @ \in {None, Bad} THEN @ ELSE now - @]

Start ==
  /\ pc = "idle"
  /\ \E f \in Facts, c \in Settings, w \in {None, Full} :
       /\ nat' = AsRead(f.nat) /\ sig' = [meta |-> AsRead(f.meta), proj |-> AsRead(f.proj)]
       /\ conf' = c /\ want' = w
  /\ sent' = NoOrder /\ blocked' = FALSE /\ target' = 0
  /\ evid' = [evid EXCEPT !.at = 0, !.after = FALSE] /\ pc' = "observe"
  /\ UNCHANGED <<now, open, snap, held, paged>>

\* Mutant: a breach is recorded when there is something to order.
RecordsWithTargets(a) == a.hard /\ conf.session /\ Given(want)
\* A breach is recorded.
Records(a) == a.hard /\ conf.session

\* The journal after it was consulted: its answer, or none.
Consult(a, answers) ==
  IF answers THEN open' = (open \/ Records(a)) ELSE open' \in {open, open \/ Records(a)}
\* Mutant: the breaker is not read back.
Unread(a, answers) == a.no \/ ~conf.session \/ ~answers
Refuses(a, answers) == a.no \/ ~conf.session \/ ~answers \/ open'

\* Before anything else (run_strategy_core): an OPEN is part of the account's facts.
Observe ==
  /\ pc = "observe"
  /\ \E answers \in BOOLEAN :
       /\ Consult(Admission, answers)
       /\ nat' = IF Admission.broken \/ (conf.session /\ answers /\ open') THEN [nat EXCEPT !.brk = 1] ELSE nat
       /\ evid' = [evid EXCEPT !.seen = @ \/ (Admission.hard /\ conf.session /\ answers)]
  /\ pc' = IF Given(want) THEN "gate" ELSE IF Admission.hard THEN "brake" ELSE "over"
  /\ UNCHANGED <<now, sig, conf, want, blocked, snap, target, held, sent, paged>>

\* Mutant: the brake sells whenever it can.
MayBrakeAnyway == conf.session
MayBrake == conf.stop /\ conf.session
\* A cycle without targets reduces the account by its position, from a complete
\* observation of the journal; the order is filled, or not.
BrakeReduce ==
  /\ pc = "brake" /\ pc' = "over"
  /\ \/ /\ MayBrake /\ held > 0
        /\ sent' = [side |-> "sell", brake |-> TRUE] /\ held' \in {0, held}
     \/ UNCHANGED <<held, sent>>
  /\ UNCHANGED <<now, cycle, open, blocked, snap, target, evid, paged>>

\* Mutant: the journal's answer is not what is paged.
AsFirstAdmitted(answers) == Admission.no
\* What is prohibited is paged, once by a process.
Attention(answers) == Refuses(Admission, answers)

\* execute_rebalance: the gate of the pass, and of its submissions.
Gate ==
  /\ pc = "gate"
  /\ snap' = Here /\ target' = Cut(Here, Admission)
  /\ \E answers \in BOOLEAN :
       /\ Consult(Admission, answers)
       /\ blocked' = Refuses(Admission, answers)
       /\ IF Attention(answers) /\ paged # "yes" THEN paged' \in {"yes", "failed"} ELSE paged' = paged
       \* Without the journal nothing that would buy goes on.
       /\ pc' = IF target' = held \/ (target' > held /\ (~conf.session \/ ~answers)) THEN "over" ELSE "order"
  /\ UNCHANGED <<now, cycle, held, evid, sent>>

\* Mutant: what the pass knows is enough.
LooksOnce(answers) == ~blocked
\* Before a buy is reserved (submit_claimed_order).
LooksAgain(answers) == ~Refuses(Admission, answers)
Look ==
  /\ pc = "order" /\ target > held
  /\ IF blocked THEN pc' = "over" /\ UNCHANGED <<open, evid>>
     ELSE \E answers \in BOOLEAN :
            /\ Consult(Admission, answers)
            /\ evid' = [evid EXCEPT !.at = now, !.after = evid.seen]
            /\ pc' = IF LooksAgain(answers) THEN "submit" ELSE "over"
  /\ UNCHANGED <<now, cycle, blocked, snap, target, held, sent, paged>>

\* Mutant: the limit of the pass is that of its submissions.
PassLimit == LossLimit(sig.proj)
\* The gate of a submission asks for the limit of the runtime.
SubmissionLimit == conf.max
CycleRefuses == Evaluate(snap, SubmissionLimit).no

\* Sent as a buy, or rejected.
Submit ==
  /\ pc = "submit" /\ pc' = "over"
  /\ IF CycleRefuses THEN UNCHANGED <<held, sent>>
     ELSE sent' = [side |-> "buy", brake |-> FALSE] /\ held' \in {held, target}
  /\ UNCHANGED <<now, cycle, open, blocked, snap, target, evid, paged>>

\* A sell: while buys are blocked it is a proven reduction, which passes;
\* else it passes with the cycle.
Sell ==
  /\ pc = "order" /\ target < held /\ pc' = "over"
  /\ IF CycleRefuses /\ ~blocked THEN UNCHANGED <<held, sent>>
     ELSE sent' = [side |-> "sell", brake |-> FALSE] /\ held' \in {held, target}
  /\ UNCHANGED <<now, cycle, open, blocked, snap, target, evid, paged>>

\* A cycle of another profile of this account records a breach.
OtherOpens ==
  /\ ~open /\ open' = TRUE /\ evid' = [evid EXCEPT !.seen = TRUE]
  /\ UNCHANGED <<pc, now, cycle, blocked, snap, target, held, sent, paged>>

Tick ==
  /\ pc # "over" /\ now < Clock /\ now' = now + 1
  /\ UNCHANGED <<pc, cycle, open, blocked, snap, target, held, evid, sent, paged>>

\* The cycle is over, or its process is killed, which knows nothing more.
Leave ==
  /\ nat' = Unseen /\ sig' = [meta |-> Unseen, proj |-> Unseen] /\ snap' = Unseen
  /\ conf' = NoRuntime /\ want' = None /\ blocked' = FALSE /\ target' = 0 /\ sent' = NoOrder
  /\ pc' = "idle" /\ evid' = [evid EXCEPT !.at = 0, !.after = FALSE]
  /\ UNCHANGED <<now, open, held>>
End == pc = "over" /\ Leave /\ UNCHANGED paged
Kill == pc # "idle" /\ Leave /\ paged' = "no"

Init ==
  /\ nat = Unseen /\ sig = [meta |-> Unseen, proj |-> Unseen] /\ snap = Unseen
  /\ conf = NoRuntime /\ want = None /\ blocked = FALSE /\ target = 0 /\ sent = NoOrder
  /\ pc = "idle" /\ paged = "no" /\ now = 2 /\ open = FALSE /\ held \in {0, Full}
  /\ evid = [seen |-> FALSE, at |-> 0, after |-> FALSE]

Next ==
  \/ Start \/ Observe \/ BrakeReduce \/ Gate \/ Look \/ Submit \/ Sell
  \/ OtherOpens \/ Tick \/ End \/ Kill

Spec == Init /\ [][Next]_vars

----------------------------------------------------------------------------
(* Properties.                                                             *)

Bought == sent.side = "buy"

\* A measurement of a source that is young enough, and no breach.
Young(r, t) == r.dd \in 0..(Brake - 1) /\ r.at \notin {None, Bad} /\ t - r.at \in 0..MaxAge
NoBreach(peak) == peak > 0 /\ peak - nat.eq < Brake
MeasuredWell(t) ==
  /\ nat.eq > 0
  /\ \A v \in {nat.pend, nat.brk, nat.obs, nat.drift, sig.proj.pend, sig.proj.brk} : ~Unsafe(v)
  /\ IF nat.dd >= 0 THEN nat.dd < Brake
     ELSE IF nat.peak > 0 THEN NoBreach(nat.peak)
     ELSE \/ NoBreach(sig.meta.peak) \/ NoBreach(sig.proj.peak)
          \/ \E r \in {nat, sig.meta, sig.proj} : Young(r, t)
\* A buy was looked at with an equity and a drawdown of its own account read,
\* or one measured a short time before; and nobody knew of an order that is
\* unknown, or of an account that is not healthy (build_account_new_risk_snapshot).
BuyIsMeasured == Bought => MeasuredWell(evid.at)

\* Nothing is bought that was looked at after a breach of the account was seen
\* or recorded, by a cycle without targets or by another profile; no restart
\* and no recovery of the account clears it
\* (evaluate_persistent_account_new_risk_admission).
NeverAfterBreach == Bought => ~evid.after

\* The limit of the runtime holds, whatever limit a strategy brings
\* (evaluate_cycle_new_risk_admission).
LossWithinLimit == Bought /\ Given(conf.max) =>
  First(nat.loss, First(sig.meta.loss, sig.proj.loss)) \in 0..(conf.max - 1)

\* Without the authority to exit nothing is sold because of the account's loss
\* (scale_targets_for_admission, run_strategy_core).
NoForcedExit ==
  sent.side = "sell" /\ ~conf.stop =>
    /\ ~sent.brake
    /\ target >= (want * (Full - Larger(0, First(nat.vol, First(sig.meta.vol, sig.proj.vol))))) \div Full

\* Buys that are blocked are paged, or the page failed
\* (maybe_publish_attention_for_admission).
BlockedIsTold == pc = "order" /\ blocked => paged # "no"

(***************************************************************************)
(* The inductive invariant behind all but BuyIsMeasured.                   *)
(***************************************************************************)

\* What an account read and a strategy may say.
Fit(r) == DOMAIN r = DOMAIN Unseen /\ r.vol \in Int
Sensible == \A f \in Facts : Fit(f.nat) /\ Fit(f.meta) /\ Fit(f.proj)
Heard ==
  /\ Fit(nat) /\ DOMAIN sig = {"meta", "proj"} /\ Fit(sig.meta) /\ Fit(sig.proj)
  /\ want \in {None, Full} /\ (pc = "gate" => want = Full)

\* The strategy's target under the volatility alone.
Uncut == (want * (Full - Larger(0, First(nat.vol, First(sig.meta.vol, sig.proj.vol))))) \div Full

\* What the gate has left, until the order is sent.
Passed ==
  pc \in {"order", "submit"} =>
    /\ snap.loss = First(nat.loss, First(sig.meta.loss, sig.proj.loss))
    /\ ~conf.stop => target >= Uncut
    /\ pc = "submit" => ~evid.after

\* A breach that was seen is in the journal.
Recorded == DOMAIN evid = {"seen", "at", "after"} /\ (evid.seen => open)
IInv ==
  /\ Heard /\ Passed /\ Recorded /\ (sent.side # "none" => pc = "over")
  /\ NeverAfterBreach /\ LossWithinLimit /\ NoForcedExit /\ BlockedIsTold

\* The one behind BuyIsMeasured: a peak that can be read is positive, and what
\* was looked at is what is bought.
Numbers(r) == {r.eq, r.peak, r.dd} \subseteq Int /\ (r.peak > 0 \/ r.peak \in {None, Bad})
Readable == \A f \in Facts : Numbers(f.nat) /\ Numbers(f.meta) /\ Numbers(f.proj)
LookedAt ==
  /\ Numbers(nat) /\ Numbers(sig.meta) /\ Numbers(sig.proj)
  /\ Bought \/ pc = "submit" => MeasuredWell(evid.at)
=============================================================================
