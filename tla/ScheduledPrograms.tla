------------------------------ MODULE ScheduledPrograms ---------------------
(***************************************************************************)
(* The programs that run on a schedule and what they tell, and those that  *)
(* switch, route and release revisions: their instances in the state that  *)
(* all programs of MCPrograms share, v1, v2, ..., in the order in which    *)
(* the module of a program declares its variables.                         *)
(***************************************************************************)
EXTENDS Integers

CONSTANTS
  Times,     \* bound: dispatches of a job, changes by others,
             \* observers of a target, attempts to connect, ticks
  Services   \* bound: the services of a plan to route

ASSUME TimesAssumption == Times \in Nat \ {0}
ASSUME BoundsAssumption == Services \in Nat \ {0}

\* What the objects of the bucket may be, and what the logs may answer.
Reports == [of: {"t1"}, as: {"quiet", "loud", "bad", "conflict"}] \cup [of: {"t2"}, as: {"quiet"}]
Answers == {[answered |-> logs, succeeded |-> TRUE] : logs \in {{"service", "scheduler"}, {"scheduler"}}}

\* What an inventory asks for: from a target that is enabled to one to drill.
Asked(on, target, force, entry, override) ==
  [on |-> on, target |-> target, force |-> force, entry |-> entry, override |-> override, default |-> TRUE,
   drill |-> FALSE]
Wanted ==
  {Asked("on", "active", FALSE, TRUE, TRUE), Asked("off", "late", TRUE, FALSE, TRUE),
   [Asked("off", "active", FALSE, FALSE, FALSE) EXCEPT !.default = FALSE],
   [Asked("off", "reconcile", FALSE, FALSE, FALSE) EXCEPT !.drill = TRUE],
   Asked("on", "reconcile", FALSE, FALSE, TRUE), Asked("unset", "active", FALSE, FALSE, FALSE),
   Asked("on", "active", TRUE, TRUE, FALSE)}

VARIABLES
  part,   \* the program that runs; chosen initially, never changed
  v1, v2, v3, v4, v5, v6, v7, v8, v9, v10, v11, v12, v13, v14

vars == <<part, v1, v2, v3, v4, v5, v6, v7, v8, v9, v10, v11, v12, v13, v14>>

T == INSTANCE TrafficRoute WITH
  N <- Services, mode <- v1, svc <- v2, health <- v3, same <- v4, pc <- v5, at <- v6,
  read <- v7, result <- v8, foreign <- v9, moved <- v10, proof <- v11
R == INSTANCE PilotRevision WITH
  Changes <- Times, svc <- v1, rev <- v2, latest <- v3, pc <- v4, before <- v5,
  current <- v6, out <- v7
P == INSTANCE PinnedRelease WITH
  Changes <- Times, svc <- v1, cand <- v2, config <- v3, mode <- v4, pc <- v5,
  before <- v6, bound <- v7, out <- v8
D == INSTANCE DigestCandidates WITH
  Observers <- 1..Times, doc <- v1, obj <- v2, fact <- v3, pc <- v4, seen <- v5
I == INSTANCE IncidentNotices WITH
  N <- Times, mark <- v1, index <- v2, obs <- v3, pc <- v4, seen <- v5, told <- v6,
  inc <- v7, todo <- v8, said <- v9, sends <- v10
Q == INSTANCE RequestWorker WITH
  Attempts <- Times, enabled <- v1, worker <- v2, timer <- v3, req <- v4, pc <- v5,
  claim <- v6, opened <- v7
H == INSTANCE ReportHeartbeat WITH
  Targets <- {"t1", "t2"}, Kinds <- Reports, Objects <- Times + 1,
  Limits <- {Times, Times + 1}, store <- v1, jobs <- v2, dueAt <- v3, aware <- v4,
  pc <- v5, required <- v6, result <- v7
G == INSTANCE RuntimeGuard WITH
  Ends <- Times + 1, Failures <- Times, Lookback <- 1, Reminder <- 2, Retention <- 2,
  Replies <- Answers, now <- v1, log <- v2, file <- v3, run <- v4, tried <- v5,
  noticed <- v6
F == INSTANCE AccountFacts WITH
  Reports <- Times + 1, Reads <- Times + 1, Changes <- Times, store <- v1,
  serving <- v2, changes <- v3, how <- v4, pc <- v5, expected <- v6, newest <- v7,
  listed <- v8, at <- v9, confirmed <- v10, stored <- v11, days <- v12, result <- v13
B == INSTANCE CashProbe WITH
  Dispatches <- Times, mode <- v1, base <- v2, tags <- v3, jobs <- v4, reading <- v5,
  at <- v6, n <- v7, pc <- v8, before <- v9, attempted <- v10, started <- v11,
  taken <- v12, out <- v13
L == INSTANCE ScheduledProbe WITH
  Times <- 2 * Times, Dispatches <- Times, Period <- 2 * Times, conf <- v1,
  source <- v2, now <- v3, next <- v4, attempts <- v5, n <- v6, mode <- v7, pc <- v8,
  reviewed <- v9, before <- v10, evidence <- v11, job <- v12, fence <- v13, out <- v14
K == INSTANCE BaselineRecovery WITH
  Readings <- Times + 1, Changes <- 1, initial <- v1, acct <- v2, reading <- v3,
  reports <- v4, console <- v5, plan <- v6, ledger <- v7, svc <- v8, revs <- v9,
  sync <- v10
Y == INSTANCE CycleReport WITH
  Runs <- Times, pc <- v1, lock <- v2, did <- v3, sum <- v4, report <- v5, stored <- v6,
  marker <- v7, told <- v8
O == INSTANCE RuntimeSwitch WITH
  Inventories <- Wanted, Dispatches <- Times, Changes <- 1, pc <- v1, kind <- v2,
  want <- v3, base <- v4, cand <- v5, svc <- v6, same <- v7, theirs <- v8, main <- v9,
  pre <- v10, noop <- v11, result <- v12, left <- v13, changes <- v14
=============================================================================
