----------------------------- MODULE FlexPublish ------------------------------
(***************************************************************************)
(* One run of publish_ibkr_flex_period_return.py or of                     *)
(* diagnose_ibkr_flex_ledger.py: one report is generated for all accounts, *)
(* read until it is ready (ibkr_flex_source.py), projected to the facts of *)
(* each account (ibkr_flex_ledger.py, ibkr_flex_executions.py,             *)
(* ibkr_external_flow.py, ibkr_period_return.py), and every fact is posted *)
(* once to the receiver, whose answer may be lost or wrong.  A run that is *)
(* killed leaves nothing but its posts, and the next one generates a       *)
(* report of its own.                                                      *)
(***************************************************************************)
EXTENDS Integers, Sequences, FiniteSets, FiniteSetsExt

CONSTANTS
  Settings,     \* configurations: slots in use, the receiver's keys, the shape
  Statements    \* what a report may say of the primary account

Primary == "a"
Slots == <<"b", "c">>
Approved == {Primary} \cup {Slots[i] : i \in DOMAIN Slots}
Pairs == ({Primary} \X {"return", "trades", "flows"}) \cup ({"b", "c"} \X {"return", "flows"})
Publishing == {"full", "primary", "additional", "flows"}
Reading == {"look", "read", "cash", "trades", "coverage"}
Modes == Publishing \cup Reading \cup {"preflight"}
\* Reads of one handle.
MaxReads == 6

VARIABLES
  pc, mode,
  dated,    \* a day, or a period, is asked for
  conf,     \* the configuration
  rep,      \* the report that is generated: its accounts, and what it says of them
  asked,    \* SendRequests of this run
  reads,    \* GetStatements that were not answered with a report
  slot,     \* the additional account that is next
  posts,    \* what has been posted
  again,    \* something was posted twice
  told,     \* the status that is printed
  holds,    \* the facts of this report that the receiver holds
  exit

vars == <<pc, mode, dated, conf, rep, asked, reads, slot, posts, again, told, holds, exit>>

TypeOK ==
  /\ pc \in {"idle", "request", "read", "return", "trades", "flows", "more", "moreflows", "finish"}
  /\ mode \in Modes /\ {dated, again} \subseteq BOOLEAN
  /\ conf \in Settings /\ rep.scope \subseteq Approved \cup {"z"} /\ rep.of[Primary] \in Statements
  /\ asked \in 0..MaxReads /\ reads \in 0..MaxReads /\ slot \in 1..3
  /\ posts \subseteq Pairs /\ holds \subseteq Pairs
  /\ told \in [Pairs -> {"", "ok", "rejected", "http", "unsure", "none", "unavailable", "projection",
                         "mismatch"}]
  /\ exit \in {"", "0", "1", "2"}

----------------------------------------------------------------------------
(* What a statement says.                                                  *)

Rows(q) == {q[i] : i \in DOMAIN q}
\* No two rows of a set have the same native identity.
OneEach(S) == \A r, t \in S : r.id = t.id => r = t
Nothing == [ok |-> FALSE, rows |-> {}]

Deposits == {"DEP", "WITH"}
\* The lines of a statement that move money in or out.
Lines(s) == {i \in 1..Len(s.funds) : s.funds[i].code \in Deposits \cup {"dep"}}
\* The external flows as they are published: all of them, or none.
Flows(s) ==
  LET rows == {r \in {s.funds[i] : i \in Lines(s)} : r.code \in Deposits} IN
  IF /\ s.hasFunds /\ s.period # "bad"
     /\ \A r \in rows : r.id # "" /\ r.cur # "" /\ r.amt # 0 /\ (r.code = "DEP") = (r.amt > 0)
     /\ OneEach(rows)
  THEN [ok |-> TRUE, rows |-> rows] ELSE Nothing

Repeated(s) == \E i, j \in Lines(s) : i < j /\ s.funds[i].id # "" /\ s.funds[i].id = s.funds[j].id
\* Every line is counted.
EveryLine(s) == [ok |-> TRUE, rows |-> Lines(s)]
\* Once an identity is repeated the lines are those of the published flows.
CountedLines(s) ==
  IF ~Repeated(s) THEN EveryLine(s)
  ELSE IF Flows(s).ok /\ \A i \in Lines(s) : s.funds[i].code \in Deposits
       THEN [ok |-> TRUE, rows |-> {i \in Lines(s) : \A j \in Lines(s) : s.funds[j] = s.funds[i] => i <= j}]
       ELSE Nothing
Total(s, S) == MapThenSumSet(LAMBDA i : s.funds[i].amt, S)
\* The net flow: of one currency, and only when every line is understood.
NetFlow(s) ==
  LET counted == CountedLines(s).rows IN
  IF /\ s.hasFunds /\ CountedLines(s).ok /\ \A i \in Lines(s) : s.funds[i].cur # ""
     /\ Cardinality({s.funds[i].cur : i \in counted}) <= 1
  THEN [ok |-> TRUE, sum |-> Total(s, counted)]
  ELSE [ok |-> FALSE, sum |-> 0]

\* What can be read is kept.
KnownTrades(s) == [ok |-> s.hasTrades, rows |-> {r \in Rows(s.trades) : r.level = "EXECUTION" /\ ~r.corrects}]
\* The executions: all of them, or none.
Trades(s) ==
  LET rows == Rows(s.trades) IN
  IF /\ s.hasTrades /\ s.period # "bad"
     /\ \A r \in rows : r.id # "" /\ r.level = "EXECUTION" /\ ~r.corrects
     /\ OneEach(rows)
  THEN [ok |-> TRUE, rows |-> rows] ELSE Nothing

\* The broker's own return, of exactly the statement's interval.
NativeReturn(s) == s.nav.rows = 1 /\ s.nav.twr /\ s.nav.fits /\ s.period # "bad"

----------------------------------------------------------------------------
(* The configuration, the report's accounts, the answer to a post.         *)

\* The slots are not compared.
AnyKeys(c) == TRUE
\* Each account has a key of its own.
OwnKeys(c) == \A x, y \in {Primary} \cup Rows(c.slots) : c.keys[x] = c.keys[y] => x = y
Valid(c) == c.shape /\ OwnKeys(c)

\* Nothing about the other accounts.
ReportedOnly(a) == a \in rep.scope
\* Every account of the report is approved, the target is among them, and no
\* row of its statement is another's.
Verified(a) == a \in rep.scope /\ rep.scope \subseteq Approved /\ ~rep.of[a].stray
Targets ==
  CASE mode \in {"full", "additional"} -> {Primary} \cup Rows(conf.slots)
    [] mode = "coverage" -> rep.scope \cup {Primary} [] OTHER -> {Primary}
AllVerified == \A a \in Targets : Verified(a)

\* Any answer of the receiver is one of success.
AnyAnswer(ans) == IF ans.code = 200 THEN "ok" ELSE "unsure"
\* The acknowledgement names the account, the period and what was stored.
Status(ans) ==
  CASE ans.code = 200 /\ ans.names -> "ok" [] ans.code = 200 /\ ~ans.names -> "unsure"
    [] ans.code = 400 -> "rejected" [] ans.code = 500 -> "http" [] OTHER -> "unsure"
\* What the receiver may answer: it has stored what it acknowledges, nothing
\* that it rejects, and otherwise one does not know.
Answers ==
  {ans \in [code: {0, 200, 400, 500}, names: BOOLEAN, stored: BOOLEAN] :
     /\ (ans.code = 200 /\ ans.names) => ans.stored
     /\ ans.code = 400 => ~ans.stored
     /\ ans.names => ans.code = 200}

\* What cannot be posted, and why.
Unsendable(a, k) ==
  LET s == rep.of[a] IN
  CASE k = "return" /\ ~NativeReturn(s) -> "unavailable"
    [] k = "return" /\ NativeReturn(s) /\ s.base = "" -> "projection"
    [] k = "trades" /\ ~Trades(s).ok -> "none"
    [] k = "flows" /\ ~Flows(s).ok -> "none"
    [] k = "flows" /\ Flows(s).ok /\ Flows(s).rows = {} /\ s.base = "" -> "projection"
    [] OTHER -> ""
\* What is of another day than was asked for.
Mismatch(a, k) == dated /\ (k # "flows" \/ mode = "flows") /\ rep.of[a].period # "asked"
Owed(a, k) == Unsendable(a, k) = "" /\ ~Mismatch(a, k)

Good == {"ok"}
Failed == {"unsure", "http", "rejected", "projection", "mismatch"}
FailedPrimary ==
  told[<<Primary, "return">>] # "ok" \/ \E k \in {"trades", "flows"} : told[<<Primary, k>>] \in Failed
\* Only what may be shared by the accounts stops the others.
NeverStops(status) == FALSE
Stops(status) == status \in {"rejected", "http"}

----------------------------------------------------------------------------
\* Before a report is generated.
Usual == CHOOSE s \in Statements : s.plain /\ ~s.stray /\ NativeReturn(s)
NoReport == [scope |-> {}, of |-> [a \in Approved |-> Usual]]

Init ==
  /\ pc = "idle" /\ mode = "full" /\ dated = FALSE /\ conf \in Settings /\ Valid(conf)
  /\ rep = NoReport
  /\ asked = 0 /\ reads = 0 /\ slot = 1 /\ posts = {} /\ again = FALSE
  /\ told = [p \in Pairs |-> ""] /\ holds = {} /\ exit = ""

At(p) == pc = p
Go(p) == pc' = p
Kept == <<mode, dated, conf, rep, asked, reads, slot, posts, again, told, holds, exit>>

\* The modes of the command line and the days they need.
Permitted(m, d, c) ==
  /\ m = "primary" => d
  /\ m = "additional" => c.slots # <<>>
  /\ Len(c.slots) = 1 => m = "additional" /\ d
  /\ m = "trades" => d

\* Looks at each field, and says what a run would say of the configuration.
Preflight(c) == Valid(c)

Dispatch ==
  /\ At("idle")
  /\ \E m \in Modes, d \in BOOLEAN, c \in Settings :
       \* bound: elsewhere the slots are not looked at
       /\ m \in {"full", "additional", "coverage"} \/ c.slots = <<>>
       /\ mode' = m /\ dated' = d /\ conf' = c
       /\ IF m # "preflight" /\ Valid(c) /\ Permitted(m, d, c) THEN Go("request") /\ exit' = ""
          ELSE Go("idle") /\ exit' = IF m = "preflight" /\ Preflight(c) THEN "0" ELSE "2"
  /\ asked' = 0 /\ reads' = 0 /\ slot' = 1 /\ posts' = {} /\ again' = FALSE
  /\ told' = [p \in Pairs |-> ""] /\ holds' = {} /\ rep' = NoReport

Fail == Go("idle") /\ exit' = "1"

\* SendRequest, once.  What the report will be is not known yet.
Request ==
  /\ At("request") /\ asked' = asked + 1
  /\ \/ /\ Go("read") /\ UNCHANGED exit
        /\ \E scope \in {Approved, {Primary, "b"}, {"b", "c"}, Approved \cup {"z"}},
              s \in Statements, o \in {o \in Statements : o.plain} :
             rep' = [scope |-> scope, of |-> [NoReport.of EXCEPT ![Primary] = s, !["b"] = o]]
     \/ Fail /\ UNCHANGED rep
  /\ UNCHANGED <<mode, dated, conf, reads, slot, posts, again, told, holds>>

\* The report is asked for anew while it is not ready.
AskAnew == "request"
\* The handle is kept while the report is not ready.
OnPending == "read"
ReadsOf(m) == IF m = "look" THEN 1 ELSE MaxReads

\* GetStatement: an error, not ready (1019), or the report.
Pending ==
  /\ At("read") /\ reads < ReadsOf(mode) /\ reads' = reads + 1
  /\ IF reads' = ReadsOf(mode) THEN Fail ELSE Go(OnPending) /\ UNCHANGED exit
  /\ UNCHANGED <<mode, dated, conf, rep, asked, slot, posts, again, told, holds>>

First == CASE mode \in {"full", "primary"} -> "return" [] mode = "flows" -> "flows" [] mode = "additional" -> "more"
           [] OTHER -> "finish"
Collect ==
  /\ At("read") /\ reads < ReadsOf(mode) /\ reads' = 0
  /\ \/ AllVerified /\ Go(First) /\ UNCHANGED exit
     \/ Fail   \* not verified, or no report
  /\ UNCHANGED <<mode, dated, conf, rep, asked, slot, posts, again, told, holds>>

----------------------------------------------------------------------------
(* The posts.                                                              *)

Held(p, stored) ==
  IF stored THEN {q \in holds : conf.keys[q[1]] # conf.keys[p[1]] \/ q[2] # p[2]} \cup {p} ELSE holds

\* One POST of what can be posted.
Post(p, next) ==
  IF Owed(p[1], p[2])
  THEN \E ans \in Answers :
         /\ told' = [told EXCEPT ![p] = Status(ans)] /\ holds' = Held(p, ans.stored)
         /\ posts' = posts \cup {p} /\ again' = (again \/ p \in posts) /\ Go(next)
  ELSE /\ LET why == Unsendable(p[1], p[2]) IN told' = [told EXCEPT ![p] = IF why # "" THEN why ELSE "mismatch"]
       /\ Go(next) /\ UNCHANGED <<posts, again, holds>>
PostUnchanged == <<mode, dated, conf, rep, asked, reads, exit>>

PublishReturn ==
  /\ At("return") /\ Post(<<Primary, "return">>, IF mode = "primary" THEN "finish" ELSE "trades")
  /\ UNCHANGED <<slot, PostUnchanged>>
PublishTrades == At("trades") /\ Post(<<Primary, "trades">>, "flows") /\ UNCHANGED <<slot, PostUnchanged>>
PublishFlows ==
  /\ At("flows") /\ Post(<<Primary, "flows">>, IF mode = "flows" THEN "finish" ELSE "more")
  /\ UNCHANGED <<slot, PostUnchanged>>

\* Whatever became of the primary account.
NeverSkips == FALSE
\* Nothing is left to publish, or the primary account has failed.
Skip == mode = "full" /\ FailedPrimary
More == slot <= Len(conf.slots) /\ ~Skip
Account == conf.slots[slot]

PublishAdditional ==
  /\ At("more") /\ More /\ Post(<<Account, "return">>, "moreflows")
  /\ UNCHANGED <<slot, PostUnchanged>>

\* The flows of an additional account are published with an undated run only.
FlowsToo == mode = "full" /\ ~dated /\ told[<<Account, "return">>] \in {"ok", "unavailable"}
AdditionalFlows ==
  /\ At("moreflows") /\ FlowsToo
  /\ Post(<<Account, "flows">>, "more") /\ slot' = slot + 1
  /\ UNCHANGED PostUnchanged
NextAdditional ==
  /\ At("moreflows") /\ ~FlowsToo /\ slot' = slot + 1
  /\ Go(IF Stops(told[<<Account, "return">>]) THEN "finish" ELSE "more")
  /\ UNCHANGED <<posts, again, told, holds, PostUnchanged>>
NoMore == At("more") /\ ~More /\ Go("finish") /\ UNCHANGED Kept

----------------------------------------------------------------------------
(* How a run ends.                                                         *)

\* The primary account alone.
PrimaryCode == IF FailedPrimary THEN "1" ELSE "0"
Code ==
  LET ok(a, k) == told[<<a, k>>] \in Good
      others == Rows(conf.slots) IN
  CASE mode = "full" ->
         IF FailedPrimary \/ \E a \in others : told[<<a, "return">>] \notin {"", "ok"} \/ told[<<a, "flows">>] \in Failed
         THEN "1" ELSE "0"
    [] mode = "primary" -> IF ok(Primary, "return") THEN "0" ELSE "1"
    [] mode = "additional" -> IF \A a \in others : ok(a, "return") THEN "0" ELSE "1"
    [] OTHER -> IF ok(Primary, "flows") THEN "0" ELSE "1"

\* The period is not looked at.
AnyPeriod == TRUE
\* What a reading may tell: its result is rebuilt from fields that are valid,
\* and a period that was not asked for is an error.
PublicReturn(s) == NativeReturn(s) /\ s.base # ""
PublicShape(s) == s.period # "bad"
PublicTrades(s) == s.period # "bad" /\ ~s.stray
PublicCoverage == Primary \in rep.scope
AskedFor == dated => \A a \in Targets : rep.of[a].period = "asked"
Reported ==
  LET s == rep.of[Primary] IN
  /\ AskedFor
  /\ CASE mode = "coverage" -> PublicCoverage [] mode = "cash" -> PublicShape(s) [] mode = "trades" -> PublicTrades(s)
       [] OTHER -> PublicReturn(s)

Finish ==
  /\ At("finish") /\ Go("idle")
  /\ exit' = IF mode \in Publishing THEN Code ELSE IF Reported THEN "0" ELSE "1"
  /\ UNCHANGED <<mode, dated, conf, rep, asked, reads, slot, posts, again, told, holds>>

Next ==
  \/ Dispatch \/ Request \/ Pending \/ Collect
  \/ PublishReturn \/ PublishTrades \/ PublishFlows \/ PublishAdditional \/ AdditionalFlows \/ NextAdditional \/ NoMore
  \/ Finish

----------------------------------------------------------------------------
(* Properties.                                                             *)

Wanted ==
  (IF mode = "additional" THEN {} ELSE {Primary}) \cup (IF mode \in {"full", "additional"} THEN Rows(conf.slots) ELSE {})

\* A run that ends well (exit code 0 of main) has left at the receiver, under
\* a key of its own, the return of every account it was to publish, and
\* everything it has posted.
SuccessIsHeld ==
  (exit = "0" /\ mode \in Publishing) =>
    /\ posts \subseteq holds
    /\ \A a \in Wanted : <<a, IF mode = "flows" THEN "flows" ELSE "return">> \in holds
    /\ (mode = "full" /\ Owed(Primary, "trades")) => <<Primary, "trades">> \in holds

\* A reading that ends well is of the period that was asked for, and posts nothing.
ReadingIsAsked == mode \in Reading => posts = {} /\ (exit = "0" /\ dated => rep.of[Primary].period = "asked")

\* One report is generated in a run, and nothing is posted twice
\* (collect_pending_activity_flex_ledger, publish_period_return).
OneReport == asked <= 1 /\ ~again

\* Nothing is posted before the statements of all accounts of the run are
\* verified (_collect_return_ledgers), nor a day that was not asked for.
PostedIsVerified ==
  posts # {} => /\ rep.scope \subseteq Approved /\ \A a \in Wanted : a \in rep.scope /\ ~rep.of[a].stray
                /\ (dated => \A p \in posts : p[2] # "flows" => rep.of[p[1]].period = "asked")

\* Nothing is posted for an additional account after what it may share has
\* failed (_stop_additional_publication).
StopsWhenShared ==
  \A i, j \in DOMAIN conf.slots :
    /\ (i < j /\ told[<<conf.slots[i], "return">>] \in {"rejected", "http"}) =>
         <<conf.slots[j], "return">> \notin posts
    /\ (mode = "full" /\ <<conf.slots[j], "return">> \in posts) =>
         \A k \in {"return", "trades", "flows"} : told[<<Primary, k>>] \notin {"unsure", "http", "rejected"}

\* A published set of executions leaves none out, and a net flow counts a
\* native transaction once (project_flex_executions, build_flex_ledger).
CountedOnce ==
  rep.scope # {} =>
  LET s == rep.of[Primary] IN
  /\ Trades(s).ok => Trades(s).rows = Rows(s.trades) /\ ~\E r \in Rows(s.trades) : r.corrects
  /\ (NetFlow(s).ok /\ \A i \in Lines(s) : s.funds[i].id # "") =>
       \E S \in SUBSET Lines(s) :
         /\ \A i, j \in S : s.funds[i].id = s.funds[j].id => i = j
         /\ \A i \in Lines(s) : \E j \in S : s.funds[j].id = s.funds[i].id /\ s.funds[j].amt = s.funds[i].amt
         /\ NetFlow(s).sum = Total(s, S)

(***************************************************************************)
(* The inductive invariant behind OneReport.                               *)
(***************************************************************************)

\* No account has two slots, and none is the primary one.
Apart(c) ==
  \A i \in 1..Len(c.slots) :
    c.slots[i] # Primary /\ \A j \in 1..Len(c.slots) : c.slots[i] = c.slots[j] => i = j

\* Where the run is, what it has posted; before "more" of the primary account.
PostedSoFar ==
  /\ pc \in {"request", "read", "return"} => posts = {}
  /\ pc = "trades" => posts \subseteq {<<Primary, "return">>}
  /\ pc = "flows" => posts \subseteq {<<Primary, "return">>, <<Primary, "trades">>}
  /\ pc \in {"more", "moreflows"} => \A p \in posts :
       \/ p[1] = Primary \/ \E i \in 1..(slot - 1) : p[1] = conf.slots[i]
       \/ pc = "moreflows" /\ p = <<Account, "return">>
IInv ==
  /\ asked \in Nat /\ slot \in Nat \ {0} /\ conf.slots \in Seq({"b", "c"}) /\ Apart(conf)
  /\ asked <= 1 /\ (pc = "request" => asked = 0) /\ again = FALSE
  /\ pc = "moreflows" => slot <= Len(conf.slots)
  /\ PostedSoFar

\* The one behind the posts: what a run may publish, what it knows of what it
\* has posted, and where it is.
Accounts == {Primary} \cup Rows(conf.slots)
Publishes ==
  {p \in Pairs :
     /\ p[1] \in Accounts /\ mode \in Publishing
     /\ mode = "primary" => p = <<Primary, "return">>
     /\ mode = "flows" => p = <<Primary, "flows">>
     /\ mode = "additional" => p[1] # Primary /\ p[2] = "return"}
Books ==
  /\ DOMAIN told = Pairs /\ holds \subseteq posts
  /\ \A p \in posts : p \in Publishes /\ Owed(p[1], p[2]) /\ told[p] \in {"ok", "rejected", "http", "unsure"}
  /\ \A p \in Pairs : (told[p] = "ok" => p \in holds) /\ (told[p] # "" /\ Owed(p[1], p[2]) => p \in posts)
  /\ pc \in {"request", "read"} => posts = {} /\ \A p \in Pairs : told[p] = ""
Places ==
  [return |-> {"full", "primary"}, trades |-> {"full"}, flows |-> {"full", "flows"}, more |-> {"full", "additional"},
   moreflows |-> {"full", "additional"}]
Tried(i) == told[<<conf.slots[i], "return">>] # ""
NotStopped(i) == Tried(i) /\ ~Stops(told[<<conf.slots[i], "return">>])
Rounds ==
  /\ pc \in {"request", "read", "return", "trades", "flows"} => slot = 1
  /\ pc \in {"more", "moreflows"} => slot <= Len(conf.slots) + 1 /\ \A i \in 1..(slot - 1) : NotStopped(i)
  /\ pc = "moreflows" => Tried(slot)
  /\ mode = "full" /\ pc \in {"flows", "more", "moreflows", "finish"} => told[<<Primary, "trades">>] # ""
  /\ mode = "full" /\ pc = "finish" =>
       \/ FailedPrimary \/ \E i \in DOMAIN conf.slots : Stops(told[<<conf.slots[i], "return">>])
       \/ \A i \in DOMAIN conf.slots : Tried(i)
Informed ==
  /\ pc # "idle" \/ posts # {} => OwnKeys(conf)
  /\ pc \in DOMAIN Places => mode \in Places[pc]
  /\ pc \in DOMAIN Places \/ posts # {} => AllVerified
  /\ pc # "idle" => exit = ""
  /\ Books /\ Rounds
  /\ SuccessIsHeld /\ ReadingIsAsked /\ StopsWhenShared
=============================================================================
