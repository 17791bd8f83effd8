---------------------------- MODULE GatewaySession ---------------------------
(***************************************************************************)
(* Which gateway a request trades at, and as whom                          *)
(* (runtime_config_support.py, load_platform_runtime_settings; main.py,    *)
(* get_ib_host, refresh_ib_host, build_broker_adapters and connect_ib;     *)
(* application/runtime_broker_adapters.py).  An instance reads the newest  *)
(* configuration of its account group once, when it starts, and keeps the  *)
(* address of its gateway.  Meanwhile the configuration changes, the       *)
(* gateway moves, comes back with another login, or read-only, and another *)
(* gateway is found at its address.  What a request does with the session  *)
(* is RequestWorker.                                                       *)
(***************************************************************************)
EXTENDS Integers

CONSTANTS
  Files,     \* what a version of the configuration may say of the group
  Deployed,  \* the environments of a revision
  Attempts,  \* bound: connect_attempts
  Changes    \* bound: what changes outside

Unset == 0
Name == 9    \* the name of the gateway's instance, for its address
Addresses == 1..2
Logins == {{"a"}, {"a", "b"}, {"p"}}   \* the accounts of a user, p is a paper account
Other == {"x"}

NoConf == [backend |-> "none"]
NoReq == [kind |-> "none", read |-> TRUE, prove |-> FALSE, tries |-> 0, addr |-> Unset]
NoSess == [open |-> FALSE, as |-> {}, locked |-> FALSE, write |-> FALSE, client |-> 0]

VARIABLES
  env,      \* the environment of the revision
  secret,   \* the latest version of the configuration
  net,      \* where the gateways are; login and API setting of ours
  was,      \* history: the addresses our gateway was found at
  conf,     \* RUNTIME_SETTINGS
  host,     \* IB_HOST
  pc,
  req,
  sess,     \* the session, with what the gateway was when it was opened
  changes

vars == <<env, secret, net, was, conf, host, pc, req, sess, changes>>
outside == <<env, secret, net, changes>>
instance == <<was, conf, host>>

TypeOK ==
  /\ env \in Deployed /\ secret \in Files
  /\ net.ours \in 0..2 /\ net.other \in Addresses /\ net.as \in Logins /\ net.locked \in BOOLEAN
  /\ was \subseteq Addresses
  /\ conf # NoConf => conf.backend \in {"gateway", "quantconnect"} /\ conf.mode \in {"paper", "live"}
  /\ host \in {Unset, Name} \cup Addresses
  /\ pc \in {"start", "idle", "host", "connect", "refresh", "accounts", "permit", "use"}
  /\ req.kind \in {"none", "cycle", "read", "permission", "commands"}
  /\ req.tries \in 0..Attempts /\ req.addr \in {Unset, Name} \cup Addresses
  /\ {req.read, req.prove, sess.open, sess.write, sess.locked} \subseteq BOOLEAN
  /\ changes \in 0..Changes

Init ==
  /\ env \in Deployed /\ secret \in Files
  /\ net = [ours |-> 1, other |-> 2, as |-> {"a"}, locked |-> FALSE]
  /\ was = {} /\ conf = NoConf /\ host = Unset
  /\ pc = "start" /\ req = NoReq /\ sess = NoSess
  /\ changes = 0

----------------------------------------------------------------------------
(* The configuration.                                                      *)

First(v, w) == IF v # "none" THEN v ELSE w

\* load_account_group_config: a named secret, its latest version, else the
\* text of the environment.
File == IF env.named THEN secret ELSE env.raw

\* Mutant: the other way round.
SwappedPort(mode) == IF mode = "live" THEN "paper" ELSE "live"

\* resolve_ib_gateway_port.
UsualPort(mode) == mode

Backend(f) == First(First(f.backend, env.backend), "gateway")

\* What is missing for a gateway stops the instance; so does a group that is
\* not in the configuration.
Complete(f) == f.group /\ (Backend(f) = "gateway" => f.mode # "none" /\ f.client >= 0)

\* The group goes before the environment.
Settings(f) ==
  LET mode == First(f.mode, "live")
      said == First(f.port, env.port)
  IN  [backend |-> Backend(f), project |-> f.project, zone |-> f.zone \/ env.zone, mode |-> mode,
       port |-> IF Backend(f) = "gateway" THEN First(said, UsualPort(mode)) ELSE said,
       usual |-> said = "none", client |-> IF f.client >= 0 THEN f.client ELSE 0,
       ids |-> f.ids, dry |-> env.dry]

Load ==
  /\ pc = "start" /\ Complete(File)
  /\ conf' = Settings(File)
  /\ pc' = "idle"
  /\ UNCHANGED <<outside, was, host, req, sess>>

----------------------------------------------------------------------------
(* The address.                                                            *)

\* Mutant: a configured project is looked for like our own.
LookupByName == {net.ours, Name} \ {Unset}

\* resolve_gce_instance_ip: without an address the name serves, but not for
\* an instance of a configured project: there it is Unset, for an error.
Lookup == IF conf.project THEN {net.ours, Unset} ELSE {net.ours, Name} \ {Unset}

NewHost(h) ==
  /\ host' = h
  /\ was' = IF h = net.ours /\ h # Unset THEN was \cup {h} ELSE was

End == pc' = "idle" /\ req' = NoReq /\ sess' = NoSess

\* get_ib_host: the cached one; a project needs a zone to look in.
ResolveHost ==
  /\ pc = "host"
  /\ \/ /\ host # Unset
        /\ req' = [req EXCEPT !.addr = host] /\ pc' = "connect"
        /\ UNCHANGED <<was, host, sess>>
     \/ /\ host = Unset /\ (conf.zone \/ ~conf.project)
        /\ \E h \in IF conf.zone THEN Lookup ELSE {Name} :
             IF h = Unset THEN End /\ UNCHANGED <<was, host>>
             ELSE /\ NewHost(h) /\ req' = [req EXCEPT !.addr = h] /\ pc' = "connect"
                  /\ UNCHANGED sess
     \/ /\ host = Unset /\ conf.project /\ ~conf.zone
        /\ End /\ UNCHANGED <<was, host>>
  /\ UNCHANGED <<outside, conf>>

\* Mutant: the last address known to be good is given up for the name.
NewestAddress(h) == h

\* refresh_ib_host: a name does not replace an address.
LastGood(h) == IF h = Name /\ host # Unset THEN host ELSE h

\* Between two attempts; an error of a configured project forgets the address
\* and ends the request.
Refresh ==
  /\ pc = "refresh"
  /\ \E h \in IF conf.zone THEN Lookup ELSE {req.addr} :
       /\ IF conf.zone THEN NewHost(LastGood(h)) ELSE UNCHANGED <<was, host>>
       /\ IF h = Unset THEN End
          ELSE req' = [req EXCEPT !.addr = LastGood(h)] /\ pc' = "connect" /\ UNCHANGED sess
  /\ UNCHANGED <<outside, conf>>

----------------------------------------------------------------------------
(* The session.                                                            *)

\* Mutant: a dry run opens a session like any other.
WritesWhenDry(kind) == kind \in {"read", "commands"}

\* connect_ib_for_cycle, effective_dry_run_only: reading, not to write.
ReadOnly(kind) == kind \in {"read", "commands"} \/ conf.dry

\* Mutant: of client zero.
AnyClient == TRUE

NonzeroClient == conf.client > 0

Opened(kind) ==
  LET read == ReadOnly(kind)
      once == kind # "commands" /\ (read \/ kind = "permission")
  IN  [kind |-> kind, read |-> read, prove |-> ~read \/ kind = "commands",
       tries |-> IF once THEN 1 ELSE Attempts, addr |-> Unset]

\* connect_ib requires the gateway, and a client of its own to read; the
\* permission probe a live target with an account; the paper commands, which
\* do without connect_ib, a dry and paper one.
Receive ==
  /\ pc = "idle"
  /\ \E kind \in {"cycle", "read", "permission", "commands"} :
       /\ kind # "commands" => conf.backend = "gateway" /\ (ReadOnly(kind) => NonzeroClient)
       /\ kind = "permission" => conf.mode = "live" /\ ~conf.dry /\ conf.ids # {}
       /\ kind = "commands" => conf.mode = "paper" /\ conf.dry
       /\ req' = Opened(kind)
  /\ pc' = "host"
  /\ UNCHANGED <<outside, instance, sess>>

\* Who answers there: our own network knows the name of our gateway, or of
\* another one when ours is in a configured project.
Reached(addr) ==
  CASE addr = Name -> IF conf.project THEN "other" ELSE IF net.ours # 0 THEN "ours" ELSE "nobody"
    [] addr = net.ours -> "ours"
    [] addr = net.other -> "other"
    [] OTHER -> "nobody"
UserAt(gw) == IF gw = "ours" THEN net.as ELSE IF gw = "other" THEN Other ELSE {}
\* A gateway listens on the port of its kind of login.
Listens(user, port) == user # {} /\ port = (IF user = {"p"} THEN "paper" ELSE "live")

\* A connection that is lost or refused is tried again, as another client.
Lost ==
  /\ sess' = NoSess
  /\ IF req.tries > 1
     THEN req' = [req EXCEPT !.tries = @ - 1] /\ pc' = "refresh"
     ELSE req' = NoReq /\ pc' = "idle"

Connect ==
  /\ pc = "connect"
  /\ \/ LET gw == Reached(req.addr)
        IN  /\ Listens(UserAt(gw), conf.port)
            /\ sess' = [open |-> TRUE, as |-> UserAt(gw), locked |-> gw = "ours" /\ net.locked,
                        write |-> ~req.read,
                        client |-> conf.client + (IF req.kind = "cycle" THEN Attempts - req.tries ELSE 0)]
            /\ pc' = "accounts" /\ UNCHANGED req
     \/ Lost
  /\ UNCHANGED <<outside, instance>>

\* Mutant: it is left open.
LeftOpen == pc' = "idle" /\ req' = NoReq /\ UNCHANGED sess

\* What is refused is disconnected.
Refused == End

\* Mutant: what is configured is not asked for.
AnyAccounts == TRUE

\* validate_configured_accounts; without any a live execution is refused.
OfTheGroup ==
  IF conf.ids = {} THEN conf.mode # "live" \/ req.read ELSE conf.ids \subseteq sess.as

\* An account that is not there is no lost connection: nothing is retried.
Accounts ==
  /\ pc = "accounts"
  /\ \/ OfTheGroup /\ pc' = (IF req.prove THEN "permit" ELSE "use") /\ UNCHANGED <<req, sess>>
     \/ ~OfTheGroup /\ Refused
     \/ Lost
  /\ UNCHANGED <<outside, instance>>

\* Mutant: any refusal of the what-if order is one for want of margin.
AnyRefusal == TRUE

\* validate_trading_permissions: an order that is not transmitted, of live
\* executions only; a margin that does not suffice shows that it arrived.
MayWrite == ~sess.locked

Permit ==
  /\ pc = "permit"
  /\ \/ (req.read \/ conf.mode # "live" \/ MayWrite) /\ pc' = "use" /\ UNCHANGED <<req, sess>>
     \/ ~req.read /\ conf.mode = "live" /\ (Refused \/ (~sess.locked /\ Lost))
  /\ UNCHANGED <<outside, instance>>

Use == pc = "use" /\ End /\ UNCHANGED <<outside, instance>>

----------------------------------------------------------------------------
(* Outside.                                                                *)

Move ==
  /\ \E ours \in 0..2, other \in Addresses :
       ours # other /\ net' = [net EXCEPT !.ours = ours, !.other = other]
  /\ UNCHANGED secret

Relogin ==
  /\ \E user \in Logins, locked \in BOOLEAN : net' = [net EXCEPT !.as = user, !.locked = locked]
  /\ UNCHANGED secret

Reconfigure == secret' \in Files /\ UNCHANGED net

Outside ==
  /\ changes < Changes /\ changes' = changes + 1
  /\ Move \/ Relogin \/ Reconfigure
  /\ UNCHANGED <<env, instance, pc, req, sess>>

\* Another instance of the revision, after this one or beside it.
Restart ==
  /\ pc # "start"
  /\ pc' = "start" /\ conf' = NoConf /\ host' = Unset /\ was' = {} /\ req' = NoReq /\ sess' = NoSess
  /\ UNCHANGED outside

Next ==
  \/ Load \/ Receive \/ ResolveHost \/ Refresh \/ Connect \/ Accounts \/ Permit \/ Use
  \/ Outside \/ Restart

Spec == Init /\ [][Next]_vars

(***************************************************************************)
(* Properties.                                                             *)
(***************************************************************************)

\* A live execution has a session of the configured accounts, with an API
\* that takes its orders, whatever became of the address, the login or the
\* configuration (validate_configured_accounts, validate_trading_permissions).
LiveIsOurs ==
  pc = "use" /\ sess.write /\ conf.mode = "live" => conf.ids # {} /\ conf.ids \subseteq sess.as /\ ~sess.locked

\* Execution of a paper group on the port of its mode is of no live account,
\* though no account needs to be configured (resolve_ib_gateway_port).
PaperIsPaper == sess.write /\ conf.mode = "paper" /\ conf.usual => sess.as = {"p"}

\* The gateway of a configured project is looked for in that project: another
\* instance of the name is never asked (resolve_gce_instance_ip), and an
\* address is one at which it was (refresh_ib_host).
FoundInProject == conf # NoConf /\ conf.project => {host, req.addr} \subseteq was \cup {Unset}

\* A dry cycle, a probe and a reading have no session that takes orders, or,
\* as client zero, those of others (connect_ib).
ReadingOnly ==
  sess.open => /\ conf.dry \/ req.kind = "read" => ~sess.write
               /\ ~sess.write /\ req.kind # "commands" => sess.client > 0

\* What was found is kept until something else is found (refresh_ib_host).
AddressKept ==
  host \in Addresses /\ ~conf.project /\ pc # "start" /\ pc' # "start" => host' # Name

\* No session is left to a request that was refused (connect_ib, the except
\* clause that disconnects).
RefusedIsClosed == pc \in {"start", "idle"} => ~sess.open

(***************************************************************************)
(* The inductive invariant behind them.                                    *)
(***************************************************************************)

\* What an instance knows of its configuration.
Configured ==
  /\ pc = "start" => host = Unset
  /\ pc # "start" => conf.client \in Int /\ (conf.usual => conf.port \in {conf.mode, "none"})
  /\ secret \in Files /\ env \in Deployed /\ net.ours \in 0..2 /\ DOMAIN net = {"ours", "other", "as", "locked"}

\* Who has no request, or no connection, has no session.
Nobody ==
  /\ DOMAIN req = DOMAIN NoReq /\ req.tries \in Int /\ req.tries <= Attempts
  /\ pc \in {"start", "idle"} => req = NoReq
  /\ pc \notin {"accounts", "permit", "use"} => sess = NoSess

\* How a request is served: to read, or to write and to be proven.
Served ==
  pc \notin {"start", "idle"} =>
    /\ req.read = ReadOnly(req.kind) /\ (req.read \/ req.prove)
    /\ req.read /\ req.kind # "commands" => conf.client > 0

\* A session is one of a gateway that listens; what was validated of it holds.
Validated ==
  /\ pc \in {"accounts", "permit", "use"} =>
       /\ sess.open /\ sess.write = ~req.read /\ Listens(sess.as, conf.port)
       /\ ~sess.write /\ req.kind # "commands" => sess.client > 0
  /\ pc \in {"permit", "use"} => OfTheGroup
  /\ pc = "use" /\ ~req.read /\ conf.mode = "live" => MayWrite
IInv == Configured /\ Nobody /\ Served /\ Validated /\ FoundInProject
=============================================================================
