------------------------ MODULE SubmissionAuthority -------------------------
(***************************************************************************)
(* What the durable stores of one broker account promise, whatever process *)
(* talks to them: who may send an order to the broker, and when.           *)
(*                                                                         *)
(* The account has one holder (a strategy profile) for good; each key, a   *)
(* profile and a signal date, is granted for good to at most one request;  *)
(* a request that was granted a key of the holder opens attempts, one at a *)
(* time over the whole account; an open attempt yields at most one order,  *)
(* and is settled or stays open, barring every later attempt.  A settled   *)
(* attempt never yields an order.                                          *)
(*                                                                         *)
(* No process, lock, file or crash appears here.                           *)
(***************************************************************************)
CONSTANTS Requests, Profiles, Keys, Attempts, None

\* A key is a <<profile, date>>, an attempt starts with its request.
RequestOf(a) == a[1]
HolderOf(k)  == k[1]

VARIABLES
  holder,    \* the profile that owns the account, or None
  grantee,   \* grantee[k]: the request that owns key k, or None
  open,      \* the attempts whose outcome is not known
  settled,   \* the attempts whose outcome is known
  placed     \* the attempts that have an order at the broker

vars == <<holder, grantee, open, settled, placed>>

Init ==
  /\ holder = None
  /\ grantee = [k \in Keys |-> None]
  /\ open = {}
  /\ settled = {}
  /\ placed = {}

Hold(p) ==
  /\ holder = None
  /\ holder' = p
  /\ UNCHANGED <<grantee, open, settled, placed>>

\* Only the holder's keys are ever granted.
Grant(k, r) ==
  /\ holder = HolderOf(k)
  /\ grantee[k] = None
  /\ grantee' = [grantee EXCEPT ![k] = r]
  /\ UNCHANGED <<holder, open, settled, placed>>

Granted(r) == \E k \in Keys : grantee[k] = r

Open(a) ==
  /\ open = {}
  /\ a \notin settled
  /\ Granted(RequestOf(a))
  /\ open' = {a}
  /\ UNCHANGED <<holder, grantee, settled, placed>>

Order(a) ==
  /\ a \in open \ placed
  /\ placed' = placed \cup {a}
  /\ UNCHANGED <<holder, grantee, open, settled>>

Settle(a) ==
  /\ a \in open
  /\ open' = open \ {a}
  /\ settled' = settled \cup {a}
  /\ UNCHANGED <<holder, grantee, placed>>

Next ==
  \/ \E p \in Profiles : Hold(p)
  \/ \E k \in Keys, r \in Requests : Grant(k, r)
  \/ \E a \in Attempts : Open(a) \/ Order(a) \/ Settle(a)

Spec == Init /\ [][Next]_vars
=============================================================================
