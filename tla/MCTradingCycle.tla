-------------------------- MODULE MCTradingCycle ---------------------------
(***************************************************************************)
(* An instance of TradingCycle for TLC.                                    *)
(***************************************************************************)
EXTENDS TradingCycle, TLC

CONSTANTS i1, i2, p1, s1

\* Two instances of one service, as during the replacement of a revision; each
\* request is named like its instance: the two are alike.
Own         == i1 :> i1 @@ i2 :> i2
Alike       == Permutations({i1, i2})
SameProfile == i1 :> p1 @@ i2 :> p1
ManageOne   == p1 :> {s1}
=============================================================================
