-------------------------- MODULE MCSettledCashBuy --------------------------
(***************************************************************************)
(* Instances of SettledCashBuy for TLC.                                    *)
(***************************************************************************)
EXTENDS SettledCashBuy, TLC

CONSTANTS a, b, c

AnySymbol == Permutations({a, b, c})
=============================================================================
