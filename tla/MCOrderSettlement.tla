------------------------- MODULE MCOrderSettlement --------------------------
(***************************************************************************)
(* Instances of OrderSettlement for TLC.                                   *)
(***************************************************************************)
EXTENDS OrderSettlement, TLC

CONSTANTS w1, w2

EitherWorker == Permutations({w1, w2})
=============================================================================
