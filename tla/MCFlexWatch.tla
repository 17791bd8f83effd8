---------------------------- MODULE MCFlexWatch -----------------------------
(***************************************************************************)
(* Instances of FlexWatch for TLC.                                         *)
(***************************************************************************)
EXTENDS FlexWatch, TLC

CONSTANTS w1, w2

Alike == Permutations({w1, w2})
=============================================================================
