--------------------------- MODULE MCFlexForward ----------------------------
(***************************************************************************)
(* Instances of FlexForward for TLC.                                       *)
(***************************************************************************)
EXTENDS FlexForward, TLC

CONSTANT e1

\* The event takes effect on the second day.
OnSecondDay == e1 :> 2
=============================================================================
