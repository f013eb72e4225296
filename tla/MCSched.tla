------------------------------ MODULE MCSched -------------------------------
(***************************************************************************)
(* Small instances of the async scheduler for TLC.                         *)
(***************************************************************************)
EXTENDS SchedProps

CONSTANTS f1, f2, f3

OneStart == <<f1>>
TwoStart == <<f1, f2>>
ThreeStart == <<f1, f2, f3>>

=============================================================================
