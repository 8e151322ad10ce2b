------------------------------ MODULE MCMeter -------------------------------
(***************************************************************************)
(* Instances of Meter for TLC.                                             *)
(***************************************************************************)
EXTENDS Meter

CONSTANTS e1, e2, e3, e4

MCThree == {e1, e2, e3}
MCFour == {e1, e2, e3, e4}

MCAll == FaultKinds
MCKill == {"kill"}
=============================================================================
