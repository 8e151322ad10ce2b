------------------------------- MODULE MCAuth -------------------------------
(***************************************************************************)
(* Instances of Auth for TLC.                                              *)
(***************************************************************************)
EXTENDS Auth, TLC

CONSTANTS r1, r2, r3, r4, key, junk

MCRequests == {r1, r2, r3, r4}
MCSymmetry == Permutations({r1, r2, r3})
MCKeys == {key}
MCKeyOf == r1 :> key @@ r2 :> key @@ r3 :> key @@ r4 :> junk
=============================================================================
