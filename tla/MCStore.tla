------------------------------ MODULE MCStore -------------------------------
(***************************************************************************)
(* Instances of Store for TLC.                                             *)
(***************************************************************************)
EXTENDS Store

CONSTANTS p1, p2, job

MCServers == {p1, p2}
MCMigrators == {job}
=============================================================================
