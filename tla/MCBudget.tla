------------------------------ MODULE MCBudget ------------------------------
(***************************************************************************)
(* Instances of BudgetAccounts for TLC.                                    *)
(***************************************************************************)
EXTENDS BudgetAccounts, TLC

CONSTANTS r1, r2, r3, acme, p1, p2

MCReplicas == {p1, p2}
MCNone == {}

\* One tenant, its requests spread over two replicas.
MCReq2 == {r1, r2}
MCReq3 == {r1, r2, r3}
MCOneTenant == {acme}
MCReplicaOf2 == r1 :> p1 @@ r2 :> p2
MCReplicaOf3 == r1 :> p1 @@ r2 :> p1 @@ r3 :> p2
MCTenantOf2 == r1 :> acme @@ r2 :> acme
MCTenantOf3 == r1 :> acme @@ r2 :> acme @@ r3 :> acme
MCLimitOne == acme :> 3

\* Room for one reservation.
MCLimitLow == acme :> 1

MCLossFaults == FaultKinds \ {"wipe"}
MCTimeout == {"timeout"}
MCRepeatFaults == {"timeout", "wipe", "crash"}
=============================================================================
