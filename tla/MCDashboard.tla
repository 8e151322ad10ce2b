---------------------------- MODULE MCDashboard -----------------------------
(***************************************************************************)
(* An instance of Dashboard for TLC: two tenants with an event each.       *)
(***************************************************************************)
EXTENDS Dashboard, TLC

CONSTANTS e1, e2, acme, globex

MCEvents == {e1, e2}
MCTenants == {acme, globex}
MCTenantOf == e1 :> acme @@ e2 :> globex
=============================================================================
