--------------------------- MODULE BudgetAccounts ---------------------------
(***************************************************************************)
(* What the counters of BudgetGate are worth: they are compared with what  *)
(* the requests of a tenant's month really cost.                           *)
(***************************************************************************)
EXTENDS BudgetGate, Functions

\* The requests that hold, or held, a reservation on key k.
OnKey(k) == {r \in Requests : res[r].active /\ res[r].key = k}

\* What a request owes its key: the estimate until a response is known.
Owes == [r \in Requests |-> IF status[r] = "none" THEN res[r].est ELSE cost[r]]

Charged(k) == SumFunctionOnSet(Owes, OnKey(k))

\* No response on k cost more than its estimate.
Conservative(k) == \A r \in OnKey(k) : cost[r] <= res[r].est

\* A counter is kept at least for its own month and the next.
InUse(k) == month <= k[2] + 1

(***************************************************************************)
(* A counter falls below what its requests owe by no more than Redis lost  *)
(* with its data and refunds gave back when they were executed again: a    *)
(* lost refund, a late command, a repeated reservation or a crash may      *)
(* leave it too high, never too low.  True while responses do not cost     *)
(* more than their estimates (Reserve, reconcile).                         *)
(***************************************************************************)
NoUndercount ==
    \A k \in Keys :
        InUse(k) /\ Conservative(k) => Charged(k) <= counter[k] + missing[k]

(***************************************************************************)
(* How far concurrent requests across replicas can blow past the cap: as   *)
(* long as the estimates were conservative, the month's charges exceed it  *)
(* by no more than Redis lost and repeated refunds gave back (Reserve,     *)
(* reconcile).                                                             *)
(***************************************************************************)
SpendWithinCap ==
    \A k \in Keys : Conservative(k) => Charged(k) <= Limit[k[1]] + missing[k]

(***************************************************************************)
(* README: concurrent requests across replicas cannot blow past the cap;   *)
(* the estimates being conservative, the month's charges stay within it.   *)
(***************************************************************************)
NeverPastCap ==
    \A k \in Keys : Conservative(k) => Charged(k) <= Limit[k[1]]

(***************************************************************************)
(* The reconciled counter equals the metered cost (the multi-replica       *)
(* test), across month ends and beside requests that were lost or killed,  *)
(* whenever every reservation Redis granted on the key was used by its     *)
(* handler and moved to the cost, no command of theirs was executed twice  *)
(* and nothing was lost.  In particular a counter never expires during its *)
(* own month or the next.                                                  *)
(***************************************************************************)
Moved(r) ==
    /\ res[r].active
    /\ status[r] # "none"
    /\ adjusted[r] > 0 \/ cost[r] = res[r].est

AllMoved(k) == \A r \in Requests : granted[r] > 0 /\ res[r].key = k => Moved(r)

ExecutedOnce(k) ==
    \A r \in Requests : res[r].key = k => granted[r] <= 1 /\ adjusted[r] <= 1

ExactWhenSettled ==
    \A k \in Keys :
        InUse(k) /\ AllMoved(k) /\ ExecutedOnce(k) /\ missing[k] = 0 =>
            counter[k] = Charged(k)

(***************************************************************************)
(* When the provider answers, a request that asked for a reservation is    *)
(* refused, or answered and metered, unless its replica dies: whatever     *)
(* Redis does, and whatever is lost, late or abandoned, no handler stays   *)
(* between its reservation and its metering (forward, enqueue).            *)
(***************************************************************************)
Answered(r) ==
    pc[r] = "done" /\ (r \in metered \/ status[r] \in {"429", "503"})

EventuallySettled ==
    \A r \in Requests : (pc[r] = "reserving") ~> (Answered(r) \/ pc[r] = "dead")
=============================================================================
