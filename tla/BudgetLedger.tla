---------------------------- MODULE BudgetLedger -----------------------------
(***************************************************************************)
(* What the monthly counters promise, without a network, replicas or       *)
(* handlers: a request holds one estimate, only as far as the cap allows   *)
(* at that moment, and the hold is moved to one cost, on the counter it    *)
(* was made on.  Both are applied at least once: an amount may be applied  *)
(* again, but no other amount, on no other counter, and an estimate only   *)
(* within the cap.                                                         *)
(***************************************************************************)
EXTENDS Integers

CONSTANTS
    Requests,
    Keys,       \* the counters: a tenant and a month
    Cap,        \* the cap of each counter
    Estimates,  \* what may be held
    Costs       \* what a request may cost

VARIABLES
    counter,
    held,     \* the holds: request, counter, amount
    settled   \* the holds that were moved, with the cost

vars == <<counter, held, settled>>

Init ==
    /\ counter = [k \in Keys |-> 0]
    /\ held = {}
    /\ settled = {}

Known == held \cup {s.hold : s \in settled}

Add(k, a) == counter' = [counter EXCEPT ![k] = @ + a]

Hold(r, k, e) ==
    /\ \A h \in Known : h.req # r
    /\ counter[k] + e <= Cap[k]
    /\ Add(k, e)
    /\ held' = held \cup {[req |-> r, key |-> k, est |-> e]}
    /\ UNCHANGED settled

HoldAgain(h) ==
    /\ counter[h.key] + h.est <= Cap[h.key]
    /\ Add(h.key, h.est)
    /\ UNCHANGED <<held, settled>>

Settle(h, c) ==
    /\ Add(h.key, c - h.est)
    /\ held' = held \ {h}
    /\ settled' = settled \cup {[hold |-> h, cost |-> c]}

SettleAgain(s) ==
    /\ Add(s.hold.key, s.cost - s.hold.est)
    /\ UNCHANGED <<held, settled>>

\* Counters expire, and Redis may restart without its data.
Forget(S) ==
    /\ counter' = [k \in Keys |-> IF k \in S THEN 0 ELSE counter[k]]
    /\ UNCHANGED <<held, settled>>

Next ==
    \/ \E r \in Requests, k \in Keys, e \in Estimates : Hold(r, k, e)
    \/ \E h \in Known : HoldAgain(h)
    \/ \E h \in held, c \in Costs : Settle(h, c)
    \/ \E s \in settled : SettleAgain(s)
    \/ \E S \in SUBSET Keys : Forget(S)

Spec == Init /\ [][Next]_vars
=============================================================================
