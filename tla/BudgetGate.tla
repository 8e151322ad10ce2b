----------------------------- MODULE BudgetGate -----------------------------
(***************************************************************************)
(* The budget gate of spendgate: what a request handler of internal/proxy  *)
(* does to the per-tenant monthly counters of internal/budget, on several  *)
(* replicas that share one Redis.                                          *)
(*                                                                         *)
(* A handler computes an estimate, asks Redis to reserve it (one Lua       *)
(* script), forwards, and afterwards moves the counter from the estimate   *)
(* to the metered cost (one INCRBY).  Both calls are commands on a network *)
(* that may lose them or their answers; the Redis client repeats a failed  *)
(* command, so one call may be executed more than once, or after its       *)
(* caller has stopped waiting.                                             *)
(*                                                                         *)
(* Amounts are micro-USD, abstracted to small naturals.                    *)
(***************************************************************************)
EXTENDS Integers

CONSTANTS
    Requests,     \* the requests clients send, one handler goroutine each
    Tenants,      \* tenants, the first half of a counter's key
    Replicas,     \* gateway processes
    TenantOf,     \* the tenant the auth middleware attached to a request
    ReplicaOf,    \* the process that serves a request
    Capped,       \* tenants whose monthly_budget_usd is not NULL,
    Uncapped,     \* or NULL, for some request (an operator may change it)
    FailOpen,     \* tenants whose fail_open flag is TRUE
    Limit,        \* the cap of each tenant
    Estimates,    \* what estimateMicro may return; 0 is a model without a price
    Costs,        \* what a response may cost; 0 is a provider error
    MaxMonth,     \* bound on the calendar: months 0..MaxMonth
    MaxAttempts,  \* times the Redis client sends a command (MaxRetries + 1)
    Faults        \* the faults a run allows

FaultKinds == {"drop", "timeout", "disconnect", "crash", "wipe"}

ASSUME GateAssumption ==
    /\ TenantOf \in [Requests -> Tenants]
    /\ ReplicaOf \in [Requests -> Replicas]
    /\ Tenants = Capped \cup Uncapped
    /\ FailOpen \subseteq Tenants
    /\ Limit \in [Tenants -> Nat]
    /\ Estimates \subseteq Nat
    /\ Costs \subseteq Nat
    /\ MaxMonth \in Nat
    /\ MaxAttempts \in Nat \ {0}
    /\ Faults \subseteq FaultKinds

Months == 0..MaxMonth
Keys == Tenants \X Months

VARIABLES
    month,    \* the UTC month of time.Now()
    counter,  \* Redis: value of each key, 0 when absent (GET ... or '0')
    live,     \* Redis: keys that exist
    ttl,      \* Redis: existing keys that carry an expiry
    wire,     \* commands sent and neither executed nor lost
    pc,       \* where each handler is
    res,      \* the handler's reservation; active only once Redis granted it
    cost,     \* metered cost, once the response is known
    attempt,  \* which sending of the current command the handler waits for
    reply,    \* the answer to that sending, when there is one
    status,   \* what the client was answered
    metered,  \* requests handed to the metering writer
    granted,  \* history: executions of the script that reserved for a request
    adjusted, \* history: executions of a request's INCRBY
    topup,    \* history: what positive reconciliations added to a key
    missing   \* history: what a key lost when Redis lost its data, or was
              \* given back by refunds executed again

redisVars == <<counter, live, ttl, granted, adjusted, topup, missing>>
vars == <<month, counter, live, ttl, wire, pc, res, cost, attempt, reply,
          status, metered, granted, adjusted, topup, missing>>

(***************************************************************************)
(* A command carries its key and amount; the limit is ARGV[1] of the       *)
(* script.  n tells a retry from the sending it repeats.                   *)
(***************************************************************************)
Ops == {"reserve", "incrby"}
Command == [req: Requests, op: Ops, n: 1..MaxAttempts, key: Keys, amt: Int]
Reservation == [active: BOOLEAN, key: Keys, est: Nat]

Final == {"done", "dead"}
Waiting == {"reserving", "reconciling"}

TypeOK ==
    /\ month \in Months
    /\ counter \in [Keys -> Int]
    /\ live \subseteq Keys
    /\ ttl \subseteq live
    /\ wire \subseteq Command
    /\ pc \in [Requests -> {"idle", "forwarding", "metering"} \cup Waiting \cup Final]
    /\ res \in [Requests -> Reservation]
    /\ cost \in [Requests -> Nat]
    /\ attempt \in [Requests -> 0..MaxAttempts]
    /\ reply \in [Requests -> {"none", "allowed", "denied", "ok"}]
    /\ status \in [Requests -> {"none", "upstream", "429", "502", "503"}]
    /\ metered \subseteq Requests
    /\ granted \in [Requests -> Nat]
    /\ adjusted \in [Requests -> Nat]
    /\ topup \in [Keys -> Nat]
    /\ missing \in [Keys -> Nat]

Init ==
    /\ month = 0
    /\ counter = [k \in Keys |-> 0]
    /\ live = {}
    /\ ttl = {}
    /\ wire = {}
    /\ pc = [r \in Requests |-> "idle"]
    /\ res = [r \in Requests |-> [active |-> FALSE, key |-> <<TenantOf[r], 0>>, est |-> 0]]
    /\ cost = [r \in Requests |-> 0]
    /\ attempt = [r \in Requests |-> 0]
    /\ reply = [r \in Requests |-> "none"]
    /\ status = [r \in Requests |-> "none"]
    /\ metered = {}
    /\ granted = [r \in Requests |-> 0]
    /\ adjusted = [r \in Requests |-> 0]
    /\ topup = [k \in Keys |-> 0]
    /\ missing = [k \in Keys |-> 0]

-----------------------------------------------------------------------------
(* internal/budget: the counter key, and the two commands. *)

MonthKey(t) == <<t, month>>

\* Slips: the estimate is not weighed, or the comparison is off by one.
OverLimitNoEst(cur, est, limit) == cur > limit
OverLimit(cur, est, limit) == cur + est > limit

ReserveCmd(r, k, e, n) ==
    [req |-> r, op |-> "reserve", n |-> n, key |-> k, amt |-> e]

\* Slips: the refund is sent to the key of the month it is sent in, or of a
\* month no reservation was ever made in.
ReconcileKeyNow(r) == MonthKey(TenantOf[r])
ReconcileKeyNext(r) == <<TenantOf[r], month + 1>>
ReconcileKey(r) == res[r].key

\* Slip: the estimate is refunded in full, whatever the request cost.
ReconcileDeltaRefund(r, c) == 0 - res[r].est
ReconcileDelta(r, c) == c - res[r].est

ReconcileCmd(r, c, n) ==
    [req |-> r, op |-> "incrby", n |-> n, key |-> ReconcileKey(r),
     amt |-> ReconcileDelta(r, c)]

(***************************************************************************)
(* The answer reaches the handler only while it waits for this sending.    *)
(***************************************************************************)
AwaitedOp(r) == IF pc[r] = "reserving" THEN "reserve" ELSE "incrby"

Answer(c, a) ==
    reply' = IF /\ pc[c.req] \in Waiting
                /\ AwaitedOp(c.req) = c.op
                /\ attempt[c.req] = c.n
             THEN [reply EXCEPT ![c.req] = a]
             ELSE reply

\* Redis runs reserveScript, atomically.
ReserveDenies(c) ==
    /\ c.op = "reserve"
    /\ OverLimit(counter[c.key], c.amt, Limit[c.key[1]])
    /\ wire' = wire \ {c}
    /\ Answer(c, "denied")
    /\ UNCHANGED <<month, pc, res, cost, attempt, status, metered, redisVars>>

ReserveGrants(c) ==
    /\ c.op = "reserve"
    /\ ~OverLimit(counter[c.key], c.amt, Limit[c.key[1]])
    /\ wire' = wire \ {c}
    /\ counter' = [counter EXCEPT ![c.key] = @ + c.amt]
    /\ live' = live \cup {c.key}
    /\ ttl' = ttl \cup {c.key}
    /\ granted' = [granted EXCEPT ![c.req] = @ + 1]
    /\ Answer(c, "allowed")
    /\ UNCHANGED <<month, pc, res, cost, attempt, status, metered, adjusted,
                   topup, missing>>

\* The positive part of an amount.
Surplus(a) == IF a > 0 THEN a ELSE 0

\* Redis runs the INCRBY of Reconcile; it creates a missing key, without expiry.
IncrBy(c) ==
    /\ c.op = "incrby"
    /\ wire' = wire \ {c}
    /\ counter' = [counter EXCEPT ![c.key] = @ + c.amt]
    /\ live' = live \cup {c.key}
    /\ adjusted' = [adjusted EXCEPT ![c.req] = @ + 1]
    /\ topup' = [topup EXCEPT ![c.key] = @ + Surplus(c.amt)]
    /\ missing' = IF adjusted[c.req] > 0
                  THEN [missing EXCEPT ![c.key] = @ + Surplus(0 - c.amt)]
                  ELSE missing
    /\ Answer(c, "ok")
    /\ UNCHANGED <<month, pc, res, cost, attempt, status, metered, ttl, granted>>

(***************************************************************************)
(* ttlSeconds is 62 days, set no earlier than the first day of the key's   *)
(* month, and two consecutive months last at most 62 days: the key is      *)
(* gone at the earliest when the second month after its own begins.  A     *)
(* Redis call lasts seconds, so none is under way across that distance.    *)
(***************************************************************************)
\* Slip: a 31-day TTL.
OutlivedEarly(k) == month >= k[2] + 1
Outlived(k) == month >= k[2] + 2

Expire(k) ==
    /\ k \in ttl
    /\ Outlived(k)
    /\ \A c \in wire : c.key # k
    /\ \A r \in Requests : pc[r] \in Waiting => res[r].key # k
    /\ counter' = [counter EXCEPT ![k] = 0]
    /\ live' = live \ {k}
    /\ ttl' = ttl \ {k}
    /\ UNCHANGED <<month, wire, pc, res, cost, attempt, reply, status, metered,
                   granted, adjusted, topup, missing>>

-----------------------------------------------------------------------------
(* internal/proxy: the handler. *)

\* checkBudget: no cap, nothing to reserve.
SkipBudget(r) ==
    /\ pc[r] = "idle"
    /\ TenantOf[r] \in Uncapped
    /\ pc' = [pc EXCEPT ![r] = "forwarding"]
    /\ UNCHANGED <<month, wire, res, cost, attempt, reply, status, metered, redisVars>>

\* checkBudget: estimate, month key, Reserve.
CheckBudget(r, e) ==
    /\ pc[r] = "idle"
    /\ TenantOf[r] \in Capped
    /\ pc' = [pc EXCEPT ![r] = "reserving"]
    /\ res' = [res EXCEPT ![r] = [active |-> FALSE, key |-> MonthKey(TenantOf[r]), est |-> e]]
    /\ attempt' = [attempt EXCEPT ![r] = 1]
    /\ wire' = wire \cup {ReserveCmd(r, MonthKey(TenantOf[r]), e, 1)}
    /\ UNCHANGED <<month, cost, reply, status, metered, redisVars>>

ReserveAllowed(r) ==
    /\ pc[r] = "reserving"
    /\ reply[r] = "allowed"
    /\ pc' = [pc EXCEPT ![r] = "forwarding"]
    /\ res' = [res EXCEPT ![r].active = TRUE]
    /\ reply' = [reply EXCEPT ![r] = "none"]
    /\ UNCHANGED <<month, wire, cost, attempt, status, metered, redisVars>>

ReserveDenied(r) ==
    /\ pc[r] = "reserving"
    /\ reply[r] = "denied"
    /\ pc' = [pc EXCEPT ![r] = "done"]
    /\ status' = [status EXCEPT ![r] = "429"]
    /\ reply' = [reply EXCEPT ![r] = "none"]
    /\ UNCHANGED <<month, wire, res, cost, attempt, metered, redisVars>>

(***************************************************************************)
(* A sending fails for its caller when its connection broke or it timed    *)
(* out, whatever became of the command, or when the command was lost.      *)
(***************************************************************************)
Lost(r) ==
    /\ reply[r] = "none"
    /\ \A c \in wire : ~(c.req = r /\ c.op = AwaitedOp(r) /\ c.n = attempt[r])

SendingFails(r) == "timeout" \in Faults \/ Lost(r)

MayRetry(r) == attempt[r] < MaxAttempts

Retry(r) ==
    /\ pc[r] \in Waiting
    /\ SendingFails(r)
    /\ MayRetry(r)
    /\ attempt' = [attempt EXCEPT ![r] = @ + 1]
    /\ reply' = [reply EXCEPT ![r] = "none"]
    /\ wire' = wire \cup
         {IF pc[r] = "reserving"
          THEN ReserveCmd(r, res[r].key, res[r].est, attempt[r] + 1)
          ELSE ReconcileCmd(r, cost[r], attempt[r] + 1)}
    /\ UNCHANGED <<month, pc, res, cost, status, metered, redisVars>>

\* Reserve returns an error: the attempts are used up, or the client went
\* away and cancelled r.Context().
ReserveErrs(r) ==
    /\ pc[r] = "reserving"
    /\ \/ attempt[r] = MaxAttempts /\ SendingFails(r)
       \/ "disconnect" \in Faults

ForwardUnreserved(r) ==
    /\ ReserveErrs(r)
    /\ TenantOf[r] \in FailOpen
    /\ pc' = [pc EXCEPT ![r] = "forwarding"]
    /\ reply' = [reply EXCEPT ![r] = "none"]
    /\ UNCHANGED <<month, wire, res, cost, attempt, status, metered, redisVars>>

\* Slip: the flag is not looked at, every tenant fails open.
BudgetUnavailableOpen(r) ==
    /\ ReserveErrs(r)
    /\ TenantOf[r] \notin FailOpen
    /\ pc' = [pc EXCEPT ![r] = "forwarding"]
    /\ reply' = [reply EXCEPT ![r] = "none"]
    /\ UNCHANGED <<month, wire, res, cost, attempt, status, metered, redisVars>>

BudgetUnavailable(r) ==
    /\ ReserveErrs(r)
    /\ TenantOf[r] \notin FailOpen
    /\ pc' = [pc EXCEPT ![r] = "done"]
    /\ status' = [status EXCEPT ![r] = "503"]
    /\ reply' = [reply EXCEPT ![r] = "none"]
    /\ UNCHANGED <<month, wire, res, cost, attempt, metered, redisVars>>

(***************************************************************************)
(* The response is known and costs c: enqueue reconciles, when there is a  *)
(* reservation and a difference, and then meters.                          *)
(***************************************************************************)
\* Slip: nothing to reconcile, so return before metering.
NextStopEarly(r, c) ==
    IF res[r].active /\ ReconcileDelta(r, c) # 0 THEN "reconciling" ELSE "done"

NextStop(r, c) ==
    IF res[r].active /\ ReconcileDelta(r, c) # 0 THEN "reconciling" ELSE "metering"

Respond(r, c, s) ==
    /\ pc[r] = "forwarding"
    /\ cost' = [cost EXCEPT ![r] = c]
    /\ status' = [status EXCEPT ![r] = s]
    /\ pc' = [pc EXCEPT ![r] = NextStop(r, c)]
    /\ IF NextStop(r, c) = "reconciling"
       THEN /\ attempt' = [attempt EXCEPT ![r] = 1]
            /\ wire' = wire \cup {ReconcileCmd(r, c, 1)}
       ELSE UNCHANGED <<attempt, wire>>
    /\ UNCHANGED <<month, res, reply, metered, redisVars>>

\* Upstream unreachable, or the client's context was cancelled.
UpstreamError(r) == Respond(r, 0, "502")

UpstreamReply(r, c) == Respond(r, c, "upstream")

Reconciled(r) ==
    /\ pc[r] = "reconciling"
    /\ reply[r] = "ok"
    /\ pc' = [pc EXCEPT ![r] = "metering"]
    /\ reply' = [reply EXCEPT ![r] = "none"]
    /\ UNCHANGED <<month, wire, res, cost, attempt, status, metered, redisVars>>

\* Slip: reconcile insists until the counter is moved.
ReconcileErrsNever(r) == FALSE

\* The detached two-second context ran out, or the attempts are used up: log.
ReconcileErrs(r) ==
    /\ pc[r] = "reconciling"
    /\ SendingFails(r)
    /\ attempt[r] = MaxAttempts \/ "timeout" \in Faults
    /\ pc' = [pc EXCEPT ![r] = "metering"]
    /\ reply' = [reply EXCEPT ![r] = "none"]
    /\ UNCHANGED <<month, wire, res, cost, attempt, status, metered, redisVars>>

\* writer.Enqueue; whether the writer keeps the event is module Meter's matter.
Enqueue(r) ==
    /\ pc[r] = "metering"
    /\ pc' = [pc EXCEPT ![r] = "done"]
    /\ metered' = metered \cup {r}
    /\ UNCHANGED <<month, wire, res, cost, attempt, reply, status, redisVars>>

-----------------------------------------------------------------------------
(* The environment. *)

Drop(c) ==
    /\ "drop" \in Faults
    /\ wire' = wire \ {c}
    /\ UNCHANGED <<month, pc, res, cost, attempt, reply, status, metered, redisVars>>

\* kill -9 of a replica: its handlers are gone, its commands may still arrive.
InFlight(r) == pc[r] \notin {"idle"} \cup Final

Crash(p) ==
    /\ "crash" \in Faults
    /\ \E r \in Requests : ReplicaOf[r] = p /\ InFlight(r)
    /\ pc' = [r \in Requests |->
                IF ReplicaOf[r] = p /\ InFlight(r) THEN "dead" ELSE pc[r]]
    /\ UNCHANGED <<month, wire, res, cost, attempt, reply, status, metered, redisVars>>

\* Redis restarts without its data (docker-compose.yml gives it no volume).
Wipe ==
    /\ "wipe" \in Faults
    /\ live # {}
    /\ counter' = [k \in Keys |-> 0]
    /\ missing' = [k \in Keys |-> missing[k] + Surplus(counter[k])]
    /\ live' = {}
    /\ ttl' = {}
    /\ UNCHANGED <<month, wire, pc, res, cost, attempt, reply, status, metered,
                   granted, adjusted, topup>>

NextMonth ==
    /\ month < MaxMonth
    /\ month' = month + 1
    /\ UNCHANGED <<wire, pc, res, cost, attempt, reply, status, metered, redisVars>>

\* Every request has been dealt with: the instance has nothing left to do.
Finished ==
    /\ \A r \in Requests : pc[r] \in Final
    /\ UNCHANGED vars

-----------------------------------------------------------------------------
Execute(c) == ReserveDenies(c) \/ ReserveGrants(c) \/ IncrBy(c)

\* What a handler does by itself, waiting for nobody but its own timers.
HandlerStep(r) ==
    \/ ReserveAllowed(r)
    \/ ReserveDenied(r)
    \/ Retry(r)
    \/ ForwardUnreserved(r)
    \/ BudgetUnavailable(r)
    \/ Reconciled(r)
    \/ ReconcileErrs(r)
    \/ Enqueue(r)

UpstreamStep(r) == UpstreamError(r) \/ \E c \in Costs : UpstreamReply(r, c)

Next ==
    \/ \E r \in Requests :
         \/ SkipBudget(r)
         \/ \E e \in Estimates : CheckBudget(r, e)
         \/ HandlerStep(r)
         \/ UpstreamStep(r)
    \/ \E c \in wire : Execute(c) \/ Drop(c)
    \/ \E k \in Keys : Expire(k)
    \/ \E p \in Replicas : Crash(p)
    \/ Wipe
    \/ NextMonth
    \/ Finished

Spec == Init /\ [][Next]_vars

(***************************************************************************)
(* Fairness of the handlers only: a goroutine that can move does.  Redis   *)
(* owes nothing.                                                           *)
(***************************************************************************)
HandlerFairness == \A r \in Requests : WF_vars(HandlerStep(r))

HandlerSpec == Spec /\ HandlerFairness

(***************************************************************************)
(* The provider answers, too (http.Client has no timeout, so that is an    *)
(* assumption).                                                            *)
(***************************************************************************)
FairSpec == HandlerSpec /\ \A r \in Requests : WF_vars(UpstreamStep(r))

-----------------------------------------------------------------------------
(* Properties that need no sum; BudgetAccounts has the others. *)

(***************************************************************************)
(* On no interleaving of replicas, retries, lost answers, crashes or Redis *)
(* restarts does a counter exceed the cap by more than what responses cost *)
(* beyond their estimates: the reservation itself never passes the cap     *)
(* (the atomic script of Reserve).                                         *)
(***************************************************************************)
CapBound == \A k \in Keys : counter[k] <= Limit[k[1]] + topup[k]

(***************************************************************************)
(* No request of a capped, fail-closed tenant reaches the provider unless  *)
(* Redis really executed a reservation for it, however the answers were    *)
(* lost, repeated or late (checkBudget's error path).                      *)
(***************************************************************************)
Forwarded(r) == pc[r] \in {"forwarding", "reconciling", "metering"} \/ r \in metered

FailClosedReserved ==
    \A r \in Requests :
        TenantOf[r] \notin Uncapped \cup FailOpen /\ Forwarded(r) => granted[r] > 0

(***************************************************************************)
(* No handler waits on Redis for ever, even if Redis never executes        *)
(* anything again: bounded retries and the detached timeout of reconcile.  *)
(***************************************************************************)
RedisNeverBlocks ==
    \A r \in Requests : (pc[r] \in Waiting) ~> (pc[r] \notin Waiting)

(***************************************************************************)
(* What the gate implements: a request whose script reserved and whose     *)
(* INCRBY has not run holds its estimate; one whose INCRBY has run was     *)
(* settled.                                                                *)
(***************************************************************************)
Hold(r) == [req |-> r, key |-> res[r].key, est |-> res[r].est]

Held == {Hold(r) : r \in {q \in Requests : granted[q] > 0 /\ adjusted[q] = 0}}

Settled ==
    {[hold |-> Hold(r), cost |-> cost[r]] : r \in {q \in Requests : adjusted[q] > 0}}

Ledger == INSTANCE BudgetLedger WITH
              Cap <- [k \in Keys |-> Limit[k[1]]],
              Costs <- Costs \cup {0},
              held <- Held,
              settled <- Settled

(***************************************************************************)
(* Whatever is lost, repeated, late or abandoned by its caller, and        *)
(* wherever a replica dies or Redis restarts, a request holds one          *)
(* estimate, each execution within the cap at that moment, the counter it  *)
(* was made on is moved to one cost, and an execution more of either       *)
(* repeats the same amount on the same counter (Reserve, Reconcile and     *)
(* their callers).                                                         *)
(***************************************************************************)
ImplementsLedger == Ledger!Spec
=============================================================================
