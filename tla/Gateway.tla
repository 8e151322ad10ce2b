------------------------------- MODULE Gateway -------------------------------
(***************************************************************************)
(* One gateway process end to end: the handlers of internal/proxy between  *)
(* the two books spendgate keeps, the monthly counters in Redis and the    *)
(* requests table in Postgres.                                             *)
(*                                                                         *)
(* The counters are those of BudgetLedger, which BudgetGate implements,    *)
(* and the way into the table is EventQueue, which Meter implements; what  *)
(* their calls cost in messages and goroutines is left to these modules.   *)
(* A call may fail, be executed more than once, or find that Redis forgot. *)
(***************************************************************************)
EXTENDS Prices, Sequences, Functions

CONSTANTS
    Requests,
    Tenants,
    TenantOf,    \* the tenant of a request
    Capped,      \* tenants with a monthly_budget_usd,
    Uncapped,    \* without, for some request (an operator may change it),
    FailOpen,    \* with fail_open,
    FailClosed,  \* without
    Limit,       \* the caps
    Asks,        \* request bodies: model, length, max_tokens, max_completion_tokens
    Replies,     \* what providers report: model, tokens in and out
    BufferSize,
    BatchSize,
    MaxCost,     \* the largest cost_usd the table takes
    MaxFaults,   \* bound on repeated executions and losses of data
    MaxMonth     \* bound on the calendar

ASSUME GatewayAssumption ==
    /\ TenantOf \in [Requests -> Tenants]
    /\ Capped \subseteq Tenants
    /\ Limit \in [Tenants -> 0..MaxInt]
    /\ Tenants \subseteq (Capped \cup Uncapped) \cap (FailOpen \cup FailClosed)
    /\ \A a \in Asks :
         a.len \in Nat /\ a.maxTokens \in Int /\ a.maxCompletion \in Int
    /\ \A p \in Replies :
         p.in \in Nat /\ p.out \in Nat /\ Round(Cost(p.model, p.in, p.out)) <= MaxInt
    /\ BufferSize \in Nat \ {0}
    /\ BatchSize \in Nat \ {0}
    /\ MaxCost \in Nat
    /\ MaxFaults \in Nat
    /\ MaxMonth \in Nat

Months == 0..MaxMonth
Keys == Tenants \X Months

VARIABLES
    month,
    counter, held, settled,   \* BudgetLedger
    queue, rows, refused,     \* EventQueue
    pc,       \* where each handler is
    ask,      \* the body it was sent, once there is one
    est,      \* its reservation
    active,   \* requests with a reservation
    reply,    \* what the provider reported; nothing when it failed
    born,     \* the month checkBudget saw
    created,  \* the month of created_at
    mishaps,  \* history: requests whose Redis call failed, or was repeated
    faults,   \* history: executions more than one, and losses of data
    missing   \* history: what a counter lost when Redis lost its data, or was
              \* given back by refunds executed again

ledgerVars == <<counter, held, settled>>
queueVars == <<queue, rows, refused>>
handlerVars == <<ask, est, active, born>>
redisVars == <<ledgerVars, faults, missing>>
vars == <<month, redisVars, queueVars, pc, handlerVars, reply, created, mishaps>>

NoReply == [model |-> "none", in |-> 0, out |-> 0]
NoAsk == [model |-> "none", len |-> 0, maxTokens |-> 0, maxCompletion |-> 0]

HoldType == [req: Requests, key: Keys, est: 0..MaxInt]

TypeOK ==
    /\ month \in Months
    /\ counter \in [Keys -> MinInt..MaxInt]
    /\ held \subseteq HoldType
    /\ settled \subseteq [hold: HoldType, cost: 0..MaxInt]
    /\ queue \in Seq(Requests) /\ rows \in Seq(Requests) /\ refused \subseteq Requests
    /\ pc \in [Requests -> {"idle", "forwarding", "settling", "metering", "done", "dead"}]
    /\ ask \in [Requests -> Asks \cup {NoAsk}]
    /\ est \in [Requests -> 0..MaxInt]
    /\ active \subseteq Requests
    /\ reply \in [Requests -> Replies \cup {NoReply}]
    /\ born \in [Requests -> Months] /\ created \in [Requests -> Months]
    /\ mishaps \subseteq Requests
    /\ faults \in 0..MaxFaults
    /\ missing \in [Keys -> Nat]

Ledger == INSTANCE BudgetLedger WITH
              Cap <- [k \in Keys |-> Limit[k[1]]], Estimates <- 0..MaxInt, Costs <- 0..MaxInt

Queue == INSTANCE EventQueue WITH Events <- Requests

Init ==
    /\ month = 0
    /\ Ledger!Init
    /\ Queue!Init
    /\ pc = [r \in Requests |-> "idle"]
    /\ ask = [r \in Requests |-> NoAsk]
    /\ est = [r \in Requests |-> 0]
    /\ active = {}
    /\ reply = [r \in Requests |-> NoReply]
    /\ born = [r \in Requests |-> 0]
    /\ created = [r \in Requests |-> 0]
    /\ mishaps = {}
    /\ faults = 0
    /\ missing = [k \in Keys |-> 0]

-----------------------------------------------------------------------------
(* checkBudget. *)

MonthKey(r) == <<TenantOf[r], month>>

\* The script's INCRBY is given the estimate as Lua writes a number, which is
\* no integer any more when it is MinInt: the script fails.
\* Slip: the estimate gets there as it is.
IntegerAlways(e) == TRUE
Integer(e) == e # MinInt

Arrive(r, a, stop) ==
    /\ pc[r] = "idle"
    /\ pc' = [pc EXCEPT ![r] = stop]
    /\ ask' = [ask EXCEPT ![r] = a]
    /\ born' = [born EXCEPT ![r] = month]
    /\ UNCHANGED <<month, queueVars, reply, created, faults, missing>>

SkipBudget(r, a) ==
    /\ TenantOf[r] \in Uncapped
    /\ Arrive(r, a, "forwarding")
    /\ UNCHANGED <<ledgerVars, est, active, mishaps>>

Reserve(r, a, e) ==
    /\ TenantOf[r] \in Capped
    /\ Integer(e)
    /\ Arrive(r, a, "forwarding")
    /\ Ledger!Hold(r, MonthKey(r), e)
    /\ est' = [est EXCEPT ![r] = e]
    /\ active' = active \cup {r}
    /\ UNCHANGED mishaps

\* When the script is sent again, it may be denied by what it held before.
Deny(r, a, e) ==
    /\ TenantOf[r] \in Capped
    /\ Arrive(r, a, "done")
    /\ \/ UNCHANGED <<ledgerVars, mishaps>>
       \/ /\ Integer(e)
          /\ Ledger!Hold(r, MonthKey(r), e)
          /\ mishaps' = mishaps \cup {r}
    /\ counter'[MonthKey(r)] + e > Limit[TenantOf[r]]
    /\ UNCHANGED <<est, active>>

\* An error, which need not mean that the script did nothing.
BudgetUnavailable(r, a, e) ==
    /\ TenantOf[r] \in Capped
    /\ \/ TenantOf[r] \in FailOpen /\ Arrive(r, a, "forwarding")
       \/ TenantOf[r] \in FailClosed /\ Arrive(r, a, "done")
    /\ \/ UNCHANGED ledgerVars
       \/ Integer(e) /\ Ledger!Hold(r, MonthKey(r), e)
    /\ mishaps' = mishaps \cup {r}
    /\ UNCHANGED <<est, active>>

CheckBudget(r, a) ==
    \/ SkipBudget(r, a)
    \/ \E e \in EstimateMicro(a) :
         Reserve(r, a, e) \/ Deny(r, a, e) \/ BudgetUnavailable(r, a, e)

-----------------------------------------------------------------------------
(* The response, reconcile, and Enqueue. *)

Respond(r, p) ==
    /\ pc[r] = "forwarding"
    /\ pc' = [pc EXCEPT ![r] = "settling"]
    /\ reply' = [reply EXCEPT ![r] = p]
    /\ UNCHANGED <<month, redisVars, queueVars, handlerVars, created, mishaps>>

CostMicro ==
    [r \in Requests |-> Round(Cost(reply[r].model, reply[r].in, reply[r].out))]

\* Slip: the hold is given back, whatever the request cost.
SettledAtNothing(r) == 0
SettledAt(r) == CostMicro[r]

\* INCRBY refuses to leave an int64.
Fits(h, c) == counter[h.key] + c - h.est \in MinInt..MaxInt

Settle(r) ==
    /\ pc[r] = "settling"
    /\ pc' = [pc EXCEPT ![r] = "metering"]
    /\ IF r \in active
       THEN \E h \in held : h.req = r /\ Fits(h, SettledAt(r)) /\ Ledger!Settle(h, SettledAt(r))
       ELSE UNCHANGED ledgerVars
    /\ UNCHANGED <<month, queueVars, handlerVars, reply, created, mishaps, faults, missing>>

\* A difference that Redis never got: logged.
SettleLost(r) ==
    /\ pc[r] = "settling"
    /\ r \in active
    /\ CostMicro[r] # est[r]
    /\ pc' = [pc EXCEPT ![r] = "metering"]
    /\ mishaps' = mishaps \cup {r}
    /\ UNCHANGED <<month, redisVars, queueVars, handlerVars, reply, created>>

Enqueue(r) ==
    /\ pc[r] = "metering"
    /\ pc' = [pc EXCEPT ![r] = "done"]
    /\ created' = [created EXCEPT ![r] = month]
    /\ Queue!Put(r) \/ Queue!Refuse(r)
    /\ UNCHANGED <<month, redisVars, handlerVars, reply, mishaps>>

-----------------------------------------------------------------------------
(* Redis: the client faults a call whose answer it did not get, and the   *)
(* server may expire a counter or lose its data.                           *)

\* The positive part of an amount.
Surplus(a) == IF a > 0 THEN a ELSE 0

Repeat(r) ==
    /\ faults < MaxFaults
    /\ faults' = faults + 1
    /\ mishaps' = mishaps \cup {r}
    /\ UNCHANGED <<month, queueVars, pc, handlerVars, reply, created>>

HoldAgain(r) ==
    /\ Repeat(r)
    /\ \E h \in Ledger!Known : h.req = r /\ Ledger!HoldAgain(h)
    /\ UNCHANGED missing

SettleAgain(r) ==
    /\ Repeat(r)
    /\ \E s \in settled :
         /\ s.hold.req = r /\ s.cost # s.hold.est
         /\ Fits(s.hold, s.cost)
         /\ Ledger!SettleAgain(s)
         /\ missing' = [missing EXCEPT ![s.hold.key] = @ + Surplus(s.hold.est - s.cost)]

\* A counter is kept for its own month and the next.
InUse(k) == month <= k[2] + 1

Expire(k) ==
    /\ ~InUse(k)
    /\ counter[k] # 0
    /\ Ledger!Forget({k})
    /\ UNCHANGED <<month, queueVars, pc, handlerVars, reply, created, mishaps, faults, missing>>

Wipe ==
    /\ \E k \in Keys : counter[k] # 0
    /\ faults < MaxFaults
    /\ faults' = faults + 1
    /\ Ledger!Forget(Keys)
    /\ missing' = [k \in Keys |-> missing[k] + Surplus(counter[k])]
    /\ UNCHANGED <<month, queueVars, pc, handlerVars, reply, created, mishaps>>

-----------------------------------------------------------------------------
(* The writer, the calendar, and kill -9. *)

Accepts(lot) == \A i \in DOMAIN lot : CostMicro[lot[i]] <= MaxCost

\* Slip: a lot that cannot be written stays.
WriteStubborn(n) ==
    /\ Queue!Leave(n)
    /\ Accepts(SubSeq(queue, 1, n))
    /\ rows' # rows
    /\ UNCHANGED <<month, redisVars, pc, handlerVars, reply, created, mishaps>>

Write(n) ==
    /\ Queue!Leave(n)
    /\ rows' # rows => Accepts(SubSeq(queue, 1, n))
    /\ UNCHANGED <<month, redisVars, pc, handlerVars, reply, created, mishaps>>

InFlight(r) == pc[r] \in {"forwarding", "settling", "metering"}

Kill ==
    /\ queue # <<>> \/ \E r \in Requests : InFlight(r)
    /\ pc' = [r \in Requests |-> IF InFlight(r) THEN "dead" ELSE pc[r]]
    /\ queue' = <<>>
    /\ UNCHANGED <<month, redisVars, rows, refused, handlerVars, reply, created, mishaps>>

NextMonth ==
    /\ month < MaxMonth
    /\ month' = month + 1
    /\ UNCHANGED <<redisVars, queueVars, pc, handlerVars, reply, created, mishaps>>

Finished ==
    /\ \A r \in Requests : pc[r] \in {"done", "dead"}
    /\ queue = <<>>
    /\ UNCHANGED vars

-----------------------------------------------------------------------------
Answer(r) == \E p \in Replies \cup {NoReply} : Respond(r, p)

HandlerStep(r) == Settle(r) \/ SettleLost(r) \/ Enqueue(r)

Next ==
    \/ \E r \in Requests :
         \/ \E a \in Asks : CheckBudget(r, a)
         \/ Answer(r)
         \/ HandlerStep(r)
         \/ HoldAgain(r)
         \/ SettleAgain(r)
    \/ \E k \in Keys : Expire(k)
    \/ Wipe
    \/ \E n \in 1..BatchSize : Write(n)
    \/ Kill
    \/ NextMonth
    \/ Finished

Spec == Init /\ [][Next]_vars

\* Providers answer, handlers go on, the writer writes.
FairSpec ==
    /\ Spec
    /\ \A r \in Requests : WF_vars(Answer(r)) /\ WF_vars(HandlerStep(r))
    /\ WF_vars(\E n \in 1..BatchSize : Write(n))

-----------------------------------------------------------------------------
\* The response kept to the model, the body and every ceiling of its request.
Within(r) ==
    LET a == ask[r]
        p == reply[r]
        named == {v \in {a.maxTokens, a.maxCompletion} : v > 0}
    IN  /\ p.model = a.model
        /\ p.in <= a.len \div 4
        /\ \A v \in named : p.out <= v
        /\ named = {} => p.out <= DefaultOutput

Unexpected(r) == reply[r] # NoReply /\ ~Within(r)

(***************************************************************************)
(* A reservation covers what its request can cost as long as the provider  *)
(* keeps to what was asked, with every rounding and wherever max_tokens is *)
(* found, and even if the estimate is beyond int64 (estimateMicro,         *)
(* toMicro).                                                               *)
(***************************************************************************)
EstimateCovers ==
    \A r \in active : ~Unexpected(r) => CostMicro[r] <= est[r]

Recorded == {rows[i] : i \in DOMAIN rows}

TableSum(t, m) ==
    SumFunctionOnSet(CostMicro, {r \in Recorded : TenantOf[r] = t /\ created[r] = m})

(***************************************************************************)
(* How far the spend in the requests table can pass a tenant's cap: by no  *)
(* more than Redis lost with its data and repeated refunds gave back, but  *)
(* for responses beyond what was asked, for requests forwarded with no cap *)
(* or no Redis, and for those begun the month before (the README's allowed *)
(* spend, which names none of these).                                      *)
(***************************************************************************)
Ordinary(t, m) ==
    {r \in Recorded \cap active : /\ TenantOf[r] = t
                                  /\ created[r] = m
                                  /\ born[r] = m
                                  /\ ~Unexpected(r)}

CapEnforced ==
    \A t \in Capped, m \in Months :
        SumFunctionOnSet(CostMicro, Ordinary(t, m)) <= Limit[t] + missing[<<t, m>>]

(***************************************************************************)
(* The two books agree: when every request of the tenant was refused by    *)
(* the budget or is in the table, with the month it began in and no failed *)
(* or repeated call to Redis, the counter of this month or the last, when  *)
(* Redis lost nothing of it, is the sum of its rows, however wrong the     *)
(* estimates were (the multi-replica test's last assertion).               *)
(***************************************************************************)
Refusal(r) == pc[r] = "done" /\ r \notin active /\ r \notin mishaps /\ r \notin Recorded

Booked(r) ==
    r \in Recorded /\ r \in active /\ r \notin mishaps /\ created[r] = born[r]

BooksAgree ==
    \A t \in Tenants :
        (\A r \in Requests : TenantOf[r] = t => pc[r] = "idle" \/ Refusal(r) \/ Booked(r))
            => \A m \in Months :
                   InUse(<<t, m>>) /\ missing[<<t, m>>] = 0 =>
                       counter[<<t, m>>] = TableSum(t, m)

(***************************************************************************)
(* A forwarded request leaves nothing behind: in the end it is in the      *)
(* table, or was lost by a full buffer, by a failed COPY or by the         *)
(* process, and unless that or Redis was in the way it holds no estimate   *)
(* (forward, enqueue, flush).                                              *)
(***************************************************************************)
Holds(r) == \E h \in held : h.req = r

Closed(r) ==
    \/ pc[r] = "dead"
    \/ /\ pc[r] = "done" /\ \A i \in DOMAIN queue : queue[i] # r
       /\ Holds(r) => r \in mishaps

EventuallyBooked == \A r \in Requests : (pc[r] = "forwarding") ~> Closed(r)
=============================================================================
