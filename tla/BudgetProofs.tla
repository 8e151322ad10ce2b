---------------------------- MODULE BudgetProofs ----------------------------
(***************************************************************************)
(* Theorems of BudgetGate, for every number of requests, tenants and       *)
(* replicas, every cap, estimate and cost, every number of retries and     *)
(* every combination of faults.                                            *)
(***************************************************************************)
EXTENDS BudgetAccounts, Inductions

(***************************************************************************)
(* The commands a handler puts on the wire are well formed.                *)
(***************************************************************************)
LEMMA CommandsTyped ==
    ASSUME TypeOK, NEW r \in Requests, NEW n \in 1..MaxAttempts
    PROVE  /\ MonthKey(TenantOf[r]) \in Keys
           /\ \A k \in Keys, e \in Nat : ReserveCmd(r, k, e, n) \in Command
           /\ \A c \in Nat : ReconcileDelta(r, c) \in Int
           /\ \A c \in Nat : ReconcileCmd(r, c, n) \in Command
<1> USE GateAssumption
<1>1. MonthKey(TenantOf[r]) \in Keys
  BY DEF TypeOK, MonthKey, Keys
<1>2. ASSUME NEW k \in Keys, NEW e \in Nat
      PROVE  ReserveCmd(r, k, e, n) \in Command
  BY <1>2 DEF ReserveCmd, Command, Ops
<1>3. res[r] \in Reservation
  BY DEF TypeOK
<1>4. ASSUME NEW c \in Nat
      PROVE  ReconcileDelta(r, c) \in Int
  BY <1>3 DEF ReconcileDelta, Reservation
<1>5. ASSUME NEW c \in Nat
      PROVE  ReconcileCmd(r, c, n) \in Command
  BY <1>3, <1>4 DEF ReconcileCmd, ReconcileKey, Reservation, Command, Ops
<1> QED
  BY <1>1, <1>2, <1>4, <1>5

(***************************************************************************)
(* What Redis does keeps the types.                                        *)
(***************************************************************************)
LEMMA RedisTyped ==
    ASSUME TypeOK, NEW c \in wire, Execute(c)
    PROVE  TypeOK'
<1> USE GateAssumption DEF TypeOK
<1>1. /\ c \in Command
      /\ c.req \in Requests
      /\ c.key \in Keys
      /\ c.amt \in Int
  BY DEF Command
<1>2. ASSUME NEW a \in {"allowed", "denied", "ok"}, Answer(c, a)
      PROVE  reply' \in [Requests -> {"none", "allowed", "denied", "ok"}]
  BY <1>1, <1>2 DEF Answer
<1>3. CASE ReserveDenies(c)
  BY <1>1, <1>2, <1>3 DEF ReserveDenies, redisVars
<1>4. CASE ReserveGrants(c)
  BY <1>1, <1>2, <1>4 DEF ReserveGrants
<1>5. CASE IncrBy(c)
  <2>1. Surplus(c.amt) \in Nat /\ Surplus(0 - c.amt) \in Nat
    BY <1>1 DEF Surplus
  <2>2. topup' \in [Keys -> Nat] /\ adjusted' \in [Requests -> Nat]
    BY <1>1, <1>5, <2>1 DEF IncrBy
  <2>3. missing' \in [Keys -> Nat]
    BY <1>1, <1>5, <2>1 DEF IncrBy
  <2> QED
    BY <1>1, <1>2, <1>5, <2>2, <2>3 DEF IncrBy
<1> QED
  BY <1>3, <1>4, <1>5 DEF Execute

(***************************************************************************)
(* So does every step of a handler.                                        *)
(***************************************************************************)
LEMMA HandlerTyped ==
    ASSUME TypeOK, NEW r \in Requests, HandlerStep(r)
    PROVE  TypeOK'
<1> USE GateAssumption DEF TypeOK, redisVars, Waiting, Final
<1>1. CASE ReserveAllowed(r)
  <2>1. PICK q \in Reservation : q = [res[r] EXCEPT !.active = TRUE]
    <3>1. res[r] \in Reservation
      OBVIOUS
    <3> QED
      BY <3>1 DEF Reservation
  <2>2. res' \in [Requests -> Reservation]
    <3>1. res' = [res EXCEPT ![r] = q]
      BY <1>1, <2>1 DEF ReserveAllowed
    <3> QED
      BY <3>1
  <2> QED
    BY <1>1, <2>2 DEF ReserveAllowed
<1>2. CASE ReserveDenied(r)
  BY <1>2 DEF ReserveDenied
<1>3. CASE Retry(r)
  <2>1. attempt[r] + 1 \in 1..MaxAttempts
    BY <1>3 DEF Retry, MayRetry
  <2>2. /\ ReserveCmd(r, res[r].key, res[r].est, attempt[r] + 1) \in Command
        /\ ReconcileCmd(r, cost[r], attempt[r] + 1) \in Command
    <3>1. res[r].key \in Keys /\ res[r].est \in Nat /\ cost[r] \in Nat
      BY DEF Reservation
    <3> QED
      BY <2>1, <3>1, CommandsTyped
  <2>3. wire' \subseteq Command
    BY <1>3, <2>2 DEF Retry
  <2> QED
    BY <1>3, <2>1, <2>3 DEF Retry
<1>4. CASE ForwardUnreserved(r)
  BY <1>4 DEF ForwardUnreserved
<1>5. CASE BudgetUnavailable(r)
  BY <1>5 DEF BudgetUnavailable
<1>6. CASE Reconciled(r)
  BY <1>6 DEF Reconciled
<1>7. CASE ReconcileErrs(r)
  BY <1>7 DEF ReconcileErrs
<1>8. CASE Enqueue(r)
  BY <1>8 DEF Enqueue
<1> QED
  BY <1>1, <1>2, <1>3, <1>4, <1>5, <1>6, <1>7, <1>8 DEF HandlerStep

(***************************************************************************)
(* And so does the arrival of a response.                                  *)
(***************************************************************************)
LEMMA RespondTyped ==
    ASSUME TypeOK, NEW r \in Requests, NEW c \in Nat,
           NEW s \in {"502", "upstream"}, Respond(r, c, s)
    PROVE  TypeOK'
<1> USE GateAssumption DEF TypeOK, redisVars
<1>1. NextStop(r, c) \in {"reconciling", "metering"}
  BY DEF NextStop
<1>2. ReconcileCmd(r, c, 1) \in Command
  BY CommandsTyped
<1>3. wire' \subseteq Command /\ attempt' \in [Requests -> 0..MaxAttempts]
  BY <1>2 DEF Respond
<1> QED
  BY <1>1, <1>3 DEF Respond, Waiting

(***************************************************************************)
(* Every step keeps the types: one case per action.                        *)
(***************************************************************************)
LEMMA NextTyped ==
    ASSUME TypeOK, [Next]_vars
    PROVE  TypeOK'
<1> USE GateAssumption
<1>1. ASSUME NEW r \in Requests, SkipBudget(r)
      PROVE  TypeOK'
  BY <1>1 DEF SkipBudget, TypeOK, redisVars
<1>2. ASSUME NEW r \in Requests, NEW e \in Estimates, CheckBudget(r, e)
      PROVE  TypeOK'
  <2>1. /\ MonthKey(TenantOf[r]) \in Keys
        /\ ReserveCmd(r, MonthKey(TenantOf[r]), e, 1) \in Command
    BY CommandsTyped
  <2>2. res' \in [Requests -> Reservation]
    BY <1>2, <2>1 DEF CheckBudget, TypeOK, Reservation
  <2> QED
    BY <1>2, <2>1, <2>2 DEF CheckBudget, TypeOK, redisVars, Waiting
<1>3. ASSUME NEW r \in Requests, HandlerStep(r)
      PROVE  TypeOK'
  BY <1>3, HandlerTyped
<1>4. ASSUME NEW r \in Requests, UpstreamStep(r)
      PROVE  TypeOK'
  BY <1>4, RespondTyped DEF UpstreamStep, UpstreamError, UpstreamReply
<1>5. ASSUME NEW c \in wire, Execute(c)
      PROVE  TypeOK'
  BY <1>5, RedisTyped
<1>6. ASSUME NEW c \in wire, Drop(c)
      PROVE  TypeOK'
  BY <1>6 DEF Drop, TypeOK, redisVars
<1>7. ASSUME NEW k \in Keys, Expire(k)
      PROVE  TypeOK'
  BY <1>7 DEF Expire, TypeOK
<1>8. ASSUME NEW p \in Replicas, Crash(p)
      PROVE  TypeOK'
  BY <1>8 DEF Crash, TypeOK, redisVars, Final
<1>9. CASE Wipe
  BY <1>9 DEF Wipe, TypeOK, Surplus
<1>10. CASE NextMonth
  BY <1>10 DEF NextMonth, TypeOK, Months, redisVars
<1>11. CASE Finished \/ UNCHANGED vars
  BY <1>11 DEF Finished, vars, TypeOK
<1> QED
  BY <1>1, <1>2, <1>3, <1>4, <1>5, <1>6, <1>7, <1>8, <1>9, <1>10, <1>11
  DEF Next

(***************************************************************************)
(* The types hold in every reachable state.                                *)
(***************************************************************************)
THEOREM TypeCorrect == Spec => []TypeOK
<1> USE GateAssumption
<1>1. Init => TypeOK
  BY DEF Init, TypeOK, Months, Keys, Reservation, Waiting, Final
<1>2. TypeOK /\ [Next]_vars => TypeOK'
  BY NextTyped
<1> QED
  BY <1>1, <1>2, PTL DEF Spec

(***************************************************************************)
(* No counter ever passes its cap by more than what positive               *)
(* reconciliations added to it: however many replicas reserve at once,     *)
(* whatever is lost, repeated, late or wiped.  CapBound is inductive       *)
(* because the comparison and the increment of reserveScript are one step. *)
(***************************************************************************)
THEOREM CapNeverPassed == Spec => []CapBound
<1> USE GateAssumption
<1>1. Init => CapBound
  BY DEF Init, CapBound, Keys
<1>2. TypeOK /\ CapBound /\ [Next]_vars => CapBound'
  <2> SUFFICES ASSUME TypeOK, CapBound, [Next]_vars
               PROVE  CapBound'
    OBVIOUS
  <2> USE DEF TypeOK, CapBound
  <2>1. ASSUME NEW c \in wire, Execute(c)
        PROVE  CapBound'
    <3>1. c.key \in Keys /\ c.amt \in Int
      BY DEF Command
    <3>2. \A k \in Keys : counter[k] \in Int /\ topup[k] \in Nat /\ Limit[k[1]] \in Nat
      BY DEF Keys
    <3>3. CASE ReserveDenies(c)
      BY <3>3 DEF ReserveDenies, redisVars
    <3>4. CASE ReserveGrants(c)
      BY <3>1, <3>2, <3>4 DEF ReserveGrants, OverLimit
    <3>5. CASE IncrBy(c)
      BY <3>1, <3>2, <3>5 DEF IncrBy, Surplus
    <3> QED
      BY <2>1, <3>3, <3>4, <3>5 DEF Execute
  <2>2. ASSUME NEW k \in Keys, Expire(k)
        PROVE  CapBound'
    BY <2>2 DEF Expire, Keys
  <2>3. CASE Wipe
    BY <2>3 DEF Wipe, Keys
  <2>4. ASSUME UNCHANGED redisVars
        PROVE  CapBound'
    BY <2>4 DEF redisVars
  <2>5. ASSUME NEW r \in Requests,
               \/ SkipBudget(r)
               \/ \E e \in Estimates : CheckBudget(r, e)
               \/ HandlerStep(r)
               \/ UpstreamStep(r)
        PROVE  UNCHANGED redisVars
    BY <2>5 DEF SkipBudget, CheckBudget, HandlerStep, UpstreamStep, ReserveAllowed,
       ReserveDenied, Retry, ForwardUnreserved, BudgetUnavailable, Reconciled,
       ReconcileErrs, Enqueue, UpstreamError, UpstreamReply, Respond
  <2>6. ASSUME \/ \E c \in wire : Drop(c)
               \/ \E p \in Replicas : Crash(p)
               \/ NextMonth \/ Finished \/ UNCHANGED vars
        PROVE  UNCHANGED redisVars
    BY <2>6 DEF Drop, Crash, NextMonth, Finished, vars, redisVars
  <2> QED
    BY <2>1, <2>2, <2>3, <2>4, <2>5, <2>6 DEF Next
<1> QED
  BY <1>1, <1>2, TypeCorrect, PTL DEF Spec

(***************************************************************************)
(* FailClosedReserved is not inductive: it needs that an "allowed" a       *)
(* handler is about to read was sent by an execution of the script.        *)
(***************************************************************************)
AllowedGranted == \A r \in Requests : reply[r] = "allowed" => granted[r] > 0

ReservedInv == AllowedGranted /\ FailClosedReserved

(***************************************************************************)
(* A capped, fail-closed tenant's request is never forwarded without a     *)
(* reservation Redis executed, whatever is lost, repeated or late, and     *)
(* whether or not replicas and Redis restart (checkBudget).                *)
(***************************************************************************)
THEOREM NeverForwardedUnreserved == Spec => []FailClosedReserved
<1> USE GateAssumption
<1>1. Init => ReservedInv
  BY DEF Init, ReservedInv, AllowedGranted, FailClosedReserved, Forwarded
<1>2. TypeOK /\ ReservedInv /\ [Next]_vars => ReservedInv'
  <2> SUFFICES ASSUME TypeOK, ReservedInv, [Next]_vars
               PROVE  ReservedInv'
    OBVIOUS
  <2> USE DEF TypeOK, ReservedInv, AllowedGranted, FailClosedReserved, Forwarded
  <2>1. ASSUME NEW r \in Requests, SkipBudget(r)
        PROVE  ReservedInv'
    BY <2>1 DEF SkipBudget, redisVars
  <2>2. ASSUME NEW r \in Requests, NEW e \in Estimates, CheckBudget(r, e)
        PROVE  ReservedInv'
    BY <2>2 DEF CheckBudget, redisVars
  <2>3. ASSUME NEW r \in Requests, HandlerStep(r)
        PROVE  ReservedInv'
    <3> USE DEF redisVars
    <3>1. CASE ReserveAllowed(r)
      BY <3>1 DEF ReserveAllowed
    <3>2. CASE ReserveDenied(r)
      BY <3>2 DEF ReserveDenied
    <3>3. CASE Retry(r)
      BY <3>3 DEF Retry
    <3>4. CASE ForwardUnreserved(r)
      BY <3>4 DEF ForwardUnreserved
    <3>5. CASE BudgetUnavailable(r)
      BY <3>5 DEF BudgetUnavailable
    <3>6. CASE Reconciled(r)
      BY <3>6 DEF Reconciled
    <3>7. CASE ReconcileErrs(r)
      BY <3>7 DEF ReconcileErrs
    <3>8. CASE Enqueue(r)
      BY <3>8 DEF Enqueue
    <3> QED
      BY <2>3, <3>1, <3>2, <3>3, <3>4, <3>5, <3>6, <3>7, <3>8 DEF HandlerStep
  <2>4. ASSUME NEW r \in Requests, UpstreamStep(r)
        PROVE  ReservedInv'
    BY <2>4 DEF UpstreamStep, UpstreamError, UpstreamReply, Respond, NextStop, redisVars
  <2>5. ASSUME NEW c \in wire, Execute(c)
        PROVE  ReservedInv'
    <3>1. c.req \in Requests
      BY DEF Command
    <3>2. CASE ReserveDenies(c)
      BY <3>1, <3>2 DEF ReserveDenies, Answer, redisVars
    <3>3. CASE ReserveGrants(c)
      BY <3>1, <3>3 DEF ReserveGrants, Answer
    <3>4. CASE IncrBy(c)
      BY <3>1, <3>4 DEF IncrBy, Answer
    <3> QED
      BY <2>5, <3>2, <3>3, <3>4 DEF Execute
  <2>6. ASSUME NEW p \in Replicas, Crash(p)
        PROVE  ReservedInv'
    BY <2>6 DEF Crash, redisVars
  <2>7. ASSUME UNCHANGED <<pc, reply, granted, metered>>
        PROVE  ReservedInv'
    BY <2>7
  <2>8. ASSUME \/ \E c \in wire : Drop(c)
               \/ \E k \in Keys : Expire(k)
               \/ Wipe \/ NextMonth \/ Finished \/ UNCHANGED vars
        PROVE  UNCHANGED <<pc, reply, granted, metered>>
    BY <2>8 DEF Drop, Expire, Wipe, NextMonth, Finished, vars, redisVars
  <2> QED
    BY <2>1, <2>2, <2>3, <2>4, <2>5, <2>6, <2>7, <2>8 DEF Next
<1>3. ReservedInv => FailClosedReserved
  BY DEF ReservedInv
<1> QED
  BY <1>1, <1>2, <1>3, TypeCorrect, PTL DEF Spec

-----------------------------------------------------------------------------
(* What is on the wire: the gate implements BudgetLedger. *)

(***************************************************************************)
(* A handler of which nothing is on the wire and nothing was executed.     *)
(***************************************************************************)
Untouched(r) ==
    /\ granted[r] = 0
    /\ adjusted[r] = 0
    /\ \A c \in wire : c.req # r

NoIncrBy(r) ==
    /\ adjusted[r] = 0
    /\ \A c \in wire : c.req = r => c.op = "reserve"

\* What the place of a handler says about its commands.
Placed ==
    \A r \in Requests :
        /\ pc[r] = "idle" => Untouched(r)
        /\ pc[r] \in {"idle", "reserving"} => ~res[r].active
        /\ pc[r] \in {"idle", "reserving", "forwarding"} => NoIncrBy(r)
        /\ pc[r] = "reserving" => res[r].est \in Estimates
        /\ pc[r] = "reconciling" => res[r].active
        /\ reply[r] = "allowed" \/ res[r].active \/ adjusted[r] > 0 => granted[r] > 0
        /\ granted[r] > 0 => res[r].est \in Estimates
        /\ cost[r] \in Costs \cup {0}

\* A command on the wire carries what its request reserved, or owes, whichever
\* sending it is.
Sent ==
    \A c \in wire :
        /\ c.key = res[c.req].key
        /\ c.op = "reserve" =>
             /\ c.amt = res[c.req].est
             /\ c.amt \in Estimates
        /\ c.op = "incrby" =>
             /\ granted[c.req] > 0
             /\ c.amt = cost[c.req] - res[c.req].est

GateInv == TypeOK /\ Placed /\ Sent

(***************************************************************************)
(* Executing a command keeps the invariant, the first time and again.      *)
(***************************************************************************)
LEMMA ExecuteKeeps ==
    ASSUME GateInv, NEW c \in wire, Execute(c)
    PROVE  Placed' /\ Sent'
<1> USE DEF GateInv
<1>1. /\ c \in Command /\ c.req \in Requests /\ c.key \in Keys /\ c.amt \in Int
      /\ wire \subseteq Command
      /\ pc \in [Requests -> {"idle", "forwarding", "metering"} \cup Waiting \cup Final]
      /\ granted \in [Requests -> Nat] /\ adjusted \in [Requests -> Nat]
      /\ reply \in [Requests -> {"none", "allowed", "denied", "ok"}]
  BY DEF TypeOK, Command
<1>2. pc[c.req] # "idle"
  BY <1>1 DEF Placed, Untouched
<1>4. CASE ReserveDenies(c)
  <2>1. \A r \in Requests : reply'[r] = "allowed" => reply[r] = "allowed"
    BY <1>1, <1>4 DEF ReserveDenies, Answer
  <2>2. /\ wire' = wire \ {c}
        /\ UNCHANGED <<pc, res, cost, attempt, granted, adjusted>>
    BY <1>4 DEF ReserveDenies, redisVars
  <2>3. Placed'
    BY <2>1, <2>2 DEF Placed, Untouched, NoIncrBy
  <2>4. Sent'
    BY <2>2 DEF Sent
  <2> QED
    BY <2>3, <2>4
<1>5. CASE ReserveGrants(c)
  <2>1. /\ wire' = wire \ {c}
        /\ UNCHANGED <<pc, res, cost, attempt, adjusted>>
        /\ granted' = [granted EXCEPT ![c.req] = @ + 1]
        /\ granted'[c.req] > 0
        /\ \A r \in Requests : r # c.req => granted'[r] = granted[r]
        /\ \A r \in Requests : reply'[r] = "allowed" => reply[r] = "allowed" \/ r = c.req
    BY <1>1, <1>5 DEF ReserveGrants, Answer
  <2>2. res[c.req].est \in Estimates
    BY <1>5 DEF ReserveGrants, Sent
  <2>3. Placed'
    BY <1>2, <2>1, <2>2 DEF Placed, Untouched, NoIncrBy
  <2>5. \A d \in wire' : d.req \in Requests
    BY <1>1, <2>1 DEF Command
  <2>6. Sent'
    BY <1>1, <2>1, <2>5 DEF Sent
  <2> QED
    BY <2>3, <2>6
<1>6. CASE IncrBy(c)
  <2>1. /\ wire' = wire \ {c}
        /\ UNCHANGED <<pc, res, cost, attempt, granted>>
        /\ adjusted' = [adjusted EXCEPT ![c.req] = @ + 1]
        /\ \A r \in Requests : r # c.req => adjusted'[r] = adjusted[r]
        /\ \A r \in Requests : reply'[r] = "allowed" => reply[r] = "allowed"
    BY <1>1, <1>6 DEF IncrBy, Answer
  <2>2. pc[c.req] \notin {"idle", "reserving", "forwarding"}
    BY <1>1, <1>6 DEF IncrBy, Placed, NoIncrBy
  <2>3. granted[c.req] > 0
    BY <1>6 DEF IncrBy, Sent
  <2>4. Placed'
    BY <2>1, <2>2, <2>3 DEF Placed, Untouched, NoIncrBy
  <2>6. Sent'
    BY <2>1 DEF Sent
  <2> QED
    BY <2>4, <2>6
<1> QED
  BY <1>4, <1>5, <1>6 DEF Execute

(***************************************************************************)
(* No step of a handler, of the provider or of the environment breaks it.  *)
(***************************************************************************)
LEMMA HandlerKeeps ==
    ASSUME GateInv, NEW r \in Requests, HandlerStep(r)
    PROVE  Placed' /\ Sent'
<1> USE DEF GateInv, redisVars
<1>0. /\ pc \in [Requests -> {"idle", "forwarding", "metering"} \cup Waiting \cup Final]
      /\ res \in [Requests -> Reservation]
      /\ reply \in [Requests -> {"none", "allowed", "denied", "ok"}]
      /\ \A d \in wire : d.req \in Requests
  BY DEF TypeOK, Command
<1>1. CASE ReserveAllowed(r)
  <2>1. /\ \A q \in Requests : res'[q].key = res[q].key /\ res'[q].est = res[q].est
        /\ \A q \in Requests : q # r => res'[q] = res[q] /\ pc'[q] = pc[q]
        /\ \A q \in Requests : reply'[q] = "allowed" => reply[q] = "allowed"
        /\ pc[r] = "reserving" /\ pc'[r] = "forwarding" /\ granted[r] > 0
        /\ UNCHANGED <<wire, cost, attempt, granted, adjusted>>
    BY <1>0, <1>1 DEF ReserveAllowed, Reservation, Placed
  <2>2. Placed'
    BY <2>1 DEF Placed, Untouched, NoIncrBy, Waiting
  <2>3. Sent'
    BY <1>0, <2>1 DEF Sent
  <2> QED
    BY <2>2, <2>3
<1>2. ASSUME /\ pc[r] \in {"reserving", "reconciling", "metering"}
             /\ pc' = [pc EXCEPT ![r] = pc'[r]]
             /\ pc'[r] \in {"forwarding", "metering", "done"}
             /\ pc'[r] = "forwarding" => pc[r] = "reserving"
             /\ \A q \in Requests : reply'[q] = "allowed" => reply[q] = "allowed"
             /\ UNCHANGED <<wire, res, cost, attempt, granted, adjusted>>
      PROVE  Placed' /\ Sent'
  BY <1>0, <1>2 DEF Placed, Sent, Untouched, NoIncrBy, Waiting
<1>3. CASE Retry(r)
  <2> DEFINE d == IF pc[r] = "reserving"
                  THEN ReserveCmd(r, res[r].key, res[r].est, attempt[r] + 1)
                  ELSE ReconcileCmd(r, cost[r], attempt[r] + 1)
  <2>1. /\ pc[r] \in Waiting
        /\ wire' = wire \cup {d}
        /\ \A q \in Requests : reply'[q] = "allowed" => reply[q] = "allowed"
        /\ UNCHANGED <<pc, res, cost, granted, adjusted>>
    BY <1>0, <1>3 DEF Retry
  <2>2. /\ d.req = r /\ d.key = res[r].key
        /\ d.op = "reserve" => d.amt = res[r].est /\ d.amt \in Estimates
        /\ d.op = "incrby" =>
             /\ pc[r] = "reconciling"
             /\ granted[r] > 0
             /\ d.amt = cost[r] - res[r].est
    BY <2>1 DEF ReserveCmd, ReconcileCmd, ReconcileKey, ReconcileDelta, Placed, Waiting
  <2>3. d.op \in {"reserve", "incrby"} /\ (pc[r] = "reserving" => d.op = "reserve")
    BY DEF ReserveCmd, ReconcileCmd
  <2> HIDE DEF d
  <2>4. Placed'
    BY <2>1, <2>2, <2>3 DEF Placed, Untouched, NoIncrBy, Waiting
  <2>5. Sent'
    BY <2>1, <2>2 DEF Sent
  <2> QED
    BY <2>4, <2>5
<1>4. CASE \/ ReserveDenied(r)
           \/ ForwardUnreserved(r)
           \/ BudgetUnavailable(r)
           \/ Reconciled(r)
           \/ ReconcileErrs(r)
           \/ Enqueue(r)
  BY <1>0, <1>2, <1>4 DEF ReserveDenied, ForwardUnreserved, BudgetUnavailable, ReserveErrs,
     Reconciled, ReconcileErrs, Enqueue
<1> QED
  BY <1>1, <1>3, <1>4 DEF HandlerStep

(***************************************************************************)
(* Neither does a response, which may put the INCRBY on the wire.          *)
(***************************************************************************)
LEMMA RespondKeeps ==
    ASSUME GateInv, NEW r \in Requests, UpstreamStep(r)
    PROVE  Placed' /\ Sent'
<1> USE GateAssumption DEF GateInv, redisVars
<1>1. PICK c \in Costs \cup {0}, s \in {"502", "upstream"} : Respond(r, c, s)
  BY DEF UpstreamStep, UpstreamError, UpstreamReply
<1>2. /\ pc \in [Requests -> {"idle", "forwarding", "metering"} \cup Waiting \cup Final]
      /\ cost \in [Requests -> Nat] /\ attempt \in [Requests -> 0..MaxAttempts]
      /\ res[r].key \in Keys /\ res[r].est \in Nat
      /\ \A d \in wire : d.req \in Requests /\ d.op \in Ops
  BY DEF TypeOK, Command, Reservation
<1>3. /\ pc[r] = "forwarding"
      /\ cost' = [cost EXCEPT ![r] = c]
      /\ pc' = [pc EXCEPT ![r] = NextStop(r, c)]
      /\ NextStop(r, c) \in {"reconciling", "metering"}
      /\ UNCHANGED <<res, reply, granted, adjusted>>
  BY <1>1 DEF Respond, NextStop
<1>4. \A d \in wire : d.req = r => d.op = "reserve"
  BY <1>3 DEF Placed, NoIncrBy
<1>5. CASE NextStop(r, c) = "metering"
  <2>1. UNCHANGED <<attempt, wire>>
    BY <1>1, <1>5 DEF Respond
  <2>2. Placed'
    BY <1>2, <1>3, <1>5, <2>1 DEF Placed, Untouched, NoIncrBy, Waiting
  <2>3. Sent'
    BY <1>2, <1>3, <1>4, <2>1 DEF Sent
  <2> QED
    BY <2>2, <2>3
<1>6. CASE NextStop(r, c) = "reconciling"
  <2>1. /\ attempt' = [attempt EXCEPT ![r] = 1]
        /\ wire' = wire \cup {ReconcileCmd(r, c, 1)}
        /\ res[r].active /\ granted[r] > 0
    BY <1>1, <1>3, <1>6 DEF Respond, NextStop, Placed
  <2>2. Placed'
    <3>1. \A q \in Requests : q # r => \A d \in wire' : d.req = q => d \in wire
      BY <2>1 DEF ReconcileCmd
    <3> QED
      BY <1>2, <1>3, <1>6, <2>1, <3>1 DEF Placed, Untouched, NoIncrBy, Waiting
  <2>3. ASSUME NEW d \in wire
        PROVE  /\ d.key = res'[d.req].key
               /\ d.op = "reserve" =>
                    d.amt = res'[d.req].est /\ d.amt \in Estimates
               /\ d.op = "incrby" =>
                    granted'[d.req] > 0 /\ d.amt = cost'[d.req] - res'[d.req].est
    BY <1>2, <1>3, <1>4 DEF Sent
  <2>4. LET d == ReconcileCmd(r, c, 1)
        IN  /\ d.key = res'[d.req].key
            /\ d.op = "incrby"
            /\ granted'[d.req] > 0 /\ d.amt = cost'[d.req] - res'[d.req].est
    BY <1>2, <1>3, <2>1 DEF ReconcileCmd, ReconcileKey, ReconcileDelta
  <2>5. Sent'
    BY <2>1, <2>3, <2>4 DEF Sent
  <2> QED
    BY <2>2, <2>5
<1> QED
  BY <1>3, <1>5, <1>6

(***************************************************************************)
(* Nor any other step.                                                     *)
(***************************************************************************)
LEMMA NextKeeps ==
    ASSUME GateInv, [Next]_vars
    PROVE  GateInv'
<1> USE GateAssumption
<1>0. /\ TypeOK'
      /\ \A d \in wire : d.req \in Requests
      /\ pc \in [Requests -> {"idle", "forwarding", "metering"} \cup Waiting \cup Final]
      /\ res \in [Requests -> Reservation]
  BY NextTyped DEF GateInv, TypeOK, Command
<1>1. ASSUME NEW r \in Requests, SkipBudget(r)
      PROVE  Placed' /\ Sent'
  BY <1>0, <1>1 DEF SkipBudget, GateInv, Placed, Sent, Untouched, NoIncrBy, Waiting, redisVars
<1>2. ASSUME NEW r \in Requests, NEW e \in Estimates, CheckBudget(r, e)
      PROVE  Placed' /\ Sent'
  <2> DEFINE d == ReserveCmd(r, MonthKey(TenantOf[r]), e, 1)
  <2>1. /\ pc[r] = "idle" /\ pc' = [pc EXCEPT ![r] = "reserving"]
        /\ res' = [res EXCEPT ![r] =
                     [active |-> FALSE, key |-> MonthKey(TenantOf[r]), est |-> e]]
        /\ attempt' = [attempt EXCEPT ![r] = 1]
        /\ wire' = wire \cup {d}
        /\ UNCHANGED <<cost, reply, granted, adjusted>>
        /\ granted[r] = 0 /\ adjusted[r] = 0
        /\ \A c \in wire : c.req # r
    BY <1>2 DEF CheckBudget, GateInv, Placed, Untouched, redisVars
  <2>2. /\ d.req = r /\ d.op = "reserve" /\ d.key = MonthKey(TenantOf[r])
        /\ d.amt = e
    BY DEF ReserveCmd
  <2>3. attempt \in [Requests -> 0..MaxAttempts]
    BY DEF GateInv, TypeOK
  <2> HIDE DEF d
  <2>4. Placed'
    BY <1>0, <2>1, <2>2, <2>3 DEF GateInv, Placed, Untouched, NoIncrBy, Waiting
  <2>5. Sent'
    BY <1>0, <2>1, <2>2 DEF GateInv, Sent
  <2> QED
    BY <2>4, <2>5
<1>3. ASSUME NEW r \in Requests, HandlerStep(r) \/ UpstreamStep(r)
      PROVE  Placed' /\ Sent'
  BY <1>3, HandlerKeeps, RespondKeeps
<1>4. ASSUME NEW c \in wire, Execute(c)
      PROVE  Placed' /\ Sent'
  BY <1>4, ExecuteKeeps
<1>5. ASSUME /\ wire' \subseteq wire
             /\ \A r \in Requests : pc'[r] = pc[r] \/ pc'[r] = "dead"
             /\ UNCHANGED <<res, cost, attempt, reply, granted, adjusted>>
      PROVE  Placed' /\ Sent'
  BY <1>0, <1>5 DEF GateInv, Placed, Sent, Untouched, NoIncrBy, Waiting
<1>6. ASSUME \/ \E c \in wire : Drop(c)
             \/ \E k \in Keys : Expire(k)
             \/ \E p \in Replicas : Crash(p)
             \/ Wipe \/ NextMonth \/ Finished \/ UNCHANGED vars
      PROVE  Placed' /\ Sent'
  BY <1>0, <1>5, <1>6 DEF Drop, Expire, Crash, Wipe, NextMonth, Finished, vars, redisVars
<1> QED
  BY <1>0, <1>1, <1>2, <1>3, <1>4, <1>6 DEF Next, GateInv

(***************************************************************************)
(* A gate that has just started owes and holds nothing.                    *)
(***************************************************************************)
LEMMA InitKeeps ==
    Init => GateInv
<1> USE GateAssumption
<1>1. Init => TypeOK
  BY DEF Init, TypeOK, Months, Keys, Reservation, Waiting, Final
<1>2. Init => Placed /\ Sent
  BY DEF Init, Placed, Sent, Untouched, NoIncrBy, Waiting
<1> QED
  BY <1>1, <1>2 DEF GateInv

-----------------------------------------------------------------------------
(* The mapping. *)

(***************************************************************************)
(* A step that executes nothing is no step of the ledger.                  *)
(***************************************************************************)
LEMMA LedgerStutters ==
    ASSUME Placed,
           UNCHANGED <<counter, granted, adjusted>>,
           \A r \in Requests : granted[r] > 0 =>
               res'[r].key = res[r].key /\ res'[r].est = res[r].est,
           \A r \in Requests : adjusted[r] > 0 => cost'[r] = cost[r]
    PROVE  UNCHANGED Ledger!vars
<1>1. \A r \in Requests : granted[r] > 0 => Hold(r)' = Hold(r)
  BY DEF Hold
<1>2. Held' = Held
  BY <1>1 DEF Held
<1>3. \A r \in Requests : adjusted[r] > 0 => Hold(r)' = Hold(r) /\ cost'[r] = cost[r]
  BY <1>1 DEF Placed
<1>4. Settled' = Settled
  BY <1>3 DEF Settled
<1> QED
  BY <1>2, <1>4 DEF Ledger!vars

(***************************************************************************)
(* The hold of a granted request is known to the ledger.                   *)
(***************************************************************************)
LEMMA HoldKnown ==
    ASSUME NEW r \in Requests, adjusted \in [Requests -> Nat],
           granted[r] > 0
    PROVE  Hold(r) \in Ledger!Known
<1>1. CASE adjusted[r] = 0
  BY <1>1 DEF Ledger!Known, Held
<1>2. CASE adjusted[r] > 0
  <2>1. [hold |-> Hold(r), cost |-> cost[r]] \in Settled
    BY <1>2 DEF Settled
  <2> QED
    BY <2>1 DEF Ledger!Known
<1>3. adjusted[r] \in Nat
  OBVIOUS
<1> QED
  BY <1>1, <1>2, <1>3

(***************************************************************************)
(* An execution of the script holds, once or again.                        *)
(***************************************************************************)
LEMMA GrantMaps ==
    ASSUME GateInv, NEW c \in wire, ReserveGrants(c)
    PROVE  Ledger!Next
<1>0. /\ c.req \in Requests /\ c.key \in Keys
      /\ granted \in [Requests -> Nat] /\ adjusted \in [Requests -> Nat]
      /\ counter \in [Keys -> Int]
  BY DEF GateInv, TypeOK, Command
<1>1. /\ c.key = res[c.req].key /\ c.amt = res[c.req].est /\ c.amt \in Estimates
      /\ Hold(c.req).req = c.req /\ Hold(c.req).key = c.key /\ Hold(c.req).est = c.amt
  BY DEF ReserveGrants, GateInv, Sent, Hold
<1>2. /\ granted' = [granted EXCEPT ![c.req] = @ + 1]
      /\ UNCHANGED <<res, cost, adjusted>>
      /\ counter' = [counter EXCEPT ![c.key] = @ + c.amt]
      /\ ~(counter[c.key] + c.amt > Limit[c.key[1]])
  BY DEF ReserveGrants, OverLimit
<1>3. counter[c.key] + c.amt <= Limit[c.key[1]]
  <2>1. counter[c.key] \in Int /\ c.amt \in Nat /\ Limit[c.key[1]] \in Nat
    BY <1>0, <1>1, GateAssumption DEF Keys
  <2> QED
    BY <1>2, <2>1
<1>4. Settled' = Settled
  BY <1>2 DEF Settled, Hold
<1>5. CASE granted[c.req] = 0
  <2>1. adjusted[c.req] = 0
    BY <1>0, <1>5 DEF GateInv, Placed
  <2>2. {q \in Requests : granted'[q] > 0 /\ adjusted'[q] = 0}
          = {q \in Requests : granted[q] > 0 /\ adjusted[q] = 0} \cup {c.req}
    BY <1>0, <1>2, <1>5, <2>1
  <2>3. Held' = Held \cup {[req |-> c.req, key |-> c.key, est |-> c.amt]}
    BY <1>1, <1>2, <2>2 DEF Held, Hold
  <2>4. \A g \in Ledger!Known : g.req # c.req
    <3>1. \A g \in Held : g.req # c.req
      BY <1>5 DEF Held, Hold
    <3>2. \A x \in Settled : x.hold.req # c.req
      BY <2>1 DEF Settled, Hold
    <3> QED
      BY <3>1, <3>2 DEF Ledger!Known
  <2>5. Ledger!Hold(c.req, c.key, c.amt)
    BY <1>0, <1>2, <1>3, <1>4, <2>3, <2>4 DEF Ledger!Hold, Ledger!Add
  <2> QED
    BY <1>0, <1>1, <2>5 DEF Ledger!Next
<1>6. CASE granted[c.req] > 0
  <2>1. {q \in Requests : granted'[q] > 0 /\ adjusted'[q] = 0}
          = {q \in Requests : granted[q] > 0 /\ adjusted[q] = 0}
    BY <1>0, <1>2, <1>6
  <2>2. Held' = Held
    BY <1>2, <2>1 DEF Held, Hold
  <2>3. Ledger!HoldAgain(Hold(c.req))
    BY <1>0, <1>1, <1>2, <1>3, <1>4, <2>2 DEF Ledger!HoldAgain, Ledger!Add
  <2>4. Hold(c.req) \in Ledger!Known
    BY <1>0, <1>6, HoldKnown
  <2> QED
    BY <2>3, <2>4 DEF Ledger!Next
<1> QED
  BY <1>0, <1>5, <1>6

(***************************************************************************)
(* An execution of INCRBY settles, once or again.                          *)
(***************************************************************************)
LEMMA IncrByMaps ==
    ASSUME GateInv, NEW c \in wire, IncrBy(c)
    PROVE  Ledger!Next
<1>0. /\ c.req \in Requests /\ c.key \in Keys
      /\ granted \in [Requests -> Nat] /\ adjusted \in [Requests -> Nat]
      /\ counter \in [Keys -> Int]
  BY DEF GateInv, TypeOK, Command
<1> DEFINE h == Hold(c.req)
<1>1. /\ granted[c.req] > 0
      /\ c.key = h.key /\ c.amt = cost[c.req] - h.est
      /\ cost[c.req] \in Costs \cup {0} /\ cost[c.req] \in Nat /\ h.est \in Nat
  BY <1>0 DEF IncrBy, GateInv, Sent, Placed, TypeOK, Reservation, Hold
<1>2. /\ adjusted' = [adjusted EXCEPT ![c.req] = @ + 1]
      /\ UNCHANGED <<res, cost, granted>>
      /\ counter' = [counter EXCEPT ![c.key] = @ + c.amt]
      /\ \A r : Hold(r)' = Hold(r)
  BY DEF IncrBy, Hold
<1>3. Ledger!Add(h.key, cost[c.req] - h.est)
  BY <1>1, <1>2 DEF Ledger!Add
<1>4. CASE adjusted[c.req] = 0
  <2>1. {q \in Requests : granted'[q] > 0 /\ adjusted'[q] = 0}
          = {q \in Requests : granted[q] > 0 /\ adjusted[q] = 0} \ {c.req}
    BY <1>0, <1>2, <1>4
  <2>2. h \in Held
    BY <1>0, <1>1, <1>4 DEF Held
  <2>3. Held' = Held \ {h}
    BY <1>2, <2>1 DEF Held, Hold
  <2>4. {q \in Requests : adjusted'[q] > 0} = {q \in Requests : adjusted[q] > 0} \cup {c.req}
    BY <1>0, <1>2, <1>4
  <2>5. Settled' = Settled \cup {[hold |-> h, cost |-> cost[c.req]]}
    BY <1>2, <2>4 DEF Settled
  <2>6. Ledger!Settle(h, cost[c.req])
    BY <1>3, <2>3, <2>5 DEF Ledger!Settle
  <2> QED
    BY <1>1, <2>2, <2>6 DEF Ledger!Next
<1>5. CASE adjusted[c.req] > 0
  <2> DEFINE x == [hold |-> h, cost |-> cost[c.req]]
  <2>1. /\ {q \in Requests : granted'[q] > 0 /\ adjusted'[q] = 0}
             = {q \in Requests : granted[q] > 0 /\ adjusted[q] = 0}
        /\ {q \in Requests : adjusted'[q] > 0} = {q \in Requests : adjusted[q] > 0}
    BY <1>0, <1>2, <1>5
  <2>2. Held' = Held /\ Settled' = Settled
    BY <1>2, <2>1 DEF Held, Settled
  <2>3. x \in Settled
    BY <1>0, <1>5 DEF Settled
  <2>4. x.hold = h /\ x.cost = cost[c.req]
    OBVIOUS
  <2>5. Ledger!SettleAgain(x)
    BY <1>3, <2>2, <2>4 DEF Ledger!SettleAgain
  <2> QED
    BY <2>3, <2>5 DEF Ledger!Next
<1> QED
  BY <1>0, <1>4, <1>5

(***************************************************************************)
(* An execution of the script holds, one of INCRBY settles.                *)
(***************************************************************************)
LEMMA ExecuteMaps ==
    ASSUME GateInv, NEW c \in wire, Execute(c)
    PROVE  [Ledger!Next]_(Ledger!vars)
<1>1. CASE ReserveDenies(c)
  BY <1>1, LedgerStutters DEF ReserveDenies, redisVars, GateInv
<1> QED
  BY <1>1, GrantMaps, IncrByMaps DEF Execute

(***************************************************************************)
(* Every step of the gate is a step of the ledger, or none.                *)
(***************************************************************************)
LEMMA NextMaps ==
    ASSUME GateInv, [Next]_vars
    PROVE  [Ledger!Next]_(Ledger!vars)
<1>1. ASSUME NEW c \in wire, Execute(c)
      PROVE  [Ledger!Next]_(Ledger!vars)
  BY <1>1, ExecuteMaps
<1>2. ASSUME NEW S \in SUBSET Keys,
             counter' = [k \in Keys |-> IF k \in S THEN 0 ELSE counter[k]],
             UNCHANGED <<granted, adjusted, res, cost>>
      PROVE  Ledger!Forget(S)
  BY <1>2 DEF Ledger!Forget, Held, Settled, Hold
<1>3. ASSUME NEW k \in Keys, Expire(k)
      PROVE  Ledger!Next
  <2>1. counter' = [j \in Keys |-> IF j \in {k} THEN 0 ELSE counter[j]]
    BY <1>3 DEF Expire, GateInv, TypeOK
  <2>2. Ledger!Forget({k})
    BY <1>2, <1>3, <2>1 DEF Expire
  <2> QED
    BY <2>2 DEF Ledger!Next
<1>4. CASE Wipe
  <2>1. Ledger!Forget(Keys)
    BY <1>2, <1>4 DEF Wipe
  <2> QED
    BY <2>1 DEF Ledger!Next
<1>5. ASSUME NEW r \in Requests, NEW e \in Estimates, CheckBudget(r, e)
      PROVE  UNCHANGED Ledger!vars
  <2>1. granted[r] = 0
    BY <1>5 DEF CheckBudget, GateInv, Placed, Untouched
  <2>2. \A q \in Requests : q # r => res'[q] = res[q]
    BY <1>5 DEF CheckBudget, GateInv, TypeOK
  <2> QED
    BY <1>5, <2>1, <2>2, LedgerStutters DEF CheckBudget, redisVars, GateInv
<1>6. ASSUME NEW r \in Requests, ReserveAllowed(r)
      PROVE  UNCHANGED Ledger!vars
  <2>1. \A q \in Requests : res'[q].key = res[q].key /\ res'[q].est = res[q].est
    BY <1>6 DEF ReserveAllowed, GateInv, TypeOK, Reservation
  <2> QED
    BY <1>6, <2>1, LedgerStutters DEF ReserveAllowed, redisVars, GateInv
<1>7. ASSUME UNCHANGED <<res, cost, redisVars>>
      PROVE  UNCHANGED Ledger!vars
  BY <1>7, LedgerStutters DEF redisVars, GateInv
<1>8. ASSUME NEW r \in Requests,
             \/ SkipBudget(r) \/ ReserveDenied(r) \/ Retry(r)
             \/ ForwardUnreserved(r) \/ BudgetUnavailable(r)
             \/ Reconciled(r) \/ ReconcileErrs(r) \/ Enqueue(r)
      PROVE  UNCHANGED <<res, cost, redisVars>>
  BY <1>8 DEF SkipBudget, ReserveDenied, Retry, ForwardUnreserved, BudgetUnavailable,
     Reconciled, ReconcileErrs, Enqueue
<1>9. ASSUME \/ \E c \in wire : Drop(c)
             \/ \E p \in Replicas : Crash(p)
             \/ NextMonth \/ Finished \/ UNCHANGED vars
      PROVE  UNCHANGED <<res, cost, redisVars>>
  BY <1>9 DEF Drop, Crash, NextMonth, Finished, vars, redisVars
<1>10. ASSUME NEW r \in Requests, UpstreamStep(r)
       PROVE  UNCHANGED Ledger!vars
  <2>1. /\ pc[r] = "forwarding"
        /\ \A q \in Requests : q # r => cost'[q] = cost[q]
        /\ UNCHANGED <<res, redisVars>>
    BY <1>10 DEF UpstreamStep, UpstreamError, UpstreamReply, Respond, GateInv, TypeOK
  <2>2. adjusted[r] = 0
    BY <2>1 DEF GateInv, Placed, NoIncrBy
  <2> QED
    BY <2>1, <2>2, LedgerStutters DEF redisVars, GateInv
<1> QED
  BY <1>1, <1>3, <1>4, <1>5, <1>6, <1>7, <1>8, <1>9, <1>10
  DEF Next, HandlerStep

(***************************************************************************)
(* The gate implements the ledger, for all constants, retries and faults:  *)
(* a request holds one estimate on one counter and is moved to one cost,   *)
(* and every execution, the first or a repeated one, applies exactly these *)
(* amounts, an estimate only within the cap at that moment (Reserve,       *)
(* Reconcile and their callers).                                           *)
(***************************************************************************)
THEOREM LedgerImplemented == Spec => ImplementsLedger
<1> USE GateAssumption
<1>1. Init => GateInv
  BY InitKeeps
<1>2. GateInv /\ [Next]_vars => GateInv'
  BY NextKeeps
<1>3. Init => Ledger!Init
  <2>1. Init => {q \in Requests : granted[q] > 0 /\ adjusted[q] = 0} = {}
    BY DEF Init
  <2>2. Init => {q \in Requests : adjusted[q] > 0} = {}
    BY DEF Init
  <2> QED
    BY <2>1, <2>2 DEF Init, Ledger!Init, Held, Settled
<1>4. GateInv /\ [Next]_vars => [Ledger!Next]_(Ledger!vars)
  BY NextMaps
<1> QED
  BY <1>1, <1>2, <1>3, <1>4, PTL DEF Spec, ImplementsLedger, Ledger!Spec

-----------------------------------------------------------------------------
(* What the counters are worth. *)

\* What an executed reservation put, and left, on its counter.
Worth == [r \in Requests |-> IF adjusted[r] > 0 THEN cost[r] ELSE res[r].est]
GrantedOn(k) == {r \in Requests : granted[r] > 0 /\ res[r].key = k}
Balance(k) == SumFunctionOnSet(Worth, GrantedOn(k))

\* No command of a request that was granted on k was executed twice.
OnceOn(k) == \A r \in GrantedOn(k) : granted[r] <= 1 /\ adjusted[r] <= 1

\* A reservation on k may still be granted, or sent again.
Reserving(k) ==
    \/ \E c \in wire : c.op = "reserve" /\ c.key = k
    \/ \E r \in Requests : pc[r] = "reserving" /\ res[r].key = k

(***************************************************************************)
(* The invariant, of every counter: what its granted requests are worth,   *)
(* used by their handlers or not, is covered by the counter and what was   *)
(* missing from it, as long as it is in use or may still be reserved on;   *)
(* it is exactly the counter while nothing was lost or executed twice; and *)
(* it is within the cap and what was missing, unless a response cost more  *)
(* than its estimate.                                                      *)
(***************************************************************************)
Covered(k) == InUse(k) \/ Reserving(k) => Balance(k) <= counter[k] + missing[k]

Exact(k) ==
    (InUse(k) \/ Reserving(k)) /\ OnceOn(k) /\ missing[k] = 0 => counter[k] = Balance(k)

Bounded(k) == Conservative(k) => Balance(k) <= Limit[k[1]] + missing[k]

Books ==
    \A k \in Keys :
        /\ IsFiniteSet(GrantedOn(k))
        /\ Covered(k)
        /\ Exact(k)
        /\ Bounded(k)

\* What it needs: only a response with a known cost, to a request that holds
\* a reservation, sends an INCRBY.
Answers ==
    \A r \in Requests :
        /\ pc[r] \in {"idle", "reserving", "forwarding"} => status[r] = "none"
        /\ pc[r] = "reconciling" => status[r] # "none"
        /\ status[r] = "none" => cost[r] = 0 /\ NoIncrBy(r)
        /\ res[r].active \/ NoIncrBy(r)

AccountInv == GateInv /\ Answers /\ Books

(***************************************************************************)
(* No step sends an INCRBY for a request without a response.               *)
(***************************************************************************)
LEMMA AnswersNext ==
    ASSUME GateInv, Answers, [Next]_vars
    PROVE  Answers'
<1> USE GateAssumption
<1>0. /\ TypeOK
      /\ \A d \in wire : d.req \in Requests
      /\ pc \in [Requests -> {"idle", "forwarding", "metering"} \cup Waiting \cup Final]
      /\ res \in [Requests -> Reservation]
      /\ cost \in [Requests -> Nat]
      /\ status \in [Requests -> {"none", "upstream", "429", "502", "503"}]
  BY DEF GateInv, TypeOK, Command
<1>1. ASSUME NEW r \in Requests, SkipBudget(r)
      PROVE  Answers'
  BY <1>0, <1>1 DEF SkipBudget, Answers, NoIncrBy, redisVars
<1>2. ASSUME NEW r \in Requests, NEW e \in Estimates, CheckBudget(r, e)
      PROVE  Answers'
  <2> DEFINE d == ReserveCmd(r, MonthKey(TenantOf[r]), e, 1)
  <2>1. /\ pc[r] = "idle" /\ pc' = [pc EXCEPT ![r] = "reserving"]
        /\ \A q \in Requests : q # r => res'[q] = res[q]
        /\ wire' = wire \cup {d}
        /\ UNCHANGED <<cost, status, adjusted>>
    BY <1>0, <1>2 DEF CheckBudget, redisVars
  <2>2. d.req = r /\ d.op = "reserve"
    BY DEF ReserveCmd
  <2> HIDE DEF d
  <2>3. \A q \in Requests : NoIncrBy(q)' <=> NoIncrBy(q)
    BY <2>1, <2>2 DEF NoIncrBy
  <2> QED
    BY <1>0, <2>1, <2>3 DEF Answers
<1>3. ASSUME NEW r \in Requests,
             pc[r] \in {"reserving", "reconciling", "metering"},
             \A q \in Requests : q # r => pc'[q] = pc[q] /\ status'[q] = status[q],
             pc'[r] \in {"forwarding", "metering", "done"},
             pc'[r] = "forwarding" => pc[r] = "reserving" /\ status'[r] = status[r],
             status'[r] = "none" => status[r] = "none",
             \A q \in Requests : res[q].active => res'[q].active,
             UNCHANGED <<wire, cost, adjusted>>
      PROVE  Answers'
  BY <1>0, <1>3 DEF Answers, NoIncrBy, Waiting, Final
<1>4. ASSUME NEW r \in Requests, HandlerStep(r)
      PROVE  Answers'
  <2> USE DEF redisVars
  <2>1. CASE ReserveAllowed(r)
    <3>1. \A q \in Requests : res[q].active => res'[q].active
      BY <1>0, <2>1 DEF ReserveAllowed, Reservation
    <3> QED
      BY <1>0, <1>3, <2>1, <3>1 DEF ReserveAllowed
  <2>2. CASE ReserveDenied(r)
    BY <1>0, <1>3, <2>2 DEF ReserveDenied
  <2>3. CASE Retry(r)
    <3> DEFINE d == IF pc[r] = "reserving"
                    THEN ReserveCmd(r, res[r].key, res[r].est, attempt[r] + 1)
                    ELSE ReconcileCmd(r, cost[r], attempt[r] + 1)
    <3>1. /\ wire' = wire \cup {d} /\ pc[r] \in {"reserving", "reconciling"}
          /\ UNCHANGED <<pc, res, cost, status, adjusted>>
      BY <2>3 DEF Retry, Waiting
    <3>2. d.req = r /\ (pc[r] = "reserving" => d.op = "reserve")
      BY DEF ReserveCmd, ReconcileCmd
    <3>3. pc[r] = "reconciling" => res[r].active /\ status[r] # "none"
      BY DEF Answers, GateInv, Placed
    <3> HIDE DEF d
    <3>4. \A q \in Requests : q # r \/ pc[r] = "reserving" => (NoIncrBy(q)' <=> NoIncrBy(q))
      BY <3>1, <3>2 DEF NoIncrBy
    <3> QED
      BY <3>1, <3>3, <3>4 DEF Answers
  <2>4. CASE ForwardUnreserved(r)
    BY <1>0, <1>3, <2>4 DEF ForwardUnreserved, ReserveErrs
  <2>5. CASE BudgetUnavailable(r)
    BY <1>0, <1>3, <2>5 DEF BudgetUnavailable, ReserveErrs
  <2>6. CASE Reconciled(r) \/ ReconcileErrs(r) \/ Enqueue(r)
    BY <1>0, <1>3, <2>6 DEF Reconciled, ReconcileErrs, Enqueue
  <2> QED
    BY <1>4, <2>1, <2>2, <2>3, <2>4, <2>5, <2>6 DEF HandlerStep
<1>5. ASSUME NEW r \in Requests, UpstreamStep(r)
      PROVE  Answers'
  <2>1. PICK c \in Costs \cup {0}, s \in {"502", "upstream"} : Respond(r, c, s)
    BY <1>5 DEF UpstreamStep, UpstreamError, UpstreamReply
  <2>2. /\ pc[r] = "forwarding" /\ pc'[r] \in {"reconciling", "metering"}
        /\ status'[r] # "none"
        /\ \A q \in Requests : q # r =>
             pc'[q] = pc[q] /\ status'[q] = status[q] /\ cost'[q] = cost[q]
        /\ UNCHANGED <<res, adjusted>>
    BY <1>0, <2>1 DEF Respond, NextStop, redisVars
  <2>3. \A q \in Requests : q # r => (NoIncrBy(q)' <=> NoIncrBy(q))
    BY <2>1, <2>2 DEF Respond, NoIncrBy, ReconcileCmd
  <2>4. res[r].active \/ NoIncrBy(r)'
    <3>1. NoIncrBy(r)
      BY <2>2 DEF Answers
    <3> QED
      BY <2>1, <2>2, <3>1 DEF Respond, NextStop, NoIncrBy
  <2> QED
    BY <2>2, <2>3, <2>4 DEF Answers
<1>6. ASSUME NEW c \in wire, Execute(c)
      PROVE  Answers'
  <2>1. UNCHANGED <<pc, res, cost, status>> /\ wire' = wire \ {c}
    BY <1>6 DEF Execute, ReserveDenies, ReserveGrants, IncrBy
  <2>2. \A q \in Requests : NoIncrBy(q) => NoIncrBy(q)'
    <3>1. CASE UNCHANGED adjusted
      BY <2>1, <3>1 DEF NoIncrBy
    <3>2. CASE IncrBy(c)
      BY <1>0, <2>1, <3>2 DEF IncrBy, NoIncrBy, GateInv, TypeOK
    <3> QED
      BY <1>6, <3>1, <3>2 DEF Execute, ReserveDenies, ReserveGrants, redisVars
  <2> QED
    BY <2>1, <2>2 DEF Answers
<1>7. ASSUME /\ wire' \subseteq wire
             /\ \A r \in Requests : pc'[r] = pc[r] \/ pc'[r] = "dead"
             /\ UNCHANGED <<res, cost, status, adjusted>>
      PROVE  Answers'
  BY <1>7 DEF Answers, NoIncrBy
<1>8. ASSUME \/ \E c \in wire : Drop(c)
             \/ \E k \in Keys : Expire(k)
             \/ \E p \in Replicas : Crash(p)
             \/ Wipe \/ NextMonth \/ Finished \/ UNCHANGED vars
      PROVE  Answers'
  BY <1>0, <1>7, <1>8 DEF Drop, Expire, Crash, Wipe, NextMonth, Finished, vars, redisVars
<1> QED
  BY <1>1, <1>2, <1>4, <1>5, <1>6, <1>8 DEF Next

(***************************************************************************)
(* The amounts are integers.                                               *)
(***************************************************************************)
LEMMA WorthTyped ==
    ASSUME TypeOK
    PROVE  \A r \in Requests : Worth[r] \in Nat
BY DEF TypeOK, Worth, Reservation

(***************************************************************************)
(* A balance depends on nothing but the granted requests.                  *)
(***************************************************************************)
LEMMA BalanceStays ==
    ASSUME TypeOK, NEW k, IsFiniteSet(GrantedOn(k)),
           \A r \in Requests : granted'[r] > 0 <=> granted[r] > 0,
           \A r \in Requests : granted[r] > 0 =>
               /\ res'[r].key = res[r].key
               /\ res'[r].est = res[r].est
               /\ adjusted'[r] > 0 <=> adjusted[r] > 0
               /\ adjusted[r] > 0 => cost'[r] = cost[r]
    PROVE  GrantedOn(k)' = GrantedOn(k) /\ Balance(k)' = Balance(k)
<1>1. GrantedOn(k)' = GrantedOn(k)
  BY DEF GrantedOn
<1>2. \A r \in GrantedOn(k) : Worth[r] \in Int /\ Worth'[r] = Worth[r]
  BY WorthTyped DEF GrantedOn, Worth
<1>3. SumFunctionOnSet(Worth', GrantedOn(k)) = SumFunctionOnSet(Worth, GrantedOn(k))
  BY <1>2, SumSame
<1> QED
  BY <1>1, <1>3 DEF Balance

(***************************************************************************)
(* No balance is negative.                                                 *)
(***************************************************************************)
LEMMA BalanceTyped ==
    ASSUME TypeOK, NEW k, IsFiniteSet(GrantedOn(k))
    PROVE  Balance(k) \in Int /\ 0 <= Balance(k)
<1>1. ASSUME NEW r \in GrantedOn(k)
      PROVE  Worth[r] \in Int /\ Worth[r] >= 0
  <2>1. r \in Requests
    BY DEF GrantedOn
  <2>2. Worth[r] \in Nat
    BY <2>1, WorthTyped
  <2> QED
    BY <2>2
<1>2. Balance(k) \in Int
  BY <1>1, SumType DEF Balance
<1>3. SumFunctionOnSet(Worth, {}) <= SumFunctionOnSet(Worth, GrantedOn(k))
  <2> DEFINE N == {}
  <2>1. /\ N \subseteq GrantedOn(k)
        /\ \A r \in N : Worth[r] \in Int /\ Worth[r] <= Worth[r]
        /\ \A r \in GrantedOn(k) \ N : Worth[r] >= 0
        /\ \A r \in GrantedOn(k) : Worth[r] \in Int
    BY <1>1
  <2> HIDE DEF N
  <2>2. SumFunctionOnSet(Worth, N) <= SumFunctionOnSet(Worth, GrantedOn(k))
    BY <2>1, SumMonotone
  <2> QED
    BY <2>2 DEF N
<1> QED
  BY <1>2, <1>3, SumEmpty DEF Balance

(***************************************************************************)
(* A step that executes nothing leaves the books alone.                    *)
(***************************************************************************)
LEMMA BooksStay ==
    ASSUME TypeOK, Books,
           UNCHANGED <<counter, granted, adjusted, missing>>,
           \A r \in Requests : granted[r] > 0 =>
               /\ res'[r].key = res[r].key
               /\ res'[r].est = res[r].est
               /\ adjusted[r] > 0 => cost'[r] = cost[r],
           \A k \in Keys : InUse(k)' \/ Reserving(k)' => InUse(k) \/ Reserving(k),
           \A k \in Keys : Conservative(k)' => Conservative(k)
    PROVE  Books'
<1> SUFFICES ASSUME NEW k \in Keys
             PROVE  IsFiniteSet(GrantedOn(k)') /\ Covered(k)' /\ Exact(k)' /\ Bounded(k)'
  BY DEF Books
<1>1. IsFiniteSet(GrantedOn(k)) /\ Covered(k) /\ Exact(k) /\ Bounded(k)
  BY DEF Books
<1>2. GrantedOn(k)' = GrantedOn(k) /\ Balance(k)' = Balance(k)
  BY <1>1, BalanceStays
<1>3. OnceOn(k)' <=> OnceOn(k)
  BY <1>2 DEF OnceOn
<1> QED
  BY <1>1, <1>2, <1>3 DEF Covered, Exact, Bounded

(***************************************************************************)
(* A granted reservation is worth its estimate, and within the cap at that *)
(* moment; one that is granted again raises only the counter.              *)
(***************************************************************************)
LEMMA GrantBooked ==
    ASSUME AccountInv, NEW c \in wire, ReserveGrants(c)
    PROVE  Books'
<1> USE GateAssumption
<1>0. /\ TypeOK /\ Books
      /\ c.req \in Requests /\ c.key \in Keys
      /\ granted \in [Requests -> Nat] /\ adjusted \in [Requests -> Nat]
      /\ counter \in [Keys -> Int] /\ missing \in [Keys -> Nat]
  BY DEF AccountInv, GateInv, TypeOK, Command
<1>1. /\ c.op = "reserve" /\ Reserving(c.key)
      /\ c.key = res[c.req].key /\ c.amt = res[c.req].est /\ c.amt \in Nat
  BY DEF ReserveGrants, AccountInv, GateInv, Sent, Reserving
<1>2. /\ granted' = [granted EXCEPT ![c.req] = @ + 1]
      /\ counter' = [counter EXCEPT ![c.key] = @ + c.amt]
      /\ wire' = wire \ {c}
      /\ UNCHANGED <<month, pc, res, cost, adjusted, missing>>
      /\ ~(counter[c.key] + c.amt > Limit[c.key[1]])
  BY DEF ReserveGrants, OverLimit
<1>3. \A k : /\ InUse(k)' <=> InUse(k)
             /\ Conservative(k)' <=> Conservative(k)
             /\ Reserving(k)' => Reserving(k)
  BY <1>2 DEF InUse, Conservative, OnKey, Reserving
<1>4. Worth' = Worth
  BY <1>2 DEF Worth
<1> SUFFICES ASSUME NEW k \in Keys
             PROVE  IsFiniteSet(GrantedOn(k)') /\ Covered(k)' /\ Exact(k)' /\ Bounded(k)'
  BY DEF Books
<1>5. /\ IsFiniteSet(GrantedOn(k)) /\ Covered(k) /\ Exact(k) /\ Bounded(k)
      /\ Balance(k) \in Int
      /\ counter[k] \in Int /\ missing[k] \in Nat /\ Limit[k[1]] \in Nat
  BY <1>0, BalanceTyped DEF Books, Keys
<1>6. CASE k # c.key
  <2>1. GrantedOn(k)' = GrantedOn(k) /\ c.req \notin GrantedOn(k)
    BY <1>0, <1>1, <1>2, <1>6 DEF GrantedOn
  <2>2. Balance(k)' = Balance(k) /\ counter'[k] = counter[k]
    BY <1>0, <1>2, <1>4, <1>6, <2>1 DEF Balance
  <2>3. OnceOn(k)' => OnceOn(k)
    BY <1>0, <1>2, <2>1 DEF OnceOn, GrantedOn
  <2> QED
    BY <1>2, <1>3, <1>5, <2>1, <2>2, <2>3 DEF Covered, Exact, Bounded
<1>7. CASE k = c.key /\ granted[c.req] = 0
  <2>1. GrantedOn(k)' = GrantedOn(k) \cup {c.req} /\ c.req \notin GrantedOn(k)
    BY <1>0, <1>1, <1>2, <1>7 DEF GrantedOn
  <2>2. \A r \in GrantedOn(k) \cup {c.req} : Worth[r] \in Int
    <3> SUFFICES ASSUME NEW r \in GrantedOn(k) \cup {c.req}
                 PROVE  Worth[r] \in Int
      OBVIOUS
    <3>1. r \in Requests
      BY <1>0 DEF GrantedOn
    <3>2. Worth[r] \in Nat
      BY <1>0, <3>1, WorthTyped
    <3> QED
      BY <3>2
  <2>3. Balance(k)' = Worth[c.req] + Balance(k)
    <3>1. SumFunctionOnSet(Worth, GrantedOn(k) \cup {c.req})
            = Worth[c.req] + SumFunctionOnSet(Worth, GrantedOn(k))
      BY <1>5, <2>1, <2>2, SumAdd
    <3> QED
      BY <1>4, <2>1, <3>1 DEF Balance
  <2>4. Worth[c.req] = c.amt
    <3>1. adjusted[c.req] = 0
      BY <1>0, <1>7 DEF AccountInv, GateInv, Placed
    <3> QED
      BY <1>0, <1>1, <3>1 DEF Worth
  <2>5. Balance(k) <= counter[k] + missing[k]
    BY <1>1, <1>5, <1>7 DEF Covered
  <2>6. counter'[k] = counter[k] + c.amt /\ missing'[k] = missing[k]
    BY <1>0, <1>2, <1>7
  <2>7. Balance(k)' <= counter'[k] + missing'[k]
    BY <1>1, <1>5, <2>3, <2>4, <2>5, <2>6
  <2>8. Balance(k)' <= Limit[k[1]] + missing'[k]
    BY <1>1, <1>2, <1>5, <1>7, <2>3, <2>4, <2>5, <2>6
  <2>9. OnceOn(k)' => OnceOn(k)
    BY <1>0, <1>2, <2>1 DEF OnceOn, GrantedOn
  <2>10. Exact(k)'
    <3>1. OnceOn(k) /\ missing[k] = 0 => counter[k] = Balance(k)
      BY <1>1, <1>5, <1>7 DEF Exact
    <3> QED
      BY <1>1, <1>5, <2>3, <2>4, <2>6, <2>9, <3>1 DEF Exact
  <2>11. IsFiniteSet(GrantedOn(k)')
    BY <1>5, <2>1, FS_AddElement
  <2> QED
    BY <2>7, <2>8, <2>10, <2>11 DEF Covered, Bounded
<1>8. CASE k = c.key /\ granted[c.req] > 0
  <2>1. GrantedOn(k)' = GrantedOn(k) /\ c.req \in GrantedOn(k)
    BY <1>0, <1>1, <1>2, <1>8 DEF GrantedOn
  <2>2. Balance(k)' = Balance(k)
    BY <1>4, <2>1 DEF Balance
  <2>3. counter'[k] = counter[k] + c.amt /\ missing'[k] = missing[k]
    BY <1>0, <1>2, <1>8
  <2>4. Covered(k)'
    <3>1. Balance(k) <= counter[k] + missing[k]
      BY <1>1, <1>5, <1>8 DEF Covered
    <3> QED
      BY <1>1, <1>5, <2>2, <2>3, <3>1 DEF Covered
  <2>5. ~OnceOn(k)'
    BY <1>0, <1>2, <1>8, <2>1 DEF OnceOn
  <2> QED
    BY <1>3, <1>5, <2>1, <2>2, <2>3, <2>4, <2>5 DEF Exact, Bounded
<1> QED
  BY <1>0, <1>6, <1>7, <1>8

(***************************************************************************)
(* An INCRBY moves what its request is worth from the estimate to the      *)
(* cost, and the counter by as much; one that is executed again moves only *)
(* the counter, and what it gives back is missing.                         *)
(***************************************************************************)
LEMMA SettlementBooked ==
    ASSUME AccountInv, NEW c \in wire, IncrBy(c)
    PROVE  Books'
<1> USE GateAssumption
<1> DEFINE q == c.req
<1>0. /\ TypeOK /\ Books
      /\ q \in Requests /\ c.key \in Keys
      /\ granted \in [Requests -> Nat] /\ counter \in [Keys -> Int]
      /\ adjusted \in [Requests -> Nat] /\ missing \in [Keys -> Nat]
      /\ res[q].est \in Nat /\ cost[q] \in Nat
  BY DEF AccountInv, GateInv, TypeOK, Command, Reservation
<1>1. /\ granted[q] > 0 /\ res[q].active
      /\ c.key = res[q].key /\ c.amt = cost[q] - res[q].est
  <2>1. c.op = "incrby"
    BY DEF IncrBy
  <2>2. ~NoIncrBy(q)
    BY <2>1 DEF NoIncrBy
  <2> QED
    BY <1>0, <2>1, <2>2 DEF AccountInv, GateInv, Sent, Answers
<1>2. /\ adjusted' = [adjusted EXCEPT ![q] = @ + 1]
      /\ counter' = [counter EXCEPT ![c.key] = @ + c.amt]
      /\ missing' = IF adjusted[q] > 0
                    THEN [missing EXCEPT ![c.key] = @ + Surplus(0 - c.amt)]
                    ELSE missing
      /\ wire' = wire \ {c}
      /\ UNCHANGED <<month, pc, res, cost, granted>>
  BY DEF IncrBy
<1>3. \A k : /\ InUse(k)' <=> InUse(k)
             /\ Conservative(k)' <=> Conservative(k)
             /\ Reserving(k)' => Reserving(k)
             /\ GrantedOn(k)' = GrantedOn(k)
  BY <1>2 DEF InUse, Conservative, OnKey, Reserving, GrantedOn
<1>4. q \in GrantedOn(c.key)
  BY <1>0, <1>1 DEF GrantedOn
<1>5. \A k : OnceOn(k)' => OnceOn(k)
  BY <1>0, <1>2, <1>3 DEF OnceOn, GrantedOn
<1> SUFFICES ASSUME NEW k \in Keys
             PROVE  IsFiniteSet(GrantedOn(k)') /\ Covered(k)' /\ Exact(k)' /\ Bounded(k)'
  BY DEF Books
<1>6. /\ IsFiniteSet(GrantedOn(k)) /\ Covered(k) /\ Exact(k) /\ Bounded(k)
      /\ Balance(k) \in Int
      /\ counter[k] \in Int /\ missing[k] \in Nat /\ Limit[k[1]] \in Nat
  BY <1>0, BalanceTyped DEF Books, Keys
<1>7. \A r \in Requests : /\ Worth[r] \in Int
                          /\ r # q => Worth'[r] = Worth[r]
  <2>1. \A r \in Requests : Worth[r] \in Nat
    BY <1>0, WorthTyped
  <2> QED
    BY <1>0, <1>2, <2>1 DEF Worth
<1>8. CASE k # c.key
  <2>1. \A r \in GrantedOn(k) : Worth[r] \in Int /\ Worth'[r] = Worth[r]
    BY <1>1, <1>7, <1>8 DEF GrantedOn
  <2>2. SumFunctionOnSet(Worth', GrantedOn(k)) = SumFunctionOnSet(Worth, GrantedOn(k))
    BY <1>6, <2>1, SumSame
  <2>3. /\ Balance(k)' = Balance(k)
        /\ counter'[k] = counter[k] /\ missing'[k] = missing[k]
    BY <1>0, <1>2, <1>3, <1>8, <2>2 DEF Balance
  <2> QED
    BY <1>3, <1>5, <1>6, <2>3 DEF Covered, Exact, Bounded
<1>9. CASE k = c.key /\ adjusted[q] = 0
  <2>1. Worth[q] = res[q].est /\ Worth'[q] = cost[q]
    BY <1>0, <1>2, <1>9 DEF Worth
  <2>2. /\ \A r \in GrantedOn(k) : Worth[r] \in Int /\ Worth'[r] \in Int
        /\ \A r \in GrantedOn(k) : r # q => Worth'[r] = Worth[r]
    BY <1>0, <1>7, <2>1 DEF GrantedOn
  <2>3. SumFunctionOnSet(Worth', GrantedOn(k))
          = SumFunctionOnSet(Worth, GrantedOn(k)) + Worth'[q] - Worth[q]
    <3>1. q \in GrantedOn(k)
      BY <1>4, <1>9
    <3> HIDE DEF q
    <3> QED
      BY <1>6, <2>2, <3>1, SumChange
  <2>4. Balance(k)' = Balance(k) + cost[q] - res[q].est
    BY <1>3, <2>1, <2>3 DEF Balance
  <2>5. counter'[k] = counter[k] + cost[q] - res[q].est /\ missing'[k] = missing[k]
    BY <1>0, <1>1, <1>2, <1>6, <1>9
  <2>6. Conservative(k) => cost[q] <= res[q].est
    BY <1>0, <1>1, <1>9 DEF Conservative, OnKey
  <2>7. Covered(k)'
    BY <1>0, <1>3, <1>6, <2>4, <2>5 DEF Covered
  <2>8. Exact(k)'
    BY <1>0, <1>3, <1>5, <1>6, <2>4, <2>5 DEF Exact
  <2>9. Bounded(k)'
    BY <1>0, <1>3, <1>6, <2>4, <2>5, <2>6 DEF Bounded
  <2> QED
    BY <1>3, <1>6, <2>7, <2>8, <2>9
<1>10. CASE k = c.key /\ adjusted[q] > 0
  <2>1. Worth'[q] = Worth[q]
    BY <1>0, <1>2, <1>10 DEF Worth
  <2>2. \A r \in GrantedOn(k) : Worth[r] \in Int /\ Worth'[r] = Worth[r]
    BY <1>7, <2>1 DEF GrantedOn
  <2>3. SumFunctionOnSet(Worth', GrantedOn(k)) = SumFunctionOnSet(Worth, GrantedOn(k))
    BY <1>6, <2>2, SumSame
  <2>4. Balance(k)' = Balance(k)
    BY <1>3, <2>3 DEF Balance
  <2>5. /\ counter'[k] = counter[k] + c.amt
        /\ missing'[k] = missing[k] + Surplus(0 - c.amt)
        /\ c.amt \in Int
    BY <1>0, <1>1, <1>2, <1>10
  <2>6. /\ Surplus(0 - c.amt) \in Nat
        /\ c.amt + Surplus(0 - c.amt) >= 0
    BY <2>5 DEF Surplus
  <2>7. Covered(k)'
    BY <1>3, <1>6, <2>4, <2>5, <2>6 DEF Covered
  <2>8. ~OnceOn(k)'
    BY <1>0, <1>2, <1>3, <1>4, <1>10 DEF OnceOn
  <2>9. Bounded(k)'
    BY <1>3, <1>6, <2>4, <2>5, <2>6 DEF Bounded
  <2> QED
    BY <1>3, <1>6, <2>7, <2>8, <2>9 DEF Exact
<1>11. adjusted[q] = 0 \/ adjusted[q] > 0
  BY <1>0
<1> QED
  BY <1>8, <1>9, <1>10, <1>11

(***************************************************************************)
(* A counter that expires is out of use, and nothing can be reserved on it *)
(* any more.                                                               *)
(***************************************************************************)
LEMMA ExpiryBooked ==
    ASSUME TypeOK, Books, NEW j \in Keys, Expire(j)
    PROVE  Books'
<1>1. /\ counter' = [counter EXCEPT ![j] = 0]
      /\ UNCHANGED <<month, wire, pc, res, cost, granted, adjusted, missing>>
      /\ month >= j[2] + 2
      /\ \A c \in wire : c.key # j
      /\ \A r \in Requests : pc[r] = "reserving" => res[r].key # j
  BY DEF Expire, Outlived, Waiting
<1>2. ~InUse(j) /\ ~Reserving(j)
  BY <1>1 DEF InUse, Reserving, TypeOK, Keys, Months
<1>3. \A k : /\ InUse(k)' <=> InUse(k)
             /\ Conservative(k)' <=> Conservative(k)
             /\ Reserving(k)' <=> Reserving(k)
             /\ GrantedOn(k)' = GrantedOn(k)
             /\ Balance(k)' = Balance(k)
             /\ OnceOn(k)' <=> OnceOn(k)
  <2>1. Worth' = Worth
    BY <1>1 DEF Worth
  <2>2. \A k : GrantedOn(k)' = GrantedOn(k)
    BY <1>1 DEF GrantedOn
  <2> QED
    BY <1>1, <2>1, <2>2 DEF InUse, Conservative, OnKey, Reserving, Balance, OnceOn
<1>4. \A k \in Keys : k # j => counter'[k] = counter[k]
  BY <1>1 DEF TypeOK
<1> QED
  BY <1>1, <1>2, <1>3, <1>4 DEF Books, Covered, Exact, Bounded

(***************************************************************************)
(* What Redis loses with its data is missing.                              *)
(***************************************************************************)
LEMMA LossBooked ==
    ASSUME TypeOK, Books, Wipe
    PROVE  Books'
<1>1. /\ counter' = [k \in Keys |-> 0]
      /\ missing' = [k \in Keys |-> missing[k] + Surplus(counter[k])]
      /\ UNCHANGED <<month, wire, pc, res, cost, granted, adjusted>>
  BY DEF Wipe
<1>2. \A k : /\ InUse(k)' <=> InUse(k)
             /\ Conservative(k)' <=> Conservative(k)
             /\ Reserving(k)' <=> Reserving(k)
             /\ GrantedOn(k)' = GrantedOn(k)
             /\ Balance(k)' = Balance(k)
             /\ OnceOn(k)' <=> OnceOn(k)
  <2>1. Worth' = Worth
    BY <1>1 DEF Worth
  <2>2. \A k : GrantedOn(k)' = GrantedOn(k)
    BY <1>1 DEF GrantedOn
  <2> QED
    BY <1>1, <2>1, <2>2 DEF InUse, Conservative, OnKey, Reserving, Balance, OnceOn
<1> SUFFICES ASSUME NEW k \in Keys
             PROVE  IsFiniteSet(GrantedOn(k)') /\ Covered(k)' /\ Exact(k)' /\ Bounded(k)'
  BY DEF Books
<1>3. /\ IsFiniteSet(GrantedOn(k)) /\ Covered(k) /\ Exact(k) /\ Bounded(k)
      /\ Balance(k) \in Int /\ 0 <= Balance(k)
      /\ counter[k] \in Int /\ missing[k] \in Nat /\ Limit[k[1]] \in Nat
  BY GateAssumption, BalanceTyped DEF Books, TypeOK, Keys
<1>4. /\ counter'[k] = 0 /\ missing'[k] \in Nat
      /\ missing'[k] >= missing[k] /\ missing'[k] >= missing[k] + counter[k]
  BY <1>1, <1>3 DEF Surplus
<1>5. Covered(k)' /\ Bounded(k)'
  BY <1>2, <1>3, <1>4 DEF Covered, Bounded
<1>6. Exact(k)'
  BY <1>2, <1>3, <1>4 DEF Exact
<1> QED
  BY <1>2, <1>3, <1>5, <1>6

(***************************************************************************)
(* Every step keeps the books: one case per action.                        *)
(***************************************************************************)
LEMMA BooksNext ==
    ASSUME AccountInv, [Next]_vars
    PROVE  Books'
<1> USE GateAssumption
<1>0. /\ TypeOK /\ Books /\ Answers
      /\ pc \in [Requests -> {"idle", "forwarding", "metering"} \cup Waiting \cup Final]
      /\ res \in [Requests -> Reservation]
      /\ cost \in [Requests -> Nat]
      /\ month \in Nat
  BY DEF AccountInv, GateInv, TypeOK, Months
<1>1. ASSUME NEW r \in Requests, NEW e \in Estimates, CheckBudget(r, e)
      PROVE  Books'
  <2> DEFINE d == ReserveCmd(r, MonthKey(TenantOf[r]), e, 1)
  <2>1. /\ granted[r] = 0 /\ ~res[r].active /\ ~res'[r].active
        /\ res'[r].key = <<TenantOf[r], month>>
        /\ \A q \in Requests : q # r => pc'[q] = pc[q]
        /\ \A q \in Requests : q # r => res'[q] = res[q]
        /\ wire' = wire \cup {d}
        /\ UNCHANGED <<month, cost, counter, granted, adjusted, missing>>
    BY <1>0, <1>1 DEF CheckBudget, MonthKey, redisVars, AccountInv, GateInv, Placed, Untouched
  <2>2. d.key = <<TenantOf[r], month>>
    BY DEF ReserveCmd, MonthKey
  <2> HIDE DEF d
  <2>3. \A k \in Keys : InUse(k)' \/ Reserving(k)' => InUse(k) \/ Reserving(k)
    BY <1>0, <2>1, <2>2 DEF InUse, Reserving
  <2>4. \A k \in Keys : Conservative(k)' => Conservative(k)
    BY <2>1 DEF Conservative, OnKey
  <2>5. \A q \in Requests : granted[q] > 0 => res'[q] = res[q]
    BY <2>1
  <2> QED
    BY <1>0, <2>1, <2>3, <2>4, <2>5, BooksStay
<1>2. ASSUME NEW r \in Requests, ReserveAllowed(r)
      PROVE  Books'
  <2>1. /\ \A q \in Requests : /\ res'[q].key = res[q].key
                               /\ res'[q].est = res[q].est
                               /\ res[q].active => res'[q].active
        /\ \A q \in Requests : pc'[q] = "reserving" => pc[q] = "reserving"
        /\ UNCHANGED <<month, wire, cost, counter, granted, adjusted, missing>>
    BY <1>0, <1>2 DEF ReserveAllowed, Reservation, redisVars
  <2>2. \A k \in Keys : InUse(k)' \/ Reserving(k)' => InUse(k) \/ Reserving(k)
    BY <2>1 DEF InUse, Reserving
  <2>3. \A k \in Keys : Conservative(k)' => Conservative(k)
    BY <2>1 DEF Conservative, OnKey
  <2> QED
    BY <1>0, <2>1, <2>2, <2>3, BooksStay
<1>3. ASSUME NEW r \in Requests, UpstreamStep(r)
      PROVE  Books'
  <2>1. PICK c \in Costs \cup {0}, s \in {"502", "upstream"} : Respond(r, c, s)
    BY <1>3 DEF UpstreamStep, UpstreamError, UpstreamReply
  <2>2. /\ adjusted[r] = 0 /\ cost[r] = 0 /\ res[r].est \in Nat
        /\ \A q \in Requests : q # r => cost'[q] = cost[q]
        /\ \A q \in Requests : pc'[q] = "reserving" => pc[q] = "reserving"
        /\ UNCHANGED <<month, res, counter, granted, adjusted, missing>>
    <3>1. pc[r] = "forwarding"
      BY <2>1 DEF Respond
    <3>2. cost[r] = 0 /\ NoIncrBy(r)
      BY <1>0, <3>1 DEF Answers
    <3> QED
      BY <1>0, <2>1, <3>2 DEF Respond, NextStop, NoIncrBy, redisVars, Reservation
  <2>3. \A d \in wire' : d.op = "reserve" => d \in wire
    BY <2>1 DEF Respond, ReconcileCmd
  <2>4. \A k \in Keys : InUse(k)' \/ Reserving(k)' => InUse(k) \/ Reserving(k)
    BY <2>2, <2>3 DEF InUse, Reserving
  <2>5. \A k \in Keys : Conservative(k)' => Conservative(k)
    BY <2>2 DEF Conservative, OnKey
  <2> QED
    BY <1>0, <2>2, <2>4, <2>5, BooksStay
<1>4. ASSUME NEW c \in wire, Execute(c)
      PROVE  Books'
  <2>1. CASE ReserveDenies(c)
    <3>1. wire' = wire \ {c} /\ UNCHANGED <<month, pc, res, cost, counter, granted, adjusted, missing>>
      BY <2>1 DEF ReserveDenies, redisVars
    <3>2. \A k \in Keys : InUse(k)' \/ Reserving(k)' => InUse(k) \/ Reserving(k)
      BY <3>1 DEF InUse, Reserving
    <3>3. \A k \in Keys : Conservative(k)' => Conservative(k)
      BY <3>1 DEF Conservative, OnKey
    <3> QED
      BY <1>0, <3>1, <3>2, <3>3, BooksStay
  <2> QED
    BY <1>4, <2>1, GrantBooked, SettlementBooked DEF Execute
<1>5. ASSUME NEW k \in Keys, Expire(k)
      PROVE  Books'
  BY <1>0, <1>5, ExpiryBooked
<1>6. ASSUME /\ wire' \subseteq wire
             /\ \A r \in Requests : pc'[r] = "reserving" => pc[r] = "reserving"
             /\ month' \in Nat /\ month <= month'
             /\ UNCHANGED <<res, cost, counter, granted, adjusted, missing>>
      PROVE  Books'
  <2>1. \A k \in Keys : InUse(k)' \/ Reserving(k)' => InUse(k) \/ Reserving(k)
    <3>1. \A k \in Keys : k[2] \in Nat
      BY DEF Keys, Months
    <3> QED
      BY <1>0, <1>6, <3>1 DEF InUse, Reserving
  <2>2. \A k \in Keys : Conservative(k)' => Conservative(k)
    BY <1>6 DEF Conservative, OnKey
  <2> QED
    BY <1>0, <1>6, <2>1, <2>2, BooksStay
<1>7. ASSUME NEW r \in Requests,
             \/ SkipBudget(r) \/ ReserveDenied(r) \/ ForwardUnreserved(r)
             \/ BudgetUnavailable(r) \/ Reconciled(r) \/ ReconcileErrs(r) \/ Enqueue(r)
      PROVE  Books'
  <2>1. /\ UNCHANGED <<month, wire, res, cost, counter, granted, adjusted, missing>>
        /\ \A q \in Requests : pc'[q] = "reserving" => pc[q] = "reserving"
    BY <1>0, <1>7 DEF SkipBudget, ReserveDenied, ForwardUnreserved, BudgetUnavailable,
       Reconciled, ReconcileErrs, Enqueue, redisVars
  <2> QED
    BY <1>0, <1>6, <2>1
<1>8. ASSUME NEW r \in Requests, Retry(r)
      PROVE  Books'
  <2> DEFINE d == IF pc[r] = "reserving"
                  THEN ReserveCmd(r, res[r].key, res[r].est, attempt[r] + 1)
                  ELSE ReconcileCmd(r, cost[r], attempt[r] + 1)
  <2>1. /\ wire' = wire \cup {d}
        /\ UNCHANGED <<month, pc, res, cost, counter, granted, adjusted, missing>>
    BY <1>8 DEF Retry, redisVars
  <2>2. d.op = "reserve" => pc[r] = "reserving" /\ d.key = res[r].key
    BY DEF ReserveCmd, ReconcileCmd
  <2> HIDE DEF d
  <2>3. \A k \in Keys : InUse(k)' \/ Reserving(k)' => InUse(k) \/ Reserving(k)
    BY <2>1, <2>2 DEF InUse, Reserving
  <2>4. \A k \in Keys : Conservative(k)' => Conservative(k)
    BY <2>1 DEF Conservative, OnKey
  <2> QED
    BY <1>0, <2>1, <2>3, <2>4, BooksStay
<1>9. CASE \/ \E c \in wire : Drop(c)
           \/ \E p \in Replicas : Crash(p)
           \/ NextMonth \/ Finished \/ UNCHANGED vars
  <2>1. /\ wire' \subseteq wire
        /\ \A q \in Requests : pc'[q] = "reserving" => pc[q] = "reserving"
        /\ month' = month \/ month' = month + 1
        /\ UNCHANGED <<res, cost, counter, granted, adjusted, missing>>
    BY <1>0, <1>9 DEF Drop, Crash, NextMonth, Finished, vars, redisVars
  <2> QED
    BY <1>0, <1>6, <2>1
<1>10. CASE Wipe
  BY <1>0, <1>10, LossBooked
<1> QED
  BY <1>1, <1>2, <1>3, <1>4, <1>5, <1>7, <1>8, <1>9, <1>10 DEF Next, HandlerStep

(***************************************************************************)
(* The invariant holds, whatever is lost, repeated or forgotten.           *)
(***************************************************************************)
LEMMA AccountsKept == Spec => []AccountInv
<1> USE GateAssumption
<1>1. Init => AccountInv
  <2> SUFFICES ASSUME Init
               PROVE  AccountInv
    OBVIOUS
  <2>1. GateInv
    BY InitKeeps
  <2>2. Answers
    BY DEF Init, Answers, NoIncrBy
  <2>3. \A k : GrantedOn(k) = {}
    <3>1. ASSUME NEW r \in Requests
          PROVE  ~(granted[r] > 0)
      <4>1. granted[r] = 0
        BY DEF Init
      <4> QED
        BY <4>1
    <3> QED
      BY <3>1 DEF GrantedOn
  <2>4. \A k : IsFiniteSet(GrantedOn(k)) /\ Balance(k) = 0
    BY <2>3, SumEmpty, FS_EmptySet DEF Balance
  <2>5. \A k \in Keys : counter[k] = 0 /\ missing[k] = 0 /\ Limit[k[1]] \in Nat
    BY DEF Init, Keys
  <2>6. Books
    BY <2>4, <2>5 DEF Books, Covered, Exact, Bounded
  <2> QED
    BY <2>1, <2>2, <2>6 DEF AccountInv
<1>2. AccountInv /\ [Next]_vars => AccountInv'
  BY NextKeeps, AnswersNext, BooksNext DEF AccountInv
<1> QED
  BY <1>1, <1>2, PTL DEF Spec

(***************************************************************************)
(* What the requests that use their reservation owe is part of what the    *)
(* granted ones are worth.                                                 *)
(***************************************************************************)
LEMMA ChargedWithinBalance ==
    ASSUME AccountInv, NEW k \in Keys, Conservative(k)
    PROVE  Charged(k) <= Balance(k)
<1>1. IsFiniteSet(GrantedOn(k)) /\ OnKey(k) \subseteq GrantedOn(k)
  BY DEF AccountInv, GateInv, Placed, Books, OnKey, GrantedOn
<1>2. \A r \in Requests : Worth[r] \in Nat
  BY WorthTyped DEF AccountInv, GateInv
<1>3. ASSUME NEW r \in OnKey(k)
      PROVE  Owes[r] \in Int /\ Owes[r] <= Worth[r]
  <2>1. /\ r \in Requests /\ cost[r] <= res[r].est
        /\ cost[r] \in Nat /\ res[r].est \in Nat
        /\ status[r] = "none" => adjusted[r] = 0
    BY DEF AccountInv, GateInv, TypeOK, Reservation, OnKey, Conservative, Answers, NoIncrBy
  <2> QED
    BY <2>1 DEF Owes, Worth
<1>4. ASSUME NEW r \in GrantedOn(k)
      PROVE  Worth[r] \in Int /\ Worth[r] >= 0
  <2>1. r \in Requests
    BY DEF GrantedOn
  <2>2. Worth[r] \in Nat
    BY <1>2, <2>1
  <2> QED
    BY <2>2
<1> QED
  BY <1>1, <1>3, <1>4, SumMonotone DEF Charged, Balance

(***************************************************************************)
(* The sums are integers.                                                  *)
(***************************************************************************)
LEMMA SumsTyped ==
    ASSUME AccountInv, NEW k \in Keys
    PROVE  /\ Charged(k) \in Int /\ Balance(k) \in Int
           /\ counter[k] \in Int /\ missing[k] \in Nat /\ Limit[k[1]] \in Nat
<1>1. /\ IsFiniteSet(GrantedOn(k)) /\ OnKey(k) \subseteq GrantedOn(k)
      /\ TypeOK
  BY DEF AccountInv, GateInv, Placed, Books, OnKey, GrantedOn
<1>2. IsFiniteSet(OnKey(k))
  BY <1>1, FS_Subset
<1>3. \A r \in OnKey(k) : Owes[r] \in Int
  BY <1>1 DEF TypeOK, Reservation, OnKey, Owes
<1>4. Charged(k) \in Int /\ Balance(k) \in Int
  BY <1>1, <1>2, <1>3, SumType, BalanceTyped DEF Charged
<1> QED
  BY <1>1, <1>4, GateAssumption DEF TypeOK, Keys

(***************************************************************************)
(* A counter in use is below what its requests owe by no more than Redis   *)
(* lost with its data and repeated refunds gave back, for any number of    *)
(* requests, retries and faults (Reserve, reconcile).                      *)
(***************************************************************************)
THEOREM NeverUndercounts == Spec => []NoUndercount
<1>1. AccountInv => NoUndercount
  <2> SUFFICES ASSUME AccountInv, NEW k \in Keys, InUse(k), Conservative(k)
               PROVE  Charged(k) <= counter[k] + missing[k]
    BY DEF NoUndercount
  <2>1. Charged(k) <= Balance(k) /\ Balance(k) <= counter[k] + missing[k]
    BY ChargedWithinBalance DEF AccountInv, Books, Covered
  <2> QED
    BY <2>1, SumsTyped
<1> QED
  BY <1>1, AccountsKept, PTL

(***************************************************************************)
(* How far concurrent requests across replicas can blow past the cap: the  *)
(* charges of a month, every response having kept to its estimate, pass it *)
(* by no more than Redis lost with its data and repeated refunds gave back *)
(* (Reserve, reconcile).                                                   *)
(***************************************************************************)
THEOREM ChargesWithinCap == Spec => []SpendWithinCap
<1>1. AccountInv => SpendWithinCap
  <2> SUFFICES ASSUME AccountInv, NEW k \in Keys, Conservative(k)
               PROVE  Charged(k) <= Limit[k[1]] + missing[k]
    BY DEF SpendWithinCap
  <2>1. Charged(k) <= Balance(k) /\ Balance(k) <= Limit[k[1]] + missing[k]
    BY ChargedWithinBalance DEF AccountInv, Books, Bounded
  <2> QED
    BY <2>1, SumsTyped
<1> QED
  BY <1>1, AccountsKept, PTL

(***************************************************************************)
(* When every granted reservation was used and moved to its cost, and no   *)
(* command of theirs was executed twice and nothing was lost, the counter  *)
(* is exactly the metered cost: no interleaving, crash, lost answer or     *)
(* month end moves an amount to another counter or loses it (the           *)
(* multi-replica test).                                                    *)
(***************************************************************************)
THEOREM SettledExactly == Spec => []ExactWhenSettled
<1>1. AccountInv => ExactWhenSettled
  <2> SUFFICES ASSUME AccountInv, NEW k \in Keys, InUse(k), AllMoved(k),
                      ExecutedOnce(k), missing[k] = 0
               PROVE  counter[k] = Charged(k)
    BY DEF ExactWhenSettled
  <2>1. IsFiniteSet(GrantedOn(k)) /\ counter[k] = Balance(k) /\ TypeOK
    BY DEF AccountInv, GateInv, Books, Exact, OnceOn, GrantedOn, ExecutedOnce
  <2>2. OnKey(k) = GrantedOn(k)
    BY DEF AccountInv, GateInv, Placed, OnKey, GrantedOn, AllMoved, Moved
  <2>3. ASSUME NEW r \in GrantedOn(k)
        PROVE  Worth[r] \in Int /\ Owes[r] = Worth[r]
    <3>1. r \in Requests /\ Moved(r)
      BY DEF GrantedOn, AllMoved
    <3>2. Worth[r] \in Nat
      BY <2>1, <3>1, WorthTyped
    <3> QED
      BY <3>1, <3>2 DEF Moved, Owes, Worth
  <2>4. SumFunctionOnSet(Owes, GrantedOn(k)) = SumFunctionOnSet(Worth, GrantedOn(k))
    BY <2>1, <2>3, SumSame
  <2> QED
    BY <2>1, <2>2, <2>4 DEF Charged, Balance
<1> QED
  BY <1>1, AccountsKept, PTL
=============================================================================
