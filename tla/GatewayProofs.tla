---------------------------- MODULE GatewayProofs ----------------------------
(***************************************************************************)
(* Theorems of Gateway, for every price list, every body and every reply,  *)
(* and any number of tenants and requests: what a reservation is worth,    *)
(* and what the counters and the table say of each other.                  *)
(***************************************************************************)
EXTENDS Gateway, Inductions

-----------------------------------------------------------------------------
(* Prices. *)

(***************************************************************************)
(* More tokens do not cost less.                                           *)
(***************************************************************************)
LEMMA ProductGrows ==
    ASSUME NEW p \in Nat, NEW a \in Nat, NEW b \in Nat, a <= b
    PROVE  a * p \in Nat /\ b * p \in Nat /\ a * p <= b * p
<1>1. PICK d \in Nat : b = a + d
  <2>1. b - a \in Nat /\ b = a + (b - a)
    OBVIOUS
  <2> QED
    BY <2>1
<1>2. d * p \in Nat /\ a * p \in Nat /\ b * p \in Nat
  OBVIOUS
<1>3. b * p = a * p + d * p
  BY <1>1
<1> QED
  BY <1>2, <1>3

(***************************************************************************)
(* Cost only grows with the tokens.                                        *)
(***************************************************************************)
LEMMA CostGrows ==
    ASSUME NEW model, NEW in1 \in Nat, NEW out1 \in Nat, NEW in2 \in Nat, NEW out2 \in Nat,
           in1 <= in2, out1 <= out2
    PROVE  /\ Cost(model, in1, out1) \in Nat
           /\ Cost(model, in2, out2) \in Nat
           /\ Cost(model, in1, out1) <= Cost(model, in2, out2)
<1>1. CASE model \notin Priced
  BY <1>1 DEF Cost
<1>2. CASE model \in Priced
  <2>1. InPrice[model] \in Nat /\ OutPrice[model] \in Nat
    BY <1>2, PricesAssumption
  <2>2. /\ in1 * InPrice[model] \in Nat /\ in2 * InPrice[model] \in Nat
        /\ in1 * InPrice[model] <= in2 * InPrice[model]
    BY <2>1, ProductGrows
  <2>3. /\ out1 * OutPrice[model] \in Nat /\ out2 * OutPrice[model] \in Nat
        /\ out1 * OutPrice[model] <= out2 * OutPrice[model]
    BY <2>1, ProductGrows
  <2>4. \A i, o : Cost(model, i, o) = i * InPrice[model] + o * OutPrice[model]
    BY <1>2 DEF Cost
  <2> HIDE <1>2
  <2> QED
    BY <2>2, <2>3, <2>4
<1> QED
  BY <1>1, <1>2

(***************************************************************************)
(* Rounding keeps the order.                                               *)
(***************************************************************************)
LEMMA RoundGrows ==
    ASSUME NEW x \in Nat, NEW y \in Nat, x <= y
    PROVE  Round(x) \in Nat /\ Round(y) \in Nat /\ Round(x) <= Round(y)
<1> DEFINE s == 2 * Scale
           a == 2 * x + Scale
           b == 2 * y + Scale
<1>1. s \in Nat \ {0} /\ a \in Nat /\ b \in Nat /\ a <= b
  BY PricesAssumption
<1>2. Round(x) = a \div s /\ Round(y) = b \div s
  BY DEF Round
<1> HIDE DEF s, a, b
<1>3. /\ a \div s \in Nat /\ b \div s \in Nat
      /\ s * (a \div s) <= a /\ b < s * (b \div s) + s
  BY <1>1, SMTT(30)
<1> QED
  BY <1>1, <1>2, <1>3

(***************************************************************************)
(* An estimate the script takes covers whatever costs less before rounding *)
(* and fits an int64.                                                      *)
(***************************************************************************)
LEMMA EstimateBounds ==
    ASSUME NEW x \in Nat, NEW y \in Nat, x <= y, Round(x) <= MaxInt,
           NEW e \in ToMicro(y), Integer(e)
    PROVE  e \in Nat /\ Round(x) <= e
<1>1. Round(y) \in Nat /\ Round(x) <= Round(y)
  BY RoundGrows
<1>2. e \in {Round(y), MaxInt}
  BY DEF ToMicro, Integer
<1> QED
  BY <1>1, <1>2, PricesAssumption

(***************************************************************************)
(* What the provider reports fits an int64, and so does what an accepted   *)
(* reservation asks for.                                                   *)
(***************************************************************************)
LEMMA CostFits ==
    ASSUME NEW p \in Replies \cup {NoReply}
    PROVE  /\ p.in \in Nat /\ p.out \in Nat
           /\ Cost(p.model, p.in, p.out) \in Nat
           /\ Round(Cost(p.model, p.in, p.out)) \in 0..MaxInt
<1>1. /\ p.in \in Nat /\ p.out \in Nat
      /\ Round(Cost(p.model, p.in, p.out)) <= MaxInt
  <2>1. CASE p \in Replies
    BY <2>1, GatewayAssumption
  <2>2. CASE p = NoReply
    <3>1. p.in = 0 /\ p.out = 0
      BY <2>2 DEF NoReply
    <3>2. Cost(p.model, 0, 0) = 0
      BY PricesAssumption DEF Cost
    <3>3. Round(0) = 0
      BY PricesAssumption DEF Round
    <3> QED
      BY <3>1, <3>2, <3>3, PricesAssumption
  <2> QED
    BY <2>1, <2>2
<1>2. Cost(p.model, p.in, p.out) \in Nat
  BY <1>1, CostGrows
<1>3. Round(Cost(p.model, p.in, p.out)) \in Nat
  BY <1>2, RoundGrows
<1> QED
  BY <1>1, <1>2, <1>3, PricesAssumption

(***************************************************************************)
(* What a request is estimated at, before it is rounded.                   *)
(***************************************************************************)
LEMMA AskCosts ==
    ASSUME NEW a \in Asks
    PROVE  /\ a.maxTokens \in Int /\ a.maxCompletion \in Int
           /\ a.len \div 4 \in Nat /\ OutputCeiling(a) \in Nat
           /\ Cost(a.model, a.len \div 4, OutputCeiling(a)) \in Nat
<1>1. a.len \in Nat /\ a.maxTokens \in Int /\ a.maxCompletion \in Int
  BY GatewayAssumption
<1>2. a.len \div 4 \in Nat
  BY <1>1
<1>3. OutputCeiling(a) \in Nat
  BY <1>1, PricesAssumption DEF OutputCeiling, RequestMaxTokens
<1> QED
  BY <1>1, <1>2, <1>3, CostGrows

(***************************************************************************)
(* A reservation the script accepts is of an amount that fits.             *)
(***************************************************************************)
LEMMA EstimateFits ==
    ASSUME NEW a \in Asks, NEW e \in EstimateMicro(a), Integer(e)
    PROVE  e \in 0..MaxInt
<1> DEFINE y == Cost(a.model, a.len \div 4, OutputCeiling(a))
<1>1. y \in Nat
  BY AskCosts
<1>2. e \in ToMicro(y)
  BY DEF EstimateMicro
<1> HIDE DEF y
<1>3. Round(y) \in Nat
  BY <1>1, RoundGrows
<1> QED
  BY <1>2, <1>3, PricesAssumption DEF ToMicro, Integer

-----------------------------------------------------------------------------
(* Reservations. *)

\* Where a reservation comes from, and what the handler keeps beside it.
Backed ==
    \A r \in active :
        /\ ask[r] \in Asks
        /\ est[r] \in EstimateMicro(ask[r])
        /\ Integer(est[r])
        /\ pc[r] # "idle"

(***************************************************************************)
(* A cost is a natural that fits.                                          *)
(***************************************************************************)
LEMMA CostTyped ==
    ASSUME TypeOK, NEW r \in Requests
    PROVE  CostMicro[r] \in 0..MaxInt
BY CostFits DEF TypeOK, CostMicro

(***************************************************************************)
(* The counter a request reserves on is one of the counters.               *)
(***************************************************************************)
LEMMA MonthKeyTyped ==
    ASSUME TypeOK, NEW r \in Requests
    PROVE  MonthKey(r) \in Keys /\ MonthKey(r)[1] = TenantOf[r]
BY GatewayAssumption DEF TypeOK, MonthKey, Keys

(***************************************************************************)
(* A counter is an integer, also between two bounds.                       *)
(***************************************************************************)
LEMMA CounterTyped ==
    ASSUME TypeOK
    PROVE  /\ counter \in [Keys -> Int] /\ missing \in [Keys -> Nat]
           /\ MinInt \in Int /\ MinInt <= 0 /\ MaxInt \in Nat
           /\ Limit \in [Tenants -> Int]
           /\ \A k \in Keys : k[1] \in Tenants /\ k[2] \in Months /\ Limit[k[1]] \in 0..MaxInt
<1>1. MinInt \in Int /\ MinInt <= 0 /\ MaxInt \in Nat
  BY PricesAssumption DEF MinInt
<1>2. counter \in [Keys -> MinInt..MaxInt] /\ missing \in [Keys -> Nat]
  BY DEF TypeOK
<1>3. Limit \in [Tenants -> Int]
  BY GatewayAssumption
<1>4. \A k \in Keys : k[1] \in Tenants /\ k[2] \in Months /\ Limit[k[1]] \in 0..MaxInt
  BY GatewayAssumption DEF Keys
<1> QED
  BY <1>1, <1>2, <1>3, <1>4

(***************************************************************************)
(* An amount that leaves a counter in its range may be added to it.        *)
(***************************************************************************)
LEMMA AddTyped ==
    ASSUME TypeOK, NEW k \in Keys, NEW a \in Int, counter[k] + a \in MinInt..MaxInt,
           Ledger!Add(k, a)
    PROVE  /\ counter' \in [Keys -> MinInt..MaxInt]
           /\ counter'[k] = counter[k] + a
           /\ \A q \in Keys : q # k => counter'[q] = counter[q]
BY DEF TypeOK, Ledger!Add

(***************************************************************************)
(* What a hold on the ledger does.                                         *)
(***************************************************************************)
LEMMA HoldTyped ==
    ASSUME TypeOK, NEW r \in Requests, NEW e \in 0..MaxInt, Ledger!Hold(r, MonthKey(r), e)
    PROVE  /\ counter' \in [Keys -> MinInt..MaxInt]
           /\ counter'[MonthKey(r)] = counter[MonthKey(r)] + e
           /\ \A k \in Keys : k # MonthKey(r) => counter'[k] = counter[k]
           /\ counter[MonthKey(r)] + e <= Limit[TenantOf[r]]
           /\ held' = held \cup {[req |-> r, key |-> MonthKey(r), est |-> e]}
           /\ held' \subseteq HoldType
           /\ settled' = settled
<1>1. MonthKey(r) \in Keys /\ MonthKey(r)[1] = TenantOf[r]
  BY MonthKeyTyped
<1>2. /\ Ledger!Add(MonthKey(r), e)
      /\ counter[MonthKey(r)] + e <= Limit[TenantOf[r]]
      /\ held' = held \cup {[req |-> r, key |-> MonthKey(r), est |-> e]}
      /\ settled' = settled
  BY <1>1 DEF Ledger!Hold
<1>3. e \in Int /\ e >= 0 /\ counter[MonthKey(r)] \in MinInt..MaxInt
  BY <1>1 DEF TypeOK
<1>4. counter[MonthKey(r)] + e \in MinInt..MaxInt
  BY <1>1, <1>2, <1>3, CounterTyped
<1>5. held' \subseteq HoldType
  BY <1>1, <1>2 DEF TypeOK, HoldType
<1> QED
  BY <1>1, <1>2, <1>3, <1>4, <1>5, AddTyped

(***************************************************************************)
(* What a settlement of the ledger does.                                   *)
(***************************************************************************)
LEMMA SettleTyped ==
    ASSUME TypeOK, NEW h \in held, NEW c \in 0..MaxInt, Fits(h, c), Ledger!Settle(h, c)
    PROVE  /\ h.req \in Requests /\ h.key \in Keys /\ h.est \in 0..MaxInt
           /\ counter' \in [Keys -> MinInt..MaxInt]
           /\ counter'[h.key] = counter[h.key] + c - h.est
           /\ \A k \in Keys : k # h.key => counter'[k] = counter[k]
           /\ held' = held \ {h} /\ held' \subseteq HoldType
           /\ settled' = settled \cup {[hold |-> h, cost |-> c]}
           /\ settled' \subseteq [hold: HoldType, cost: 0..MaxInt]
<1>1. h.req \in Requests /\ h.key \in Keys /\ h.est \in 0..MaxInt /\ h \in HoldType
  BY DEF TypeOK, HoldType
<1>2. /\ Ledger!Add(h.key, c - h.est)
      /\ held' = held \ {h}
      /\ settled' = settled \cup {[hold |-> h, cost |-> c]}
  BY DEF Ledger!Settle
<1>3. c \in Int /\ h.est \in Int /\ counter[h.key] \in Int
  BY <1>1, CounterTyped
<1>4. counter[h.key] + (c - h.est) \in MinInt..MaxInt
  BY <1>3 DEF Fits
<1>5. held' \subseteq HoldType /\ settled' \subseteq [hold: HoldType, cost: 0..MaxInt]
  BY <1>1, <1>2 DEF TypeOK
<1>6. /\ counter' \in [Keys -> MinInt..MaxInt]
      /\ counter'[h.key] = counter[h.key] + (c - h.est)
      /\ \A k \in Keys : k # h.key => counter'[k] = counter[k]
  <2>1. c - h.est \in Int
    BY <1>3
  <2> QED
    BY <1>1, <1>2, <1>4, <2>1, AddTyped
<1> QED
  BY <1>1, <1>2, <1>3, <1>5, <1>6

(***************************************************************************)
(* A reservation executed again.                                           *)
(***************************************************************************)
LEMMA HoldAgainTyped ==
    ASSUME TypeOK, NEW r \in Requests, HoldAgain(r)
    PROVE  \E h \in Ledger!Known :
             /\ h.req = r /\ h.key \in Keys
             /\ counter' \in [Keys -> MinInt..MaxInt]
             /\ counter'[h.key] >= counter[h.key]
             /\ \A k \in Keys : k # h.key => counter'[k] = counter[k]
<1>1. PICK h \in Ledger!Known : h.req = r /\ Ledger!HoldAgain(h)
  BY DEF HoldAgain
<1>2. h.key \in Keys /\ h.est \in 0..MaxInt
  BY DEF TypeOK, HoldType, Ledger!Known
<1>3. Ledger!Add(h.key, h.est) /\ counter[h.key] + h.est <= Limit[h.key[1]]
  BY <1>1, <1>2 DEF Ledger!HoldAgain
<1>4. counter[h.key] \in MinInt..MaxInt /\ h.est \in Int /\ h.est >= 0
  BY <1>2 DEF TypeOK
<1>5. counter[h.key] + h.est \in MinInt..MaxInt
  BY <1>2, <1>3, <1>4, CounterTyped
<1>6. /\ counter' \in [Keys -> MinInt..MaxInt]
      /\ counter'[h.key] = counter[h.key] + h.est
      /\ \A k \in Keys : k # h.key => counter'[k] = counter[k]
  BY <1>2, <1>3, <1>4, <1>5, AddTyped
<1>7. counter'[h.key] >= counter[h.key]
  BY <1>4, <1>6
<1> QED
  BY <1>1, <1>2, <1>6, <1>7

(***************************************************************************)
(* A settlement executed again: what it gives back is missed.              *)
(***************************************************************************)
LEMMA SettleAgainTyped ==
    ASSUME TypeOK, NEW r \in Requests, SettleAgain(r)
    PROVE  \E s \in settled :
             /\ s.hold.req = r /\ s.hold.key \in Keys
             /\ counter' \in [Keys -> MinInt..MaxInt]
             /\ missing' \in [Keys -> Nat]
             /\ counter'[s.hold.key] + missing'[s.hold.key]
                    >= counter[s.hold.key] + missing[s.hold.key]
             /\ missing'[s.hold.key] >= missing[s.hold.key]
             /\ \A k \in Keys : k # s.hold.key =>
                    counter'[k] = counter[k] /\ missing'[k] = missing[k]
<1>1. PICK s \in settled :
        /\ s.hold.req = r
        /\ Fits(s.hold, s.cost)
        /\ Ledger!SettleAgain(s)
        /\ missing' = [missing EXCEPT ![s.hold.key] = @ + Surplus(s.hold.est - s.cost)]
  BY DEF SettleAgain
<1> DEFINE k == s.hold.key
           a == s.cost - s.hold.est
           b == Surplus(s.hold.est - s.cost)
<1>2. s.hold.key \in Keys /\ s.hold.est \in Int /\ s.cost \in Int
  BY DEF TypeOK, HoldType
<1>3. k \in Keys /\ a \in Int /\ b \in Nat /\ a + b >= 0
  BY <1>2 DEF Surplus
<1>4. counter[k] \in Int /\ missing \in [Keys -> Nat]
  BY <1>3, CounterTyped
<1>5. Ledger!Add(k, a)
  BY <1>1 DEF Ledger!SettleAgain
<1>6. counter[k] + a \in MinInt..MaxInt
  BY <1>1, <1>2, <1>4 DEF Fits
<1>7. missing' = [missing EXCEPT ![k] = @ + b]
  BY <1>1
<1>8. s.hold.req = r /\ k = s.hold.key
  BY <1>1
<1> HIDE DEF k, a, b
<1>9. /\ counter' \in [Keys -> MinInt..MaxInt]
      /\ counter'[k] = counter[k] + a
      /\ \A q \in Keys : q # k => counter'[q] = counter[q]
  BY <1>3, <1>5, <1>6, AddTyped
<1>10. /\ missing' \in [Keys -> Nat] /\ missing'[k] = missing[k] + b
       /\ \A q \in Keys : q # k => missing'[q] = missing[q]
  BY <1>3, <1>4, <1>7
<1>11. counter'[k] + missing'[k] >= counter[k] + missing[k] /\ missing'[k] >= missing[k]
  <2>1. missing[k] \in Nat
    BY <1>3, <1>4
  <2> QED
    BY <1>3, <1>4, <1>9, <1>10, <2>1
<1> QED
  BY <1>3, <1>8, <1>9, <1>10, <1>11

(***************************************************************************)
(* Every step keeps the types.                                             *)
(***************************************************************************)
LEMMA TypedNext ==
    ASSUME TypeOK, [Next]_vars
    PROVE  TypeOK'
<1> USE DEF TypeOK, ledgerVars, redisVars, queueVars, handlerVars
<1>2. ASSUME NEW r \in Requests, NEW a \in Asks, CheckBudget(r, a)
      PROVE  TypeOK'
  <2>1. ASSUME NEW stop \in {"forwarding", "done"}, Arrive(r, a, stop)
        PROVE  /\ pc' \in [Requests -> {"idle", "forwarding", "settling", "metering", "done", "dead"}]
               /\ ask' \in [Requests -> Asks \cup {NoAsk}]
               /\ born' \in [Requests -> Months]
               /\ UNCHANGED <<month, queueVars, reply, created, faults, missing>>
    BY <2>1 DEF Arrive
  <2>2. CASE SkipBudget(r, a)
    BY <2>1, <2>2 DEF SkipBudget
  <2>3. ASSUME NEW e \in EstimateMicro(a), Reserve(r, a, e)
        PROVE  TypeOK'
    <3>1. e \in 0..MaxInt
      BY <2>3, EstimateFits DEF Reserve
    <3>2. /\ Arrive(r, a, "forwarding") /\ Ledger!Hold(r, MonthKey(r), e)
          /\ est' = [est EXCEPT ![r] = e]
          /\ active' = active \cup {r}
          /\ UNCHANGED mishaps
      BY <2>3 DEF Reserve
    <3>3. est' \in [Requests -> 0..MaxInt]
      BY <3>1, <3>2
    <3>4. counter' \in [Keys -> MinInt..MaxInt] /\ held' \subseteq HoldType /\ settled' = settled
      BY <3>1, <3>2, HoldTyped
    <3> QED
      BY <2>1, <3>2, <3>3, <3>4
  <2>4. ASSUME NEW e \in EstimateMicro(a), NEW stop \in {"forwarding", "done"},
               Arrive(r, a, stop),
               \/ UNCHANGED ledgerVars
               \/ Integer(e) /\ Ledger!Hold(r, MonthKey(r), e),
               mishaps' \in {mishaps, mishaps \cup {r}}, UNCHANGED <<est, active>>
        PROVE  TypeOK'
    <3>1. /\ counter' \in [Keys -> MinInt..MaxInt] /\ held' \subseteq HoldType
          /\ settled' = settled
      <4>1. CASE UNCHANGED ledgerVars
        BY <4>1
      <4>2. CASE Integer(e) /\ Ledger!Hold(r, MonthKey(r), e)
        <5>1. e \in 0..MaxInt
          BY <4>2, EstimateFits
        <5> QED
          BY <4>2, <5>1, HoldTyped
      <4> QED
        BY <2>4, <4>1, <4>2
    <3> QED
      BY <2>1, <2>4, <3>1
  <2>5. ASSUME NEW e \in EstimateMicro(a), Deny(r, a, e)
        PROVE  TypeOK'
    BY <2>4, <2>5 DEF Deny
  <2>6. ASSUME NEW e \in EstimateMicro(a), BudgetUnavailable(r, a, e)
        PROVE  TypeOK'
    BY <2>4, <2>6 DEF BudgetUnavailable
  <2> QED
    BY <1>2, <2>2, <2>3, <2>5, <2>6 DEF CheckBudget
<1>3. ASSUME NEW r \in Requests, Answer(r)
      PROVE  TypeOK'
  BY <1>3 DEF Answer, Respond
<1>4. ASSUME NEW r \in Requests, Settle(r)
      PROVE  TypeOK'
  <2>1. CASE r \notin active
    BY <1>4, <2>1 DEF Settle
  <2>2. CASE r \in active
    <3>1. PICK h \in held : Fits(h, CostMicro[r]) /\ Ledger!Settle(h, CostMicro[r])
      BY <1>4, <2>2 DEF Settle, SettledAt
    <3>2. CostMicro[r] \in 0..MaxInt
      BY CostTyped
    <3>3. /\ counter' \in [Keys -> MinInt..MaxInt] /\ held' \subseteq HoldType
          /\ settled' \subseteq [hold: HoldType, cost: 0..MaxInt]
      BY <3>1, <3>2, SettleTyped
    <3>4. /\ pc' = [pc EXCEPT ![r] = "metering"]
          /\ UNCHANGED <<month, queueVars, handlerVars, reply, created, mishaps, faults, missing>>
      BY <1>4 DEF Settle
    <3> QED
      BY <3>3, <3>4
  <2> QED
    BY <2>1, <2>2
<1>5. ASSUME NEW r \in Requests, SettleLost(r)
      PROVE  TypeOK'
  BY <1>5 DEF SettleLost
<1>6. ASSUME NEW r \in Requests, Enqueue(r)
      PROVE  TypeOK'
  <2>1. queue' \in Seq(Requests) /\ rows' = rows /\ refused' \subseteq Requests
    <3>1. CASE Queue!Put(r)
      <4>1. queue' = Append(queue, r) /\ UNCHANGED <<rows, refused>>
        BY <3>1 DEF Queue!Put
      <4>2. Append(queue, r) \in Seq(Requests)
        OBVIOUS
      <4> QED
        BY <4>1, <4>2
    <3>2. CASE Queue!Refuse(r)
      <4>1. refused' = refused \cup {r} /\ UNCHANGED <<queue, rows>>
        BY <3>2 DEF Queue!Refuse
      <4> QED
        BY <4>1
    <3> QED
      BY <1>6, <3>1, <3>2 DEF Enqueue
  <2>2. /\ pc' = [pc EXCEPT ![r] = "done"]
        /\ created' = [created EXCEPT ![r] = month]
        /\ UNCHANGED <<month, redisVars, handlerVars, reply, mishaps>>
    BY <1>6 DEF Enqueue
  <2> QED
    BY <2>1, <2>2
<1>7. ASSUME NEW n \in 1..BatchSize, Write(n)
      PROVE  TypeOK'
  <2>1. n \in Nat \ {0} /\ n <= Len(queue)
    BY <1>7, GatewayAssumption DEF Write, Queue!Leave
  <2>2. SubSeq(queue, 1, n) \in Seq(Requests) /\ SubSeq(queue, n + 1, Len(queue)) \in Seq(Requests)
    BY <2>1
  <2>3. rows \o SubSeq(queue, 1, n) \in Seq(Requests)
    BY <2>2
  <2> QED
    BY <1>7, <2>2, <2>3 DEF Write, Queue!Leave
<1>8. CASE Kill
  BY <1>8 DEF Kill, InFlight
<1>9. CASE NextMonth
  BY <1>9, GatewayAssumption DEF NextMonth, Months
<1>10. CASE Finished \/ UNCHANGED vars
  BY <1>10 DEF Finished, vars
<1>11. ASSUME faults < MaxFaults, faults' = faults + 1
       PROVE  faults' \in 0..MaxFaults
  BY <1>11, GatewayAssumption
<1>12. ASSUME NEW r \in Requests, HoldAgain(r)
       PROVE  TypeOK'
  <2>1. counter' \in [Keys -> MinInt..MaxInt]
    BY <1>12, HoldAgainTyped
  <2>2. /\ held' = held /\ settled' = settled /\ missing' = missing
        /\ UNCHANGED <<month, queueVars, pc, handlerVars, reply, created>>
        /\ mishaps' = mishaps \cup {r} /\ faults < MaxFaults /\ faults' = faults + 1
    BY <1>12 DEF HoldAgain, Repeat, Ledger!HoldAgain
  <2> QED
    BY <1>11, <2>1, <2>2
<1>13. ASSUME NEW r \in Requests, SettleAgain(r)
       PROVE  TypeOK'
  <2>1. counter' \in [Keys -> MinInt..MaxInt] /\ missing' \in [Keys -> Nat]
    BY <1>13, SettleAgainTyped
  <2>2. /\ held' = held /\ settled' = settled
        /\ UNCHANGED <<month, queueVars, pc, handlerVars, reply, created>>
        /\ mishaps' = mishaps \cup {r} /\ faults < MaxFaults /\ faults' = faults + 1
    BY <1>13 DEF SettleAgain, Repeat, Ledger!SettleAgain
  <2> QED
    BY <1>11, <2>1, <2>2
<1>14. ASSUME NEW S, Ledger!Forget(S)
       PROVE  counter' \in [Keys -> MinInt..MaxInt] /\ held' = held /\ settled' = settled
  BY <1>14, CounterTyped DEF Ledger!Forget
<1>15. ASSUME NEW k \in Keys, Expire(k)
       PROVE  TypeOK'
  BY <1>14, <1>15 DEF Expire
<1>16. CASE Wipe
  <2>1. /\ UNCHANGED <<month, queueVars, pc, handlerVars, reply, created, mishaps>>
        /\ faults < MaxFaults /\ faults' = faults + 1
        /\ Ledger!Forget(Keys)
        /\ missing' = [k \in Keys |-> missing[k] + Surplus(counter[k])]
    BY <1>16 DEF Wipe
  <2>2. \A k \in Keys : missing[k] + Surplus(counter[k]) \in Nat
    <3> SUFFICES ASSUME NEW k \in Keys
                 PROVE  missing[k] + Surplus(counter[k]) \in Nat
      OBVIOUS
    <3>1. missing[k] \in Nat /\ counter[k] \in Int
      BY CounterTyped
    <3> QED
      BY <3>1 DEF Surplus
  <2>3. missing' \in [Keys -> Nat]
    BY <2>1, <2>2
  <2> QED
    BY <1>11, <1>14, <2>1, <2>3
<1> QED
  BY <1>2, <1>3, <1>4, <1>5, <1>6, <1>7, <1>8, <1>9, <1>10, <1>12, <1>13, <1>15, <1>16
     DEF Next, HandlerStep

(***************************************************************************)
(* Only checkBudget makes a reservation, and nothing changes it.           *)
(***************************************************************************)
LEMMA BackedNext ==
    ASSUME TypeOK, Backed, [Next]_vars
    PROVE  Backed'
<1> USE DEF TypeOK, Backed, handlerVars
<1>1. ASSUME NEW r \in Requests, NEW a \in Asks, SkipBudget(r, a)
      PROVE  Backed'
  BY <1>1 DEF SkipBudget, Arrive
<1>2. ASSUME NEW r \in Requests, NEW a \in Asks, NEW e \in EstimateMicro(a), Reserve(r, a, e)
      PROVE  Backed'
  <2>1. /\ pc' = [pc EXCEPT ![r] = "forwarding"]
        /\ ask' = [ask EXCEPT ![r] = a]
        /\ est' = [est EXCEPT ![r] = e]
        /\ active' = active \cup {r}
        /\ reply' = reply
        /\ Integer(e)
    BY <1>2 DEF Reserve, Arrive
  <2>3. ask'[r] = a /\ est'[r] = e /\ pc'[r] = "forwarding"
    BY <2>1
  <2>4. ASSUME NEW q \in active, q # r
        PROVE  ask'[q] = ask[q] /\ est'[q] = est[q] /\ pc'[q] = pc[q]
    BY <2>1, <2>4
  <2> QED
    BY <1>2, <2>1, <2>3, <2>4
<1>3. ASSUME NEW r \in Requests, NEW a \in Asks, NEW e \in EstimateMicro(a),
             Deny(r, a, e) \/ BudgetUnavailable(r, a, e)
      PROVE  Backed'
  BY <1>3 DEF Deny, BudgetUnavailable, Arrive
<1>4. ASSUME NEW r \in Requests, Answer(r)
      PROVE  Backed'
  BY <1>4 DEF Answer, Respond
<1>5. ASSUME NEW r \in Requests, HandlerStep(r)
      PROVE  Backed'
  BY <1>5 DEF HandlerStep, Settle, SettleLost, Enqueue
<1>6. ASSUME NEW n \in 1..BatchSize, Write(n)
      PROVE  Backed'
  BY <1>6 DEF Write
<1>7. CASE Kill
  BY <1>7 DEF Kill, InFlight
<1>8. CASE NextMonth \/ Finished \/ UNCHANGED vars
  BY <1>8 DEF NextMonth, Finished, vars
<1>9. ASSUME NEW r \in Requests, HoldAgain(r) \/ SettleAgain(r)
      PROVE  Backed'
  BY <1>9 DEF HoldAgain, SettleAgain, Repeat
<1>10. ASSUME NEW k \in Keys, Expire(k)
       PROVE  Backed'
  BY <1>10 DEF Expire
<1>11. CASE Wipe
  BY <1>11 DEF Wipe
<1> QED
  BY <1>1, <1>2, <1>3, <1>4, <1>5, <1>6, <1>7, <1>8, <1>9, <1>10, <1>11
     DEF Next, CheckBudget

(***************************************************************************)
(* A reservation covers what was asked for (estimateMicro, toMicro).       *)
(***************************************************************************)
LEMMA BackedCovers ==
    ASSUME TypeOK, Backed
    PROVE  EstimateCovers
<1> SUFFICES ASSUME NEW r \in active, ~Unexpected(r)
             PROVE  CostMicro[r] <= est[r]
  BY DEF EstimateCovers
<1> DEFINE a == ask[r]
           p == reply[r]
           in == a.len \div 4
<1>1. /\ r \in Requests /\ a \in Asks /\ p \in Replies \cup {NoReply}
      /\ est[r] \in EstimateMicro(a) /\ Integer(est[r])
  BY DEF TypeOK, Backed
<1>2. /\ a.maxTokens \in Int /\ a.maxCompletion \in Int
      /\ in \in Nat /\ OutputCeiling(a) \in Nat
      /\ Cost(a.model, in, OutputCeiling(a)) \in Nat
  BY <1>1, AskCosts
<1>3. est[r] \in ToMicro(Cost(a.model, in, OutputCeiling(a)))
  BY <1>1 DEF EstimateMicro
<1>4. /\ p.in \in Nat /\ p.out \in Nat
      /\ Cost(p.model, p.in, p.out) \in Nat
      /\ Round(Cost(p.model, p.in, p.out)) <= MaxInt
  BY <1>1, CostFits
<1>5. Cost(p.model, p.in, p.out) <= Cost(a.model, in, OutputCeiling(a))
  <2>1. CASE p = NoReply
    <3>1. Cost(p.model, p.in, p.out) = 0
      BY <2>1, PricesAssumption DEF NoReply, Cost
    <3> QED
      BY <1>2, <3>1
  <2>2. CASE p # NoReply
    <3>1. /\ p.model = a.model
          /\ p.in <= in
          /\ \A v \in {w \in {a.maxTokens, a.maxCompletion} : w > 0} : p.out <= v
          /\ {w \in {a.maxTokens, a.maxCompletion} : w > 0} = {} => p.out <= DefaultOutput
      BY <2>2 DEF Unexpected, Within
    <3>2. p.out <= OutputCeiling(a)
      BY <1>2, <3>1 DEF OutputCeiling, RequestMaxTokens
    <3> QED
      BY <1>2, <1>4, <3>1, <3>2, CostGrows
  <2> QED
    BY <2>1, <2>2
<1>6. Round(Cost(p.model, p.in, p.out)) <= est[r]
  BY <1>2, <1>3, <1>1, <1>4, <1>5, EstimateBounds
<1> QED
  BY <1>1, <1>6 DEF CostMicro

-----------------------------------------------------------------------------
(* The two books. *)

KeyOf(r) == <<TenantOf[r], born[r]>>

\* The requests with a hold that was moved to its cost.
Moved == {s.hold.req : s \in settled}

\* The request once held an estimate on k: what it holds there, or cost.
Touched(k) == {r \in Requests : (r \in Moved \/ Holds(r)) /\ KeyOf(r) = k}
HoldOf(holds, r) == CHOOSE h \in holds : h.req = r
Worth == [r \in Requests |-> IF r \in Moved THEN CostMicro[r] ELSE HoldOf(held, r).est]
Balance(k) == SumFunctionOnSet(Worth, Touched(k))

\* Those the cap has to cover.
Expected(k) == {r \in Touched(k) \cap active : ~Unexpected(r)}
Committed(k) == SumFunctionOnSet(Worth, Expected(k))

\* A settlement was made on the counter of the month the request arrived in.
Placed == \A s \in settled : s.hold.key = KeyOf(s.hold.req)

(***************************************************************************)
(* A request holds at most one estimate, on the counter of the month it    *)
(* arrived in, from its reservation until it is settled, unless a call to  *)
(* Redis failed.                                                           *)
(***************************************************************************)
Handled ==
    /\ \A g, h \in held : g.req = h.req => g = h
    /\ \A h \in held :
         /\ h.key = KeyOf(h.req) /\ h.req \notin Moved /\ pc[h.req] # "idle"
         /\ IF h.req \in active THEN h.est = est[h.req] ELSE h.req \in mishaps
    /\ Placed
    /\ \A r \in Moved : r \in active /\ pc[r] \in {"metering", "done", "dead"}
    /\ \A r \in active : r \in Moved \/ Holds(r)
    /\ \A r \in active : pc[r] \in {"metering", "done"} => r \in Moved \cup mishaps
    /\ \A r \in Requests : pc[r] \in {"idle", "forwarding"} => reply[r] = NoReply
    /\ \A i \in DOMAIN queue : pc[queue[i]] = "done"
    /\ \A r \in Recorded : pc[r] = "done"

(***************************************************************************)
(* A counter in use is not below what its requests hold or cost, by more   *)
(* than was lost of it, it is exactly that when no call failed or was      *)
(* repeated, and those that kept to what they asked for stay within the    *)
(* cap.  The first is what makes the last inductive: Redis compares with   *)
(* its counter.                                                            *)
(***************************************************************************)
Covered(k) == InUse(k) => Balance(k) <= counter[k] + missing[k]

Exact(k) ==
    InUse(k) /\ missing[k] = 0 /\ Touched(k) \cap mishaps = {} => counter[k] = Balance(k)

Bounded(k) == Committed(k) <= Limit[k[1]] + missing[k]

Books == \A k \in Keys : IsFiniteSet(Touched(k)) /\ Covered(k) /\ Exact(k) /\ Bounded(k)

(***************************************************************************)
(* A request that has not arrived is nowhere in the books.                 *)
(***************************************************************************)
LEMMA IdleUntouched ==
    ASSUME Backed, Handled, NEW r \in Requests, pc[r] = "idle"
    PROVE  /\ r \notin Moved /\ ~Holds(r) /\ r \notin active
           /\ \A i \in DOMAIN queue : queue[i] # r
           /\ r \notin Recorded
BY DEF Backed, Handled, Holds

(***************************************************************************)
(* A call of the writer leaves in the queue, and puts in the table, only   *)
(* what was in the queue.                                                  *)
(***************************************************************************)
LEMMA WriteMoves ==
    ASSUME TypeOK, NEW n \in 1..BatchSize, Write(n)
    PROVE  /\ \A i \in DOMAIN queue' : \E j \in DOMAIN queue : queue'[i] = queue[j]
           /\ \A r \in Recorded' : r \in Recorded \/ \E j \in DOMAIN queue : queue[j] = r
<1>1. /\ n \in Nat \ {0} /\ n <= Len(queue)
      /\ queue \in Seq(Requests) /\ rows \in Seq(Requests)
      /\ queue' = SubSeq(queue, n + 1, Len(queue))
      /\ rows' \in {rows, rows \o SubSeq(queue, 1, n)}
  BY GatewayAssumption DEF TypeOK, Write, Queue!Leave
<1>2. \A i \in DOMAIN queue' : \E j \in DOMAIN queue : queue'[i] = queue[j]
  <2> SUFFICES ASSUME NEW i \in DOMAIN queue'
               PROVE  queue'[i] = queue[n + i] /\ n + i \in DOMAIN queue
    OBVIOUS
  <2>1. Len(queue') = Len(queue) - n /\ i \in 1..(Len(queue) - n)
    BY <1>1
  <2> QED
    BY <1>1, <2>1
<1>3. ASSUME NEW i \in DOMAIN rows', rows' = rows \o SubSeq(queue, 1, n)
      PROVE  rows'[i] \in Recorded \/ \E j \in DOMAIN queue : queue[j] = rows'[i]
  <2> DEFINE lot == SubSeq(queue, 1, n)
  <2>1. Len(lot) = n /\ lot \in Seq(Requests) /\ \A j \in 1..n : lot[j] = queue[j]
    BY <1>1
  <2> HIDE DEF lot
  <2>2. i \in 1..(Len(rows) + n)
    BY <1>1, <1>3, <2>1 DEF lot
  <2>3. CASE i <= Len(rows)
    <3>1. rows'[i] = rows[i] /\ i \in DOMAIN rows
      BY <1>1, <1>3, <2>1, <2>2, <2>3 DEF lot
    <3> QED
      BY <3>1 DEF Recorded
  <2>4. CASE i > Len(rows)
    <3> DEFINE j == i - Len(rows)
    <3>1. j \in 1..n /\ j \in DOMAIN queue
      BY <1>1, <2>2, <2>4
    <3>2. rows'[i] = lot[j]
      <4>1. rows' = rows \o lot
        BY <1>3 DEF lot
      <4> QED
        BY <1>1, <2>1, <2>2, <2>4, <4>1
    <3> QED
      BY <2>1, <3>1, <3>2
  <2> QED
    BY <1>1, <2>2, <2>3, <2>4
<1>4. \A r \in Recorded' : r \in Recorded \/ \E j \in DOMAIN queue : queue[j] = r
  <2> SUFFICES ASSUME NEW i \in DOMAIN rows'
               PROVE  rows'[i] \in Recorded \/ \E j \in DOMAIN queue : queue[j] = rows'[i]
    BY DEF Recorded
  <2> QED
    BY <1>1, <1>3 DEF Recorded
<1> QED
  BY <1>2, <1>4

(***************************************************************************)
(* A handler that arrives with nothing, one that arrives with a hold, and  *)
(* one that settles, change what is held as Handled says.                  *)
(***************************************************************************)
LEMMA HandledNext ==
    ASSUME TypeOK, Backed, Handled, [Next]_vars
    PROVE  Handled'
<1> USE DEF ledgerVars, redisVars, queueVars, handlerVars
<1>0. /\ pc \in [Requests -> {"idle", "forwarding", "settling", "metering", "done", "dead"}]
      /\ born \in [Requests -> Months] /\ est \in [Requests -> 0..MaxInt]
      /\ reply \in [Requests -> Replies \cup {NoReply}]
      /\ active \subseteq Requests /\ Moved \subseteq Requests
      /\ \A h \in held : h.req \in Requests
      /\ \A i \in DOMAIN queue : queue[i] \in Requests
      /\ \A r \in Recorded : r \in Requests
  BY DEF TypeOK, HoldType, Recorded, Moved
<1>a. ASSUME settled' = settled, \A q \in Moved : KeyOf(q)' = KeyOf(q)
      PROVE  Moved' = Moved /\ Placed'
  BY <1>a DEF Handled, Placed, Moved
<1>1. ASSUME NEW r \in Requests, NEW a, NEW stop \in {"forwarding", "done"}, Arrive(r, a, stop)
      PROVE  /\ pc[r] = "idle" /\ pc'[r] = stop /\ born'[r] = month
             /\ KeyOf(r)' = MonthKey(r)
             /\ \A q \in Requests : q # r => pc'[q] = pc[q] /\ KeyOf(q)' = KeyOf(q)
             /\ queue' = queue /\ Recorded' = Recorded /\ reply' = reply
  BY <1>0, <1>1 DEF Arrive, KeyOf, MonthKey, Recorded
<1>2. ASSUME NEW r \in Requests, NEW a, NEW stop \in {"forwarding", "done"}, Arrive(r, a, stop),
             UNCHANGED <<ledgerVars, est, active>>, mishaps \subseteq mishaps'
      PROVE  Handled'
  <2>1. /\ pc[r] = "idle" /\ pc'[r] = stop
        /\ \A q \in Requests : q # r => pc'[q] = pc[q] /\ KeyOf(q)' = KeyOf(q)
        /\ queue' = queue /\ Recorded' = Recorded /\ reply' = reply
    BY <1>1, <1>2
  <2>2. /\ r \notin Moved /\ r \notin active
        /\ \A h \in held : h.req # r
        /\ \A i \in DOMAIN queue : queue[i] # r
        /\ r \notin Recorded
    BY <2>1, IdleUntouched DEF Holds
  <2>3. Moved' = Moved /\ Placed'
    BY <1>0, <1>2, <1>a, <2>1, <2>2
  <2> QED
    BY <1>0, <1>2, <2>1, <2>2, <2>3 DEF Handled, Holds
<1>3. ASSUME NEW r \in Requests, NEW a, NEW e, NEW stop \in {"forwarding", "done"},
             Arrive(r, a, stop), Ledger!Hold(r, MonthKey(r), e),
             mishaps \subseteq mishaps',
             \/ r \in mishaps' /\ active' = active
             \/ active' = active \cup {r} /\ est'[r] = e /\ stop = "forwarding",
             \A q \in Requests : q # r => est'[q] = est[q]
      PROVE  Handled'
  <2>1. /\ pc[r] = "idle" /\ pc'[r] = stop /\ KeyOf(r)' = MonthKey(r)
        /\ \A q \in Requests : q # r => pc'[q] = pc[q] /\ KeyOf(q)' = KeyOf(q)
        /\ queue' = queue /\ Recorded' = Recorded /\ reply' = reply
    BY <1>1, <1>3
  <2>2. /\ r \notin Moved /\ r \notin active
        /\ \A h \in held : h.req # r
        /\ \A i \in DOMAIN queue : queue[i] # r
        /\ r \notin Recorded
    BY <2>1, IdleUntouched DEF Holds
  <2> DEFINE g == [req |-> r, key |-> MonthKey(r), est |-> e]
  <2>3. /\ held' = held \cup {g} /\ settled' = settled
        /\ g.req = r /\ g.key = MonthKey(r) /\ g.est = e
    BY <1>3 DEF Ledger!Hold
  <2> HIDE DEF g
  <2>a. Moved' = Moved /\ Placed'
    BY <1>0, <1>a, <2>1, <2>2, <2>3
  <2>4. \A h \in held' : h \in held \/ h = g
    BY <2>3
  <2>5. \A f, h \in held' : f.req = h.req => f = h
    BY <2>2, <2>3, <2>4 DEF Handled
  <2>6. ASSUME NEW h \in held'
        PROVE  /\ h.key = KeyOf(h.req)' /\ h.req \notin Moved' /\ pc'[h.req] # "idle"
               /\ IF h.req \in active' THEN h.est = est'[h.req] ELSE h.req \in mishaps'
    <3>1. CASE h = g
      BY <1>3, <2>1, <2>2, <2>3, <2>a, <3>1
    <3>2. CASE h \in held
      <4>1. h.req # r /\ h.req \in Requests
        BY <1>0, <2>2, <3>2
      <4> QED
        BY <1>3, <2>1, <2>3, <2>a, <3>2, <4>1 DEF Handled
    <3> QED
      BY <2>4, <3>1, <3>2
  <2>7. \A q \in active' : q \in Moved' \/ Holds(q)'
    BY <1>3, <2>3, <2>a DEF Handled, Holds
  <2>8. \A q \in active' : pc'[q] \in {"metering", "done"} => q \in Moved' \cup mishaps'
    BY <1>0, <1>3, <2>1, <2>2, <2>3, <2>a DEF Handled
  <2>9. \A q \in Moved' : q \in active' /\ pc'[q] \in {"metering", "done", "dead"}
    BY <1>0, <1>3, <2>1, <2>2, <2>3, <2>a DEF Handled
  <2>10. /\ \A q \in Requests : pc'[q] \in {"idle", "forwarding"} => reply'[q] = NoReply
         /\ \A i \in DOMAIN queue' : pc'[queue'[i]] = "done"
         /\ \A q \in Recorded' : pc'[q] = "done"
    BY <1>0, <2>1, <2>2 DEF Handled
  <2> QED
    BY <2>a, <2>5, <2>6, <2>7, <2>8, <2>9, <2>10 DEF Handled
<1>4. ASSUME NEW r \in Requests, NEW a \in Asks, CheckBudget(r, a)
      PROVE  Handled'
  <2>1. CASE SkipBudget(r, a)
    BY <1>2, <2>1 DEF SkipBudget
  <2>2. ASSUME NEW e \in EstimateMicro(a), Reserve(r, a, e)
        PROVE  Handled'
    <3>1. /\ Arrive(r, a, "forwarding") /\ Ledger!Hold(r, MonthKey(r), e)
          /\ est'[r] = e /\ active' = active \cup {r} /\ mishaps' = mishaps
          /\ \A q \in Requests : q # r => est'[q] = est[q]
      BY <1>0, <2>2 DEF Reserve
    <3> QED
      BY <1>3, <3>1
  <2>3. ASSUME NEW e \in EstimateMicro(a), Deny(r, a, e)
        PROVE  Handled'
    <3>1. Arrive(r, a, "done") /\ UNCHANGED <<est, active>>
      BY <2>3 DEF Deny
    <3>2. CASE UNCHANGED <<ledgerVars, mishaps>>
      BY <1>2, <3>1, <3>2
    <3>3. CASE Ledger!Hold(r, MonthKey(r), e) /\ mishaps' = mishaps \cup {r}
      BY <1>3, <3>1, <3>3
    <3> QED
      BY <2>3, <3>2, <3>3 DEF Deny
  <2>4. ASSUME NEW e \in EstimateMicro(a), BudgetUnavailable(r, a, e)
        PROVE  Handled'
    <3>1. PICK stop \in {"forwarding", "done"} : Arrive(r, a, stop)
      BY <2>4 DEF BudgetUnavailable
    <3>2. mishaps' = mishaps \cup {r} /\ UNCHANGED <<est, active>>
      BY <2>4 DEF BudgetUnavailable
    <3>3. CASE UNCHANGED ledgerVars
      BY <1>2, <3>1, <3>2, <3>3
    <3>4. CASE Ledger!Hold(r, MonthKey(r), e)
      <4>1. mishaps \subseteq mishaps' /\ r \in mishaps'
        BY <3>2
      <4> QED
        BY <1>3, <3>1, <3>2, <3>4, <4>1
    <3> QED
      BY <2>4, <3>3, <3>4 DEF BudgetUnavailable
  <2> QED
    BY <1>4, <2>1, <2>2, <2>3, <2>4 DEF CheckBudget
<1>5. ASSUME NEW r \in Requests, UNCHANGED <<ledgerVars, handlerVars>>,
             \A q \in Requests : q # r => pc'[q] = pc[q] /\ reply'[q] = reply[q],
             pc[r] \in {"forwarding", "settling", "metering"},
             pc'[r] \in {"settling", "metering", "done"},
             pc[r] = "settling" => r \notin active \/ r \in mishaps',
             pc'[r] = "settling" <=> pc[r] = "forwarding",
             mishaps \subseteq mishaps',
             rows' = rows,
             \A i \in DOMAIN queue' :
                \/ queue'[i] = r /\ pc'[r] = "done"
                \/ \E j \in DOMAIN queue : queue'[i] = queue[j]
      PROVE  Handled'
  <2>1. \A i \in DOMAIN queue : queue[i] # r
    BY <1>5 DEF Handled
  <2>2. r \notin Recorded /\ Recorded' = Recorded
    BY <1>5 DEF Handled, Recorded
  <2>3. \A q \in Requests : KeyOf(q)' = KeyOf(q)
    BY <1>5 DEF KeyOf
  <2>a. Moved' = Moved /\ Placed'
    BY <1>0, <1>5, <1>a, <2>3
  <2>4. \A i \in DOMAIN queue' : pc'[queue'[i]] = "done"
    BY <1>0, <1>5, <2>1 DEF Handled
  <2>5. \A q \in active' : pc'[q] \in {"metering", "done"} => q \in Moved' \cup mishaps'
    BY <1>0, <1>5, <2>a DEF Handled
  <2>6. \A h \in held' :
         /\ h.key = KeyOf(h.req)' /\ h.req \notin Moved' /\ pc'[h.req] # "idle"
         /\ IF h.req \in active' THEN h.est = est'[h.req] ELSE h.req \in mishaps'
    BY <1>0, <1>5, <2>3, <2>a DEF Handled
  <2> QED
    BY <1>0, <1>5, <2>2, <2>a, <2>4, <2>5, <2>6 DEF Handled, Holds
<1>6. ASSUME NEW r \in Requests, Answer(r)
      PROVE  Handled'
  BY <1>0, <1>5, <1>6 DEF Answer, Respond
<1>7. ASSUME NEW r \in Requests, Settle(r)
      PROVE  Handled'
  <2>1. CASE r \notin active
    BY <1>0, <1>5, <1>7, <2>1 DEF Settle
  <2>2. CASE r \in active
    <3>1. PICK h \in held : h.req = r /\ Ledger!Settle(h, SettledAt(r))
      BY <1>7, <2>2 DEF Settle
    <3>2. /\ held' = held \ {h} /\ settled' = settled \cup {[hold |-> h, cost |-> SettledAt(r)]}
          /\ pc[r] = "settling" /\ pc'[r] = "metering"
          /\ \A q \in Requests : q # r => pc'[q] = pc[q]
          /\ UNCHANGED <<month, queueVars, handlerVars, reply, created, mishaps>>
      BY <1>0, <1>7, <3>1 DEF Settle, Ledger!Settle
    <3>a. Moved' = Moved \cup {r}
      <4> DEFINE s == [hold |-> h, cost |-> SettledAt(r)]
      <4>1. settled' = settled \cup {s} /\ s.hold.req = r
        BY <3>1, <3>2
      <4> HIDE DEF s
      <4> QED
        BY <4>1 DEF Moved
    <3>b. Placed'
      <4>1. \A q \in Requests : KeyOf(q)' = KeyOf(q)
        BY <3>2 DEF KeyOf
      <4>2. h.key = KeyOf(r)
        BY <3>1 DEF Handled
      <4>3. \A s \in settled : s.hold.req \in Requests /\ s.hold.key = KeyOf(s.hold.req)'
        BY <1>0, <4>1 DEF Handled, Placed, Moved
      <4> QED
        BY <3>1, <3>2, <4>1, <4>2, <4>3 DEF Placed
    <3>3. \A f \in held' : f.req # r /\ f \in held
      BY <3>1, <3>2 DEF Handled
    <3>4. \A f \in held : f.req # r => f \in held'
      BY <3>1, <3>2
    <3>5. Recorded' = Recorded /\ r \notin Recorded /\ \A q \in Requests : KeyOf(q)' = KeyOf(q)
      BY <3>2 DEF Recorded, KeyOf, Handled
    <3>6. \A i \in DOMAIN queue : queue[i] # r
      BY <3>2 DEF Handled
    <3>7. \A q \in active' : q \in Moved' \/ Holds(q)'
      BY <3>2, <3>a, <3>4 DEF Handled, Holds
    <3>8. \A f \in held' :
           /\ f.key = KeyOf(f.req)' /\ f.req \notin Moved' /\ pc'[f.req] # "idle"
           /\ IF f.req \in active' THEN f.est = est'[f.req] ELSE f.req \in mishaps'
      BY <1>0, <3>2, <3>a, <3>3, <3>5 DEF Handled
    <3>9. \A q \in Moved' : q \in active' /\ pc'[q] \in {"metering", "done", "dead"}
      BY <1>0, <2>2, <3>2, <3>a DEF Handled
    <3>10. \A q \in active' : pc'[q] \in {"metering", "done"} => q \in Moved' \cup mishaps'
      BY <1>0, <3>2, <3>a DEF Handled
    <3>11. /\ \A q \in Requests : pc'[q] \in {"idle", "forwarding"} => reply'[q] = NoReply
           /\ \A i \in DOMAIN queue' : pc'[queue'[i]] = "done"
           /\ \A q \in Recorded' : pc'[q] = "done"
      BY <1>0, <3>2, <3>5, <3>6 DEF Handled
    <3>12. \A f, q \in held' : f.req = q.req => f = q
      BY <3>3 DEF Handled
    <3> QED
      BY <3>b, <3>7, <3>8, <3>9, <3>10, <3>11, <3>12 DEF Handled
  <2> QED
    BY <2>1, <2>2
<1>8. ASSUME NEW r \in Requests, SettleLost(r)
      PROVE  Handled'
  BY <1>0, <1>5, <1>8 DEF SettleLost
<1>9. ASSUME NEW r \in Requests, Enqueue(r)
      PROVE  Handled'
  <2>1. \A i \in DOMAIN queue' : queue'[i] = r \/ \E j \in DOMAIN queue : queue'[i] = queue[j]
    <3>1. CASE queue' = queue
      BY <3>1
    <3>2. CASE queue' = Append(queue, r)
      <4>1. queue \in Seq(Requests)
        BY DEF TypeOK
      <4> QED
        BY <3>2, <4>1
    <3> QED
      BY <1>9, <3>1, <3>2 DEF Enqueue, Queue!Put, Queue!Refuse
  <2>2. rows' = rows
    BY <1>9 DEF Enqueue, Queue!Put, Queue!Refuse
  <2> QED
    BY <1>0, <1>5, <1>9, <2>1, <2>2 DEF Enqueue
<1>10. ASSUME NEW n \in 1..BatchSize, Write(n)
       PROVE  Handled'
  <2>1. /\ UNCHANGED <<ledgerVars, pc, handlerVars, reply, mishaps>>
        /\ \A q \in Requests : KeyOf(q)' = KeyOf(q)
    BY <1>10 DEF Write, KeyOf
  <2>2. /\ \A i \in DOMAIN queue' : pc'[queue'[i]] = "done"
        /\ \A r \in Recorded' : pc'[r] = "done"
    BY <1>10, <2>1, WriteMoves DEF Handled
  <2>3. Moved' = Moved /\ Placed'
    BY <1>0, <1>a, <2>1
  <2> QED
    BY <1>0, <2>1, <2>2, <2>3 DEF Handled, Holds
<1>11. CASE Kill
  <2>1. /\ UNCHANGED <<ledgerVars, handlerVars, reply, mishaps, rows>>
        /\ queue' = <<>> /\ Recorded' = Recorded
        /\ \A q \in Requests : KeyOf(q)' = KeyOf(q)
        /\ \A q \in Requests : pc'[q] = IF InFlight(q) THEN "dead" ELSE pc[q]
    BY <1>11 DEF Kill, KeyOf, Recorded
  <2>2. Moved' = Moved /\ Placed'
    BY <1>0, <1>a, <2>1
  <2> QED
    BY <1>0, <2>1, <2>2 DEF Handled, Holds, InFlight
<1>12. ASSUME UNCHANGED <<held, settled, queueVars, pc, handlerVars, reply>>,
              mishaps \subseteq mishaps'
       PROVE  Handled'
  <2>1. Recorded' = Recorded /\ \A q \in Requests : KeyOf(q)' = KeyOf(q)
    BY <1>12 DEF KeyOf, Recorded
  <2>2. Moved' = Moved /\ Placed'
    BY <1>0, <1>12, <1>a, <2>1
  <2>3. /\ \A g, h \in held' : g.req = h.req => g = h
        /\ \A h \in held' :
             /\ h.key = KeyOf(h.req)' /\ h.req \notin Moved' /\ pc'[h.req] # "idle"
             /\ IF h.req \in active' THEN h.est = est'[h.req] ELSE h.req \in mishaps'
    BY <1>0, <1>12, <2>1, <2>2 DEF Handled
  <2> QED
    BY <1>0, <1>12, <2>1, <2>2, <2>3 DEF Handled, Holds
<1>13. CASE NextMonth \/ Finished \/ UNCHANGED vars
  BY <1>12, <1>13 DEF NextMonth, Finished, vars
<1>14. ASSUME NEW r \in Requests, HoldAgain(r) \/ SettleAgain(r)
       PROVE  Handled'
  BY <1>12, <1>14 DEF HoldAgain, SettleAgain, Repeat, Ledger!HoldAgain, Ledger!SettleAgain
<1>15. ASSUME NEW k \in Keys, Expire(k)
       PROVE  Handled'
  BY <1>12, <1>15 DEF Expire, Ledger!Forget
<1>16. CASE Wipe
  BY <1>12, <1>16 DEF Wipe, Ledger!Forget
<1> QED
  BY <1>4, <1>6, <1>7, <1>8, <1>9, <1>10, <1>11, <1>13, <1>14, <1>15, <1>16
     DEF Next, HandlerStep

(***************************************************************************)
(* The hold of a request is found when it has only one.                    *)
(***************************************************************************)
LEMMA OnlyHold ==
    ASSUME NEW holds, \A g, h \in holds : g.req = h.req => g = h, NEW h \in holds
    PROVE  HoldOf(holds, h.req) = h
BY DEF HoldOf

(***************************************************************************)
(* What a request holds or cost is an amount that fits.                    *)
(***************************************************************************)
LEMMA WorthTyped ==
    ASSUME TypeOK, Handled, NEW k, NEW r \in Touched(k)
    PROVE  Worth[r] \in 0..MaxInt /\ Worth[r] \in Int /\ Worth[r] >= 0
<1>1. r \in Requests /\ (r \in Moved \/ Holds(r))
  BY DEF Touched
<1>2. CASE r \in Moved
  BY <1>1, <1>2, CostTyped, PricesAssumption DEF Worth
<1>3. CASE r \notin Moved
  <2>1. PICK h \in held : h.req = r
    BY <1>1, <1>3 DEF Holds
  <2>2. HoldOf(held, r) = h
    BY <2>1, OnlyHold DEF Handled
  <2>3. h.est \in 0..MaxInt
    BY DEF TypeOK, HoldType
  <2> QED
    BY <1>1, <1>3, <2>2, <2>3, PricesAssumption DEF Worth
<1> QED
  BY <1>2, <1>3

(***************************************************************************)
(* The sums over a counter's requests are naturals, in order.              *)
(***************************************************************************)
LEMMA BalanceTyped ==
    ASSUME TypeOK, Handled, NEW k, IsFiniteSet(Touched(k))
    PROVE  Balance(k) \in Int /\ Committed(k) \in Int /\ 0 <= Balance(k)
<1>1. \A r \in Touched(k) : Worth[r] \in Int /\ Worth[r] >= 0
  BY WorthTyped
<1>2. IsFiniteSet(Expected(k)) /\ \A r \in Expected(k) : Worth[r] \in Int
  BY <1>1, FS_Subset DEF Expected
<1>3. Balance(k) \in Int /\ Committed(k) \in Int
  BY <1>1, <1>2, SumType DEF Balance, Committed
<1>4. SumFunctionOnSet(Worth, {}) <= SumFunctionOnSet(Worth, Touched(k))
  <2> DEFINE N == {}
  <2>1. /\ N \subseteq Touched(k)
        /\ \A r \in N : Worth[r] \in Int /\ Worth[r] <= Worth[r]
        /\ \A r \in Touched(k) \ N : Worth[r] >= 0
        /\ \A r \in Touched(k) : Worth[r] \in Int
    BY <1>1
  <2> HIDE DEF N
  <2>2. SumFunctionOnSet(Worth, N) <= SumFunctionOnSet(Worth, Touched(k))
    BY <2>1, SumMonotone
  <2> QED
    BY <2>2 DEF N
<1> QED
  BY <1>3, <1>4, SumEmpty DEF Balance

(***************************************************************************)
(* A step after which the requests on a counter are worth the same keeps   *)
(* its account, when what the counter loses is missing, and it stays exact *)
(* if it was.                                                              *)
(***************************************************************************)
LEMMA AccountKept ==
    ASSUME TypeOK, TypeOK', Handled, Books, NEW k \in Keys,
           Touched(k)' = Touched(k),
           \A r \in Touched(k) : Worth'[r] = Worth[r],
           Expected(k)' \subseteq Expected(k),
           InUse(k)' => /\ InUse(k)
                        /\ counter'[k] + missing'[k] >= counter[k] + missing[k],
           missing'[k] >= missing[k],
           InUse(k)' /\ missing'[k] = 0 /\ Touched(k) \cap mishaps' = {} =>
               counter'[k] = Balance(k)
    PROVE  IsFiniteSet(Touched(k)') /\ Covered(k)' /\ Exact(k)' /\ Bounded(k)'
<1>1. IsFiniteSet(Touched(k)) /\ Covered(k) /\ Bounded(k)
  BY DEF Books
<1>2. \A r \in Touched(k) : Worth[r] \in Int /\ Worth[r] >= 0 /\ Worth'[r] = Worth[r]
  BY WorthTyped
<1>3. Balance(k)' = Balance(k)
  <2>1. SumFunctionOnSet(Worth', Touched(k)) = SumFunctionOnSet(Worth, Touched(k))
    BY <1>1, <1>2, SumSame
  <2> QED
    BY <2>1 DEF Balance
<1>4. Expected(k) \subseteq Touched(k) /\ Expected(k)' \subseteq Expected(k)
  BY DEF Expected
<1>5. IsFiniteSet(Expected(k)) /\ IsFiniteSet(Expected(k)')
  BY <1>1, <1>4, FS_Subset
<1>6. SumFunctionOnSet(Worth', Expected(k)') <= SumFunctionOnSet(Worth, Expected(k))
  <2>1. \A r \in Expected(k)' : Worth'[r] \in Int /\ Worth'[r] <= Worth[r]
    BY <1>2, <1>4
  <2>2. \A r \in Expected(k) : Worth[r] \in Int /\ Worth[r] >= 0
    BY <1>2, <1>4
  <2> QED
    BY <1>4, <1>5, <2>1, <2>2, SumMonotone
<1>7. SumFunctionOnSet(Worth', Expected(k)') \in Int
  <2>1. \A r \in Expected(k)' : Worth'[r] \in Int
    BY <1>2, <1>4
  <2> QED
    BY <1>5, <2>1, SumType
<1>8. Committed(k)' \in Int /\ Committed(k)' <= Committed(k)
  BY <1>6, <1>7 DEF Committed
<1>9. /\ Balance(k) \in Int /\ Committed(k) \in Int
      /\ Limit[k[1]] \in Int /\ counter[k] \in Int /\ missing[k] \in Int
  BY <1>1, BalanceTyped, CounterTyped
<1>10. counter'[k] \in Int /\ missing'[k] \in Int
  BY DEF TypeOK
<1>11. Covered(k)'
  BY <1>1, <1>3, <1>9, <1>10 DEF Covered
<1>12. Exact(k)'
  BY <1>3 DEF Exact
<1>13. Bounded(k)'
  BY <1>1, <1>8, <1>9, <1>10 DEF Bounded
<1> QED
  BY <1>1, <1>11, <1>12, <1>13

(***************************************************************************)
(* The requests of a counter are worth the same when no hold is taken or   *)
(* moved, and no request that has one is changed.                          *)
(***************************************************************************)
LEMMA AccountsSame ==
    ASSUME held' = held, settled' = settled, active' = active,
           \A q \in Requests :
               /\ q \in active \/ q \in Moved \/ Holds(q) => born'[q] = born[q] /\ ask'[q] = ask[q]
               /\ q \in Moved \/ reply[q] # NoReply => reply'[q] = reply[q],
           NEW k
    PROVE  /\ Touched(k)' = Touched(k)
           /\ \A r \in Touched(k) : Worth'[r] = Worth[r]
           /\ Expected(k)' \subseteq Expected(k)
<1>1. Moved' = Moved /\ \A q : Holds(q)' <=> Holds(q)
  BY DEF Holds, Moved
<1>2. Touched(k)' = Touched(k)
  BY <1>1 DEF Touched, KeyOf
<1>3. ASSUME NEW q \in Touched(k)
      PROVE  Worth'[q] = Worth[q]
  <2>1. q \in Requests /\ (q \in Moved => reply'[q] = reply[q])
    BY DEF Touched
  <2> QED
    BY <1>1, <2>1 DEF Worth, CostMicro
<1>4. Expected(k)' \subseteq Expected(k)
  <2> SUFFICES ASSUME NEW q \in Touched(k), q \in active, Unexpected(q)
               PROVE  Unexpected(q)'
    BY <1>2 DEF Expected
  <2>1. q \in Requests /\ ask'[q] = ask[q] /\ reply'[q] = reply[q]
    BY DEF Touched, Unexpected
  <2> QED
    BY <2>1 DEF Unexpected, Within
<1> QED
  BY <1>2, <1>3, <1>4

(***************************************************************************)
(* A step that changes no counter, nor what requests on it are worth.      *)
(***************************************************************************)
LEMMA BooksStay ==
    ASSUME TypeOK, TypeOK', Handled, Books,
           counter' = counter, held' = held, settled' = settled, active' = active,
           missing' = missing, mishaps \subseteq mishaps', month' >= month,
           \A q \in Requests :
               /\ q \in active \/ q \in Moved \/ Holds(q) => born'[q] = born[q] /\ ask'[q] = ask[q]
               /\ q \in Moved \/ reply[q] # NoReply => reply'[q] = reply[q]
    PROVE  Books'
<1> SUFFICES ASSUME NEW k \in Keys
             PROVE  IsFiniteSet(Touched(k)') /\ Covered(k)' /\ Exact(k)' /\ Bounded(k)'
  BY DEF Books
<1>1. /\ Touched(k)' = Touched(k)
      /\ \A r \in Touched(k) : Worth'[r] = Worth[r]
      /\ Expected(k)' \subseteq Expected(k)
  BY AccountsSame
<1>2. InUse(k)' => InUse(k)
  <2>1. month \in Months /\ month' \in Months /\ k[2] \in Months
    BY CounterTyped DEF TypeOK
  <2>2. month \in Int /\ month' \in Int /\ k[2] \in Int
    BY <2>1 DEF Months
  <2> QED
    BY <2>2 DEF InUse
<1>3. counter[k] \in Int /\ missing[k] \in Int
  BY CounterTyped
<1>4. InUse(k)' /\ missing'[k] = 0 /\ Touched(k) \cap mishaps' = {} => counter'[k] = Balance(k)
  BY <1>2 DEF Books, Exact
<1> QED
  BY <1>1, <1>2, <1>3, <1>4, AccountKept

(***************************************************************************)
(* A reservation adds its estimate, and the counter stays within the cap,  *)
(* and with it what the cap has to cover.                                  *)
(***************************************************************************)
LEMMA BooksHold ==
    ASSUME TypeOK, TypeOK', Backed, Handled, Books, Handled',
           NEW r \in Requests, NEW a, NEW stop, NEW e \in 0..MaxInt,
           Arrive(r, a, stop), Ledger!Hold(r, MonthKey(r), e),
           active' = active \/ active' = active \cup {r},
           mishaps \subseteq mishaps'
    PROVE  Books'
<1> DEFINE g == [req |-> r, key |-> MonthKey(r), est |-> e]
           m == MonthKey(r)
<1>1. /\ held' = held \cup {g} /\ settled' = settled
      /\ g.req = r /\ g.key = m /\ g.est = e
      /\ reply' = reply /\ month' = month /\ missing' = missing
      /\ m \in Keys /\ m[1] = TenantOf[r] /\ m[2] = month
      /\ counter'[m] = counter[m] + e /\ counter[m] + e <= Limit[m[1]]
      /\ \A k \in Keys : k # m => counter'[k] = counter[k]
      /\ e \in Int /\ e >= 0
  <2>1. m \in Keys /\ m[1] = TenantOf[r] /\ m[2] = month
    BY MonthKeyTyped DEF MonthKey
  <2>2. reply' = reply /\ month' = month /\ missing' = missing
    BY DEF Arrive
  <2> QED
    BY <2>1, <2>2, HoldTyped
<1>2. g.req = r /\ g.key = m /\ g.est = e
  OBVIOUS
<1> HIDE DEF g
<1>3. /\ KeyOf(r)' = m
      /\ \A q \in Requests : q # r => KeyOf(q)' = KeyOf(q) /\ ask'[q] = ask[q]
  BY DEF Arrive, KeyOf, MonthKey, TypeOK
<1> HIDE DEF m
<1>4. Moved' = Moved
  BY <1>1 DEF Moved
<1>5. pc[r] = "idle" /\ r \notin Moved /\ ~Holds(r)
  BY IdleUntouched DEF Arrive
<1>6. Holds(r)' /\ \A q \in Requests : q # r => (Holds(q)' <=> Holds(q))
  BY <1>1, <1>2 DEF Holds
<1>7. \A k : Touched(k)' = IF k = m THEN Touched(k) \cup {r} ELSE Touched(k)
  BY <1>3, <1>4, <1>5, <1>6 DEF Touched
<1>8. \A k : r \notin Touched(k)
  BY <1>5 DEF Touched
<1>9. \A q \in Requests : CostMicro'[q] = CostMicro[q]
  BY <1>1 DEF CostMicro
<1>10. ASSUME NEW k, NEW q \in Touched(k)
      PROVE  Worth'[q] = Worth[q]
  <2>1. q \in Requests /\ q # r /\ (q \in Moved \/ Holds(q))
    BY <1>8 DEF Touched
  <2>2. CASE q \in Moved
    BY <1>4, <1>9, <2>1, <2>2 DEF Worth
  <2>3. CASE q \notin Moved
    <3>1. PICK h \in held : h.req = q
      BY <2>1, <2>3 DEF Holds
    <3>2. HoldOf(held, q) = h
      BY <3>1, OnlyHold DEF Handled
    <3>3. HoldOf(held', q) = h
      <4>1. h \in held' /\ \A f, d \in held' : f.req = d.req => f = d
        BY <1>1 DEF Handled
      <4> QED
        BY <3>1, <4>1, OnlyHold
    <3> QED
      BY <1>4, <2>1, <2>3, <3>2, <3>3 DEF Worth
  <2> QED
    BY <2>2, <2>3
<1>11. Worth'[r] = e
  <2>1. g \in held' /\ \A f, d \in held' : f.req = d.req => f = d
    BY <1>1 DEF Handled
  <2>2. HoldOf(held', r) = g
    BY <1>2, <2>1, OnlyHold
  <2> QED
    BY <1>2, <1>4, <1>5, <2>2 DEF Worth
<1> SUFFICES ASSUME NEW k \in Keys
             PROVE  IsFiniteSet(Touched(k)') /\ Covered(k)' /\ Exact(k)' /\ Bounded(k)'
  BY DEF Books
<1>12. /\ IsFiniteSet(Touched(k)) /\ Covered(k) /\ Exact(k)
       /\ counter[k] \in Int /\ missing[k] \in Int /\ Limit[k[1]] \in Int
       /\ Balance(k) \in Int
  BY CounterTyped, BalanceTyped DEF Books
<1>13. InUse(k)' <=> InUse(k)
  BY <1>1 DEF InUse
<1>14. CASE k # m
  <2>1. Touched(k)' = Touched(k) /\ counter'[k] = counter[k]
    BY <1>1, <1>7, <1>14
  <2>2. Expected(k)' \subseteq Expected(k)
    <3>1. \A q \in Requests : q # r => (Unexpected(q)' <=> Unexpected(q))
      BY <1>1, <1>3 DEF Unexpected, Within
    <3>2. \A q \in Touched(k) : q \in Requests /\ q # r
      BY <1>8 DEF Touched
    <3> QED
      BY <2>1, <3>1, <3>2 DEF Expected
  <2>3. InUse(k)' /\ missing'[k] = 0 /\ Touched(k) \cap mishaps' = {} => counter'[k] = Balance(k)
    BY <1>1, <1>12, <1>13, <2>1 DEF Exact
  <2> QED
    BY <1>1, <1>10, <1>12, <1>13, <2>1, <2>2, <2>3, AccountKept
<1>15. CASE k = m
  <2>1. /\ Touched(k)' = Touched(k) \cup {r} /\ counter'[k] = counter[k] + e
        /\ counter[k] + e <= Limit[k[1]] /\ missing'[k] = missing[k]
    BY <1>1, <1>7, <1>15
  <2>2. IsFiniteSet(Touched(k) \cup {r})
    BY <1>12, FS_AddElement
  <2>3. \A q \in Touched(k) : Worth[q] \in Int /\ Worth[q] >= 0 /\ Worth'[q] = Worth[q]
    BY <1>10, WorthTyped
  <2>4. \A q \in Touched(k) \cup {r} : Worth'[q] \in Int /\ Worth'[q] >= 0
    BY <1>1, <1>11, <2>3
  <2>5. Balance(k)' = Balance(k) + e
    <3>1. SumFunctionOnSet(Worth', Touched(k) \cup {r})
            = Worth'[r] + SumFunctionOnSet(Worth', Touched(k))
      <4>1. \A q \in Touched(k) \cup {r} : Worth'[q] \in Int
        BY <2>4
      <4> QED
        BY <1>8, <1>12, <4>1, SumAdd
    <3>2. SumFunctionOnSet(Worth', Touched(k)) = SumFunctionOnSet(Worth, Touched(k))
      BY <1>12, <2>3, SumSame
    <3> QED
      BY <1>1, <1>11, <1>12, <2>1, <3>1, <3>2 DEF Balance
  <2>6. InUse(k)
    <3>1. month \in Int /\ k[2] = month
      BY <1>1, <1>15 DEF TypeOK, Months
    <3> QED
      BY <3>1 DEF InUse
  <2>7. Balance(k) <= counter[k] + missing[k]
    BY <1>12, <2>6 DEF Covered
  <2>8. Covered(k)'
    BY <1>1, <1>12, <2>1, <2>5, <2>7 DEF Covered
  <2>9. Exact(k)'
    <3> SUFFICES ASSUME missing'[k] = 0, Touched(k)' \cap mishaps' = {}
                 PROVE  counter'[k] = Balance(k)'
      BY DEF Exact
    <3>1. missing[k] = 0 /\ Touched(k) \cap mishaps = {}
      BY <2>1
    <3> QED
      BY <1>12, <2>1, <2>5, <2>6, <3>1 DEF Exact
  <2>10. Bounded(k)'
    <3>1. Expected(k)' \subseteq Touched(k) \cup {r}
      BY <2>1 DEF Expected
    <3>2. /\ \A q \in Expected(k)' : Worth'[q] \in Int /\ Worth'[q] <= Worth'[q]
          /\ \A q \in Touched(k) \cup {r} : Worth'[q] \in Int
          /\ \A q \in (Touched(k) \cup {r}) \ Expected(k)' : Worth'[q] >= 0
      BY <2>4, <3>1
    <3>3. SumFunctionOnSet(Worth', Expected(k)')
            <= SumFunctionOnSet(Worth', Touched(k) \cup {r})
      BY <2>2, <3>1, <3>2, SumMonotone
    <3>4. IsFiniteSet(Expected(k)')
      BY <2>2, <3>1, FS_Subset
    <3>5. SumFunctionOnSet(Worth', Expected(k)') \in Int
      BY <3>2, <3>4, SumType
    <3>6. Committed(k)' \in Int /\ Committed(k)' <= Balance(k)'
      BY <2>1, <3>3, <3>5 DEF Committed, Balance
    <3> QED
      BY <1>1, <1>12, <2>1, <2>5, <2>7, <3>6 DEF Bounded
  <2> QED
    BY <2>1, <2>2, <2>8, <2>9, <2>10
<1> QED
  BY <1>14, <1>15

(***************************************************************************)
(* A settlement replaces the estimate by the cost, which is no more when   *)
(* the response kept to what was asked.                                    *)
(***************************************************************************)
LEMMA BooksSettle ==
    ASSUME TypeOK, TypeOK', Backed, Handled, Books, Handled',
           NEW r \in active, NEW h \in held, h.req = r,
           Fits(h, CostMicro[r]), Ledger!Settle(h, CostMicro[r]),
           UNCHANGED <<handlerVars, reply, month, missing, mishaps>>
    PROVE  Books'
<1> DEFINE c == CostMicro[r]
<1>1. /\ r \in Requests /\ h.key \in Keys /\ h.est \in Int /\ c \in Int /\ c >= 0
      /\ counter'[h.key] = counter[h.key] + c - h.est
      /\ \A k \in Keys : k # h.key => counter'[k] = counter[k]
      /\ held' = held \ {h}
      /\ settled' = settled \cup {[hold |-> h, cost |-> c]}
  <2>1. r \in Requests
    BY DEF TypeOK
  <2>2. c \in 0..MaxInt
    BY <2>1, CostTyped
  <2> QED
    BY <2>1, <2>2, SettleTyped
<1>2. Moved' = Moved \cup {r}
  <2> DEFINE s == [hold |-> h, cost |-> c]
  <2>1. settled' = settled \cup {s} /\ s.hold.req = r
    BY <1>1
  <2> HIDE DEF s
  <2> QED
    BY <2>1 DEF Moved
<1> HIDE DEF c
<1>3. /\ h.key = KeyOf(r) /\ r \notin Moved /\ h.est = est[r]
      /\ \A d \in held : d.req = r => d = h
  BY DEF Handled
<1>4. \A q \in Requests : q # r => (Holds(q)' <=> Holds(q))
  BY <1>1 DEF Holds
<1>5. \A q \in Requests :
        KeyOf(q)' = KeyOf(q) /\ CostMicro'[q] = CostMicro[q] /\ (Unexpected(q)' <=> Unexpected(q))
  BY DEF handlerVars, KeyOf, CostMicro, Unexpected, Within
<1>6. Holds(r)
  BY DEF Holds
<1>7. \A k : Touched(k)' = Touched(k)
  BY <1>1, <1>2, <1>4, <1>5, <1>6 DEF Touched
<1>8. \A k : Expected(k)' = Expected(k)
  <2>1. active' = active
    BY DEF handlerVars
  <2>2. \A k : \A q \in Touched(k) : q \in Requests
    BY DEF Touched
  <2> QED
    BY <1>5, <1>7, <2>1, <2>2 DEF Expected
<1>9. ASSUME NEW k, NEW q \in Touched(k), q # r
      PROVE  Worth'[q] = Worth[q]
  <2>1. q \in Requests /\ (q \in Moved \/ Holds(q))
    BY DEF Touched
  <2>2. CASE q \in Moved
    BY <1>2, <1>5, <2>1, <2>2 DEF Worth
  <2>3. CASE q \notin Moved
    <3>1. PICK d \in held : d.req = q
      BY <2>1, <2>3 DEF Holds
    <3>2. HoldOf(held, q) = d
      BY <3>1, OnlyHold DEF Handled
    <3>3. HoldOf(held', q) = d
      <4>1. d \in held' /\ \A f, b \in held' : f.req = b.req => f = b
        BY <1>1, <1>9, <3>1 DEF Handled
      <4> QED
        BY <3>1, <4>1, OnlyHold
    <3> QED
      BY <1>2, <1>9, <2>1, <2>3, <3>2, <3>3 DEF Worth
  <2> QED
    BY <2>2, <2>3
<1>10. Worth[r] = h.est /\ Worth'[r] = c
  <2>1. HoldOf(held, r) = h
    BY OnlyHold DEF Handled
  <2> QED
    BY <1>1, <1>2, <1>3, <1>5, <2>1 DEF Worth, c
<1>11. ~Unexpected(r) => c <= h.est
  BY <1>3, BackedCovers DEF EstimateCovers, c
<1> SUFFICES ASSUME NEW k \in Keys
             PROVE  IsFiniteSet(Touched(k)') /\ Covered(k)' /\ Exact(k)' /\ Bounded(k)'
  BY DEF Books
<1>12. /\ IsFiniteSet(Touched(k)) /\ Covered(k) /\ Exact(k) /\ Bounded(k)
       /\ counter[k] \in Int /\ missing[k] \in Int /\ Limit[k[1]] \in Int
       /\ Balance(k) \in Int /\ Committed(k) \in Int
  BY CounterTyped, BalanceTyped DEF Books
<1>13. /\ InUse(k)' <=> InUse(k)
       /\ missing'[k] = missing[k] /\ mishaps' = mishaps
  BY DEF InUse
<1>14. CASE k # h.key
  <2>1. counter'[k] = counter[k] /\ r \notin Touched(k)
    BY <1>1, <1>3, <1>14 DEF Touched
  <2>2. \A q \in Touched(k) : Worth'[q] = Worth[q]
    BY <1>9, <2>1
  <2>3. InUse(k)' /\ missing'[k] = 0 /\ Touched(k) \cap mishaps' = {} => counter'[k] = Balance(k)
    BY <1>12, <1>13, <2>1 DEF Exact
  <2> QED
    BY <1>7, <1>8, <1>12, <1>13, <2>1, <2>2, <2>3, AccountKept
<1>15. CASE k = h.key
  <2>1. counter'[k] = counter[k] + c - h.est /\ r \in Touched(k)
    BY <1>1, <1>3, <1>6, <1>15 DEF Touched
  <2>2. \A q \in Touched(k) : Worth[q] \in Int /\ Worth[q] >= 0 /\ Worth'[q] \in Int
    <3>1. \A q \in Touched(k) : Worth[q] \in Int /\ Worth[q] >= 0
      BY WorthTyped
    <3> QED
      BY <1>1, <1>9, <1>10, <3>1
  <2>3. Balance(k)' = Balance(k) + c - h.est
    <3>1. \A q \in Touched(k) : q # r => Worth'[q] = Worth[q]
      BY <1>9
    <3>2. SumFunctionOnSet(Worth', Touched(k))
            = SumFunctionOnSet(Worth, Touched(k)) + Worth'[r] - Worth[r]
      BY <1>12, <2>1, <2>2, <3>1, SumChange
    <3> QED
      BY <1>7, <1>10, <3>2 DEF Balance
  <2>4. Committed(k)' \in Int /\ Committed(k)' <= Committed(k)
    <3>1. IsFiniteSet(Expected(k)) /\ Expected(k) \subseteq Touched(k)
      BY <1>12, FS_Subset DEF Expected
    <3>2. ASSUME NEW q \in Expected(k)
          PROVE  Worth'[q] <= Worth[q]
      <4>1. q \in Touched(k) /\ ~Unexpected(q)
        BY DEF Expected
      <4>2. CASE q # r
        BY <1>9, <2>2, <4>1, <4>2
      <4>3. CASE q = r
        BY <1>10, <1>11, <4>1, <4>3
      <4> QED
        BY <4>2, <4>3
    <3>3. /\ \A q \in Expected(k) : Worth'[q] \in Int
          /\ \A q \in Expected(k) : Worth[q] \in Int
      BY <2>2, <3>1
    <3>4. \A q \in Expected(k) \ Expected(k) : Worth[q] >= 0
      OBVIOUS
    <3>5. SumFunctionOnSet(Worth', Expected(k)) <= SumFunctionOnSet(Worth, Expected(k))
      BY <3>1, <3>2, <3>3, <3>4, SumMonotone
    <3>6. SumFunctionOnSet(Worth', Expected(k)) \in Int
      BY <3>1, <3>3, SumType
    <3> QED
      BY <1>8, <3>5, <3>6 DEF Committed
  <2>5. Covered(k)'
    BY <1>1, <1>12, <1>13, <2>1, <2>3 DEF Covered
  <2>6. Exact(k)'
    BY <1>1, <1>7, <1>12, <1>13, <2>1, <2>3 DEF Exact
  <2>7. Bounded(k)'
    BY <1>12, <1>13, <2>4 DEF Bounded
  <2> QED
    BY <1>7, <1>12, <2>5, <2>6, <2>7
<1> QED
  BY <1>14, <1>15

(***************************************************************************)
(* What Redis does of itself, or is sent again, changes a counter without  *)
(* a request behind it: no account of a request moves, and what a counter  *)
(* loses is missing.                                                       *)
(***************************************************************************)
LEMMA BooksFaults ==
    ASSUME TypeOK, TypeOK', Handled, Books,
           UNCHANGED <<held, settled, handlerVars, reply, month>>,
           \A k \in Keys :
               /\ InUse(k) => counter'[k] + missing'[k] >= counter[k] + missing[k]
               /\ missing'[k] >= missing[k]
               /\ InUse(k) /\ missing'[k] = 0 /\ Touched(k) \cap mishaps' = {} =>
                      counter'[k] = Balance(k)
    PROVE  Books'
<1> SUFFICES ASSUME NEW k \in Keys
             PROVE  IsFiniteSet(Touched(k)') /\ Covered(k)' /\ Exact(k)' /\ Bounded(k)'
  BY DEF Books
<1>1. /\ Touched(k)' = Touched(k)
      /\ \A r \in Touched(k) : Worth'[r] = Worth[r]
      /\ Expected(k)' \subseteq Expected(k)
  <2>1. active' = active /\ born' = born /\ ask' = ask
    BY DEF handlerVars
  <2> QED
    BY <2>1, AccountsSame
<1>2. InUse(k)' <=> InUse(k)
  BY DEF InUse
<1> QED
  BY <1>1, <1>2, AccountKept

(***************************************************************************)
(* A repeated command: its request is one of those that were worth         *)
(* something on the counter, and from now on one with a mishap.            *)
(***************************************************************************)
LEMMA BooksRepeat ==
    ASSUME TypeOK, TypeOK', Handled, Books, NEW r \in Requests, HoldAgain(r) \/ SettleAgain(r)
    PROVE  Books'
<1>1. /\ UNCHANGED <<held, settled, handlerVars, reply, month>>
      /\ mishaps' = mishaps \cup {r}
  BY DEF HoldAgain, SettleAgain, Repeat, Ledger!HoldAgain, Ledger!SettleAgain
<1>2. \E c \in Keys :
        /\ r \in Touched(c)
        /\ counter'[c] + missing'[c] >= counter[c] + missing[c]
        /\ missing'[c] >= missing[c]
        /\ \A k \in Keys : k # c => counter'[k] = counter[k] /\ missing'[k] = missing[k]
  <2>1. CASE HoldAgain(r)
    <3>1. PICK h \in Ledger!Known :
            /\ h.req = r /\ h.key \in Keys
            /\ counter'[h.key] >= counter[h.key]
            /\ \A k \in Keys : k # h.key => counter'[k] = counter[k]
      BY <2>1, HoldAgainTyped
    <3>2. missing' = missing
      BY <2>1 DEF HoldAgain
    <3>3. r \in Touched(h.key)
      <4>1. CASE h \in held
        BY <3>1, <4>1 DEF Handled, Touched, Holds
      <4>2. CASE \E s \in settled : s.hold = h
        BY <3>1, <4>2 DEF Handled, Placed, Touched, Moved
      <4> QED
        BY <4>1, <4>2 DEF Ledger!Known
    <3>4. counter'[h.key] \in Int /\ counter[h.key] \in Int /\ missing[h.key] \in Int
      BY <3>1, CounterTyped DEF TypeOK
    <3> QED
      BY <3>1, <3>2, <3>3, <3>4
  <2>2. CASE SettleAgain(r)
    <3>1. PICK s \in settled :
            /\ s.hold.req = r /\ s.hold.key \in Keys
            /\ counter'[s.hold.key] + missing'[s.hold.key]
                   >= counter[s.hold.key] + missing[s.hold.key]
            /\ missing'[s.hold.key] >= missing[s.hold.key]
            /\ \A k \in Keys : k # s.hold.key =>
                   counter'[k] = counter[k] /\ missing'[k] = missing[k]
      BY <2>2, SettleAgainTyped
    <3>2. r \in Touched(s.hold.key)
      BY <3>1 DEF Handled, Placed, Touched, Moved
    <3> QED
      BY <3>1, <3>2
  <2> QED
    BY <2>1, <2>2
<1>3. PICK c \in Keys :
        /\ r \in Touched(c)
        /\ counter'[c] + missing'[c] >= counter[c] + missing[c]
        /\ missing'[c] >= missing[c]
        /\ \A k \in Keys : k # c => counter'[k] = counter[k] /\ missing'[k] = missing[k]
  BY <1>2
<1>4. ASSUME NEW k \in Keys
      PROVE  /\ InUse(k) => counter'[k] + missing'[k] >= counter[k] + missing[k]
             /\ missing'[k] >= missing[k]
             /\ InUse(k) /\ missing'[k] = 0 /\ Touched(k) \cap mishaps' = {} =>
                    counter'[k] = Balance(k)
  <2>1. counter[k] \in Int /\ missing[k] \in Int /\ Exact(k)
    BY CounterTyped DEF Books
  <2>2. CASE k = c
    BY <1>1, <1>3, <2>2
  <2>3. CASE k # c
    BY <1>1, <1>3, <2>1, <2>3 DEF Exact
  <2> QED
    BY <2>2, <2>3
<1> QED
  BY <1>1, <1>4, BooksFaults

(***************************************************************************)
(* A counter that expires is of no month a request may still come from.    *)
(***************************************************************************)
LEMMA BooksExpire ==
    ASSUME TypeOK, TypeOK', Handled, Books, NEW c \in Keys, Expire(c)
    PROVE  Books'
<1>1. /\ UNCHANGED <<held, settled, handlerVars, reply, month, missing, mishaps>>
      /\ ~InUse(c)
      /\ \A k \in Keys : k # c => counter'[k] = counter[k]
  BY DEF Expire, Ledger!Forget
<1>2. ASSUME NEW k \in Keys
      PROVE  /\ InUse(k) => counter'[k] + missing'[k] >= counter[k] + missing[k]
             /\ missing'[k] >= missing[k]
             /\ InUse(k) /\ missing'[k] = 0 /\ Touched(k) \cap mishaps' = {} =>
                    counter'[k] = Balance(k)
  <2>1. counter[k] \in Int /\ missing[k] \in Int /\ Exact(k)
    BY CounterTyped DEF Books
  <2> QED
    BY <1>1, <2>1 DEF Exact
<1> QED
  BY <1>1, <1>2, BooksFaults

(***************************************************************************)
(* Lost data are missing, but for what a counter was below zero.           *)
(***************************************************************************)
LEMMA BooksWipe ==
    ASSUME TypeOK, TypeOK', Handled, Books, Wipe
    PROVE  Books'
<1>1. /\ UNCHANGED <<held, settled, handlerVars, reply, month, mishaps>>
      /\ counter' = [k \in Keys |-> 0]
      /\ missing' = [k \in Keys |-> missing[k] + Surplus(counter[k])]
  BY DEF Wipe, Ledger!Forget
<1>2. ASSUME NEW k \in Keys
      PROVE  /\ InUse(k) => counter'[k] + missing'[k] >= counter[k] + missing[k]
             /\ missing'[k] >= missing[k]
             /\ InUse(k) /\ missing'[k] = 0 /\ Touched(k) \cap mishaps' = {} =>
                    counter'[k] = Balance(k)
  <2>1. /\ counter[k] \in Int /\ missing[k] \in Nat /\ Exact(k)
        /\ Balance(k) \in Int /\ 0 <= Balance(k)
    BY CounterTyped, BalanceTyped DEF Books
  <2>2. counter'[k] = 0 /\ missing'[k] = missing[k] + Surplus(counter[k])
    BY <1>1
  <2>3. /\ missing'[k] \in Int /\ missing'[k] >= missing[k]
        /\ missing'[k] >= counter[k] + missing[k]
    BY <2>1, <2>2 DEF Surplus
  <2>4. missing'[k] = 0 => missing[k] = 0 /\ counter[k] <= 0
    BY <2>1, <2>2, <2>3
  <2>5. InUse(k) /\ missing'[k] = 0 /\ Touched(k) \cap mishaps' = {} => counter[k] = Balance(k)
    BY <1>1, <2>1, <2>4 DEF Exact
  <2>6. InUse(k) /\ missing'[k] = 0 /\ Touched(k) \cap mishaps' = {} => counter'[k] = Balance(k)
    BY <2>1, <2>2, <2>4, <2>5
  <2>7. counter'[k] + missing'[k] >= counter[k] + missing[k]
    BY <2>1, <2>2, <2>3
  <2> QED
    BY <2>3, <2>6, <2>7
<1> QED
  BY <1>1, <1>2, BooksFaults

(***************************************************************************)
(* The counters stay what the requests are worth.                          *)
(***************************************************************************)
LEMMA BooksNext ==
    ASSUME TypeOK, Backed, Handled, Books, [Next]_vars, TypeOK', Handled'
    PROVE  Books'
<1> USE DEF ledgerVars, redisVars, handlerVars
<1>0. month \in Int /\ month' \in Int
  BY DEF TypeOK, Months
<1>1. ASSUME UNCHANGED <<ledgerVars, active, missing, month>>, mishaps \subseteq mishaps',
             NEW r \in Requests, r \notin Moved, ~Holds(r), r \notin active, reply' = reply,
             \A q \in Requests : q # r => born'[q] = born[q] /\ ask'[q] = ask[q]
      PROVE  Books'
  BY <1>0, <1>1, BooksStay
<1>2. ASSUME NEW r \in Requests, NEW a, NEW stop, Arrive(r, a, stop),
             UNCHANGED <<ledgerVars, active>>, mishaps \subseteq mishaps'
      PROVE  Books'
  <2>1. r \notin Moved /\ ~Holds(r) /\ r \notin active
    BY <1>2, IdleUntouched DEF Arrive
  <2>2. /\ \A q \in Requests : q # r => born'[q] = born[q] /\ ask'[q] = ask[q]
        /\ reply' = reply /\ missing' = missing /\ month' = month
    BY <1>2 DEF Arrive, TypeOK
  <2> QED
    BY <1>1, <1>2, <2>1, <2>2
<1>3. ASSUME NEW r \in Requests, NEW a \in Asks, CheckBudget(r, a)
      PROVE  Books'
  <2>1. CASE SkipBudget(r, a)
    BY <1>2, <2>1 DEF SkipBudget
  <2>2. ASSUME NEW e \in EstimateMicro(a), Reserve(r, a, e)
        PROVE  Books'
    <3>1. e \in 0..MaxInt
      BY <2>2, EstimateFits DEF Reserve
    <3> QED
      BY <2>2, <3>1, BooksHold DEF Reserve
  <2>3. ASSUME NEW e \in EstimateMicro(a), NEW stop, Arrive(r, a, stop),
               \/ UNCHANGED ledgerVars
               \/ Integer(e) /\ Ledger!Hold(r, MonthKey(r), e),
               active' = active, mishaps \subseteq mishaps'
        PROVE  Books'
    <3>1. CASE UNCHANGED ledgerVars
      BY <1>2, <2>3, <3>1
    <3>2. CASE Integer(e) /\ Ledger!Hold(r, MonthKey(r), e)
      <4>1. e \in 0..MaxInt
        BY <3>2, EstimateFits
      <4> QED
        BY <2>3, <3>2, <4>1, BooksHold
    <3> QED
      BY <2>3, <3>1, <3>2
  <2>4. ASSUME NEW e \in EstimateMicro(a), Deny(r, a, e)
        PROVE  Books'
    BY <2>3, <2>4 DEF Deny
  <2>5. ASSUME NEW e \in EstimateMicro(a), BudgetUnavailable(r, a, e)
        PROVE  Books'
    BY <2>3, <2>5 DEF BudgetUnavailable
  <2> QED
    BY <1>3, <2>1, <2>2, <2>4, <2>5 DEF CheckBudget
<1>4. ASSUME NEW r \in Requests, Answer(r)
      PROVE  Books'
  <2>1. PICK p : Respond(r, p)
    BY <1>4 DEF Answer
  <2>2. /\ UNCHANGED <<ledgerVars, handlerVars, missing, month, mishaps>>
        /\ pc[r] = "forwarding" /\ reply' = [reply EXCEPT ![r] = p]
    BY <2>1 DEF Respond
  <2>3. r \notin Moved /\ reply[r] = NoReply
    BY <2>2 DEF Handled
  <2>4. \A q \in Requests : q # r => reply'[q] = reply[q]
    BY <2>2 DEF TypeOK
  <2>5. /\ held' = held /\ settled' = settled /\ active' = active /\ counter' = counter
        /\ born' = born /\ ask' = ask /\ missing' = missing
        /\ mishaps \subseteq mishaps' /\ month' >= month
    BY <1>0, <2>2
  <2> QED
    BY <2>3, <2>4, <2>5, BooksStay
<1>5. ASSUME UNCHANGED <<ledgerVars, handlerVars, reply, missing>>,
             mishaps \subseteq mishaps', month' >= month
      PROVE  Books'
  BY <1>5, BooksStay
<1>6. ASSUME NEW r \in Requests, Settle(r)
      PROVE  Books'
  <2>1. UNCHANGED <<handlerVars, reply, month, missing, mishaps>>
    BY <1>6 DEF Settle
  <2>2. CASE r \notin active
    BY <1>0, <1>5, <1>6, <2>1, <2>2 DEF Settle
  <2>3. CASE r \in active
    <3>1. PICK h \in held :
            h.req = r /\ Fits(h, CostMicro[r]) /\ Ledger!Settle(h, CostMicro[r])
      BY <1>6, <2>3 DEF Settle, SettledAt
    <3> QED
      BY <2>1, <2>3, <3>1, BooksSettle
  <2> QED
    BY <2>2, <2>3
<1>7. ASSUME NEW r \in Requests, SettleLost(r) \/ Enqueue(r)
      PROVE  Books'
  BY <1>0, <1>5, <1>7 DEF SettleLost, Enqueue
<1>8. ASSUME NEW n \in 1..BatchSize, Write(n)
      PROVE  Books'
  BY <1>0, <1>5, <1>8 DEF Write
<1>9. CASE Kill \/ Finished \/ UNCHANGED vars
  BY <1>0, <1>5, <1>9 DEF Kill, Finished, vars
<1>10. CASE NextMonth
  BY <1>0, <1>5, <1>10 DEF NextMonth
<1> QED
  BY <1>3, <1>4, <1>6, <1>7, <1>8, <1>9, <1>10, BooksRepeat, BooksExpire, BooksWipe
     DEF Next, HandlerStep

-----------------------------------------------------------------------------
(* What follows. *)

GatewayInv == TypeOK /\ Backed /\ Handled /\ Books

(***************************************************************************)
(* Every reachable state satisfies the invariant.                          *)
(***************************************************************************)
LEMMA GatewayKept == Spec => []GatewayInv
<1>1. Init => GatewayInv
  <2> SUFFICES ASSUME Init
               PROVE  GatewayInv
    OBVIOUS
  <2> USE GatewayAssumption, PricesAssumption DEF Init, Ledger!Init, Queue!Init
  <2>1. TypeOK
    <3>1. 0 \in MinInt..MaxInt /\ 0 \in 0..MaxInt /\ 0 \in Months /\ 0 \in 0..MaxFaults
      BY DEF MinInt, Months
    <3> QED
      BY <3>1 DEF TypeOK
  <2>2. Backed
    BY DEF Backed
  <2>3. Recorded = {} /\ Moved = {} /\ \A r : ~Holds(r)
    BY DEF Recorded, Moved, Holds
  <2>4. Handled
    BY <2>3 DEF Handled, Placed
  <2>5. \A k : Touched(k) = {} /\ Expected(k) = {}
    BY <2>3 DEF Touched, Expected
  <2>6. SumFunctionOnSet(Worth, {}) = 0 /\ IsFiniteSet({})
    BY SumEmpty, FS_EmptySet
  <2>7. Books
    <3> SUFFICES ASSUME NEW k \in Keys
                 PROVE  IsFiniteSet(Touched(k)) /\ Covered(k) /\ Exact(k) /\ Bounded(k)
      BY DEF Books
    <3>1. /\ Touched(k) = {} /\ Expected(k) = {}
          /\ counter[k] = 0 /\ missing[k] = 0 /\ Limit[k[1]] \in 0..MaxInt
      BY <2>1, <2>5, CounterTyped
    <3>2. Committed(k) = 0 /\ Balance(k) = 0
      BY <2>6, <3>1 DEF Balance, Committed
    <3> QED
      BY <2>6, <3>1, <3>2 DEF Covered, Exact, Bounded
  <2> QED
    BY <2>1, <2>2, <2>4, <2>7 DEF GatewayInv
<1>2. GatewayInv /\ [Next]_vars => GatewayInv'
  BY TypedNext, BackedNext, HandledNext, BooksNext DEF GatewayInv
<1> QED
  BY <1>1, <1>2, PTL DEF Spec

(***************************************************************************)
(* No counter leaves int64, whatever is reserved, settled, repeated or     *)
(* lost (Reserve, Reconcile), and every variable has its type.             *)
(***************************************************************************)
THEOREM TypeCorrect == Spec => []TypeOK
<1>1. GatewayInv => TypeOK
  BY DEF GatewayInv
<1> QED
  BY <1>1, GatewayKept, PTL

(***************************************************************************)
(* Whatever is asked, and however the estimate is rounded or overflows, a  *)
(* granted reservation covers a response that keeps to its request         *)
(* (estimateMicro: "large enough to stop a request slipping past the cap").*)
(***************************************************************************)
THEOREM ReservationsCover == Spec => []EstimateCovers
<1>1. GatewayInv => EstimateCovers
  BY BackedCovers DEF GatewayInv
<1> QED
  BY <1>1, GatewayKept, PTL

(***************************************************************************)
(* The table holds no more spend of a capped tenant than the cap and what  *)
(* Redis lost, or gave back twice, of the month's counter, for any number  *)
(* of requests, but for the exceptions CapEnforced names: commands may be  *)
(* executed again, and data lost, at any time (README: allowed spend never *)
(* exceeds the cap).                                                       *)
(***************************************************************************)
THEOREM CapHolds == Spec => []CapEnforced
<1>1. GatewayInv => CapEnforced
  <2> SUFFICES ASSUME GatewayInv, NEW t \in Capped, NEW m \in Months
               PROVE  SumFunctionOnSet(CostMicro, Ordinary(t, m)) <= Limit[t] + missing[<<t, m>>]
    BY DEF CapEnforced
  <2> DEFINE ordinary == Ordinary(t, m)
             k == <<t, m>>
  <2>1. k \in Keys /\ k[1] = t
    BY GatewayAssumption DEF Keys
  <2>2. ordinary \subseteq Expected(k)
    BY DEF GatewayInv, TypeOK, Handled, Ordinary, Expected, Touched, KeyOf
  <2> HIDE DEF ordinary, k
  <2>3. /\ IsFiniteSet(Touched(k)) /\ Expected(k) \subseteq Touched(k)
        /\ SumFunctionOnSet(Worth, Expected(k)) <= Limit[t] + missing[k]
    BY <2>1 DEF GatewayInv, Books, Bounded, Committed, Expected
  <2>4. \A r \in Expected(k) : Worth[r] \in Int /\ Worth[r] >= 0
    BY <2>3, WorthTyped DEF GatewayInv
  <2>5. ASSUME NEW r \in ordinary
        PROVE  CostMicro[r] \in Int /\ CostMicro[r] <= Worth[r]
    <3>1. r \in Requests /\ r \in active /\ ~Unexpected(r) /\ (r \in Moved \/ Holds(r))
      BY <2>2 DEF Expected, Touched
    <3>2. CostMicro[r] \in Int
      BY <3>1, CostTyped, PricesAssumption DEF GatewayInv
    <3>3. CASE r \in Moved
      BY <3>1, <3>2, <3>3 DEF Worth
    <3>4. CASE r \notin Moved
      <4>1. PICK h \in held : h.req = r
        BY <3>1, <3>4 DEF Holds
      <4>2. HoldOf(held, r) = h /\ h.est = est[r]
        BY <3>1, <4>1, OnlyHold DEF GatewayInv, Handled
      <4>3. CostMicro[r] <= est[r]
        BY <3>1, BackedCovers DEF GatewayInv, EstimateCovers
      <4> QED
        BY <3>1, <3>2, <3>4, <4>2, <4>3 DEF Worth
    <3> QED
      BY <3>2, <3>3, <3>4
  <2>6. IsFiniteSet(Expected(k)) /\ IsFiniteSet(ordinary)
    BY <2>2, <2>3, FS_Subset
  <2>7. SumFunctionOnSet(CostMicro, ordinary) <= SumFunctionOnSet(Worth, Expected(k))
    BY <2>2, <2>4, <2>5, <2>6, SumMonotone
  <2>8. /\ SumFunctionOnSet(CostMicro, ordinary) \in Int
        /\ SumFunctionOnSet(Worth, Expected(k)) \in Int
    BY <2>4, <2>5, <2>6, SumType
  <2>9. Limit[t] \in Int /\ missing[k] \in Int
    BY <2>1, CounterTyped DEF GatewayInv
  <2> QED
    BY <2>3, <2>7, <2>8, <2>9 DEF ordinary, k
<1> QED
  BY <1>1, GatewayKept, PTL

(***************************************************************************)
(* When nothing of a tenant was lost or repeated, its counters in use are  *)
(* the sums of its rows, for any number of requests, however wrong the     *)
(* estimates were and whatever happened to the other tenants (the          *)
(* multi-replica test's last assertion).                                   *)
(***************************************************************************)
THEOREM BooksAgreeAlways == Spec => []BooksAgree
<1>1. GatewayInv => BooksAgree
  <2> SUFFICES ASSUME GatewayInv, NEW t \in Tenants, NEW m \in Months,
                      \A r \in Requests :
                          TenantOf[r] = t => pc[r] = "idle" \/ Refusal(r) \/ Booked(r),
                      InUse(<<t, m>>), missing[<<t, m>>] = 0
               PROVE  counter[<<t, m>>] = TableSum(t, m)
    BY DEF BooksAgree
  <2> DEFINE k == <<t, m>>
             listed == {r \in Recorded : TenantOf[r] = t /\ created[r] = m}
  <2>1. k \in Keys
    BY DEF Keys
  <2>2. ASSUME NEW r \in Requests, TenantOf[r] = t, r \in Moved \/ Holds(r)
        PROVE  Booked(r) /\ r \in Moved
    BY <2>2 DEF GatewayInv, Backed, Handled, Holds, Refusal, Booked
  <2>3. ASSUME NEW r \in Recorded, TenantOf[r] = t
        PROVE  Booked(r) /\ r \in Moved /\ r \in Requests
    <3>1. r \in Requests /\ pc[r] = "done"
      BY <2>3 DEF GatewayInv, TypeOK, Handled, Recorded
    <3> QED
      BY <2>3, <3>1 DEF GatewayInv, Handled, Refusal, Booked
  <2>4. Touched(k) = listed
    <3>1. \A r \in Touched(k) : r \in listed
      BY <2>2 DEF Touched, KeyOf, Booked
    <3>2. \A r \in listed : r \in Touched(k)
      BY <2>3 DEF Touched, KeyOf, Booked
    <3> QED
      BY <3>1, <3>2
  <2>5. \A r \in Touched(k) : Worth[r] \in Int /\ CostMicro[r] = Worth[r]
    <3>1. \A r \in Touched(k) : r \in Requests /\ r \in Moved
      BY <2>2 DEF Touched, KeyOf
    <3>2. \A r \in Touched(k) : Worth[r] \in Int
      BY WorthTyped DEF GatewayInv
    <3> QED
      BY <3>1, <3>2 DEF Worth
  <2>6. IsFiniteSet(Touched(k)) /\ counter[k] = Balance(k)
    <3>1. Touched(k) \cap mishaps = {}
      BY <2>2 DEF Touched, KeyOf, Booked
    <3> QED
      BY <2>1, <3>1 DEF GatewayInv, Books, Exact
  <2>7. SumFunctionOnSet(CostMicro, Touched(k)) = SumFunctionOnSet(Worth, Touched(k))
    BY <2>5, <2>6, SumSame
  <2> QED
    BY <2>4, <2>6, <2>7 DEF Balance, TableSum
<1> QED
  BY <1>1, GatewayKept, PTL
=============================================================================
