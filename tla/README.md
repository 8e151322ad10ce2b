# A TLA+ verification of spendgate

spendgate is a gateway in front of the OpenAI and Anthropic APIs. It
authenticates a tenant by key, reserves an estimated cost against the tenant's
monthly cap in Redis, forwards the request, passes the response through while it
extracts the token usage, moves the reservation to the real cost and writes a
metering row to Postgres in the background. This directory models that program
in TLA+, checks the models with TLC and proves theorems about them with TLAPS.

## Inventory

| component | state | operations | modelled in |
|---|---|---|---|
| `internal/budget` | one counter per tenant and UTC month, in Redis, with a TTL | `Reserve` (Lua script), `Reconcile` (INCRBY) | BudgetLedger, BudgetGate |
| `internal/proxy`: gate | the handler's `reservation` | `checkBudget`, `estimateMicro`, `enqueue`, `reconcile` | BudgetGate, Gateway |
| `internal/proxy`: exchange | event buffer, extractor, what was sent | `maybeInjectUsage`, `bufferedResponse`, `streamResponse`, `streamSSE`, extractors | Exchange |
| `internal/meter` | channel of 4096, batch of 100, ticker | `Enqueue`, `Run`, `Wait`, `PGSink.Write` | EventQueue, Meter |
| `cmd/spendgate serve` | life of the process | start-up, signal, both `Shutdown`s, `stopWriter`, `Wait` | Store, Meter, Dashboard |
| `internal/auth`, `internal/tenant` | TTL cache; tenants table | `Middleware`, `resolve`, `LookupByHash`, `Create` | Auth |
| `internal/prices` | price table | `Cost`, `Seed` | Prices; Exchange (priced or not), Store (seeding) |
| `internal/store` | schema_migrations and the schema | `Migrate` | Store |
| `internal/dashboard` | none; reads requests and tenants | `Summarize`, `summaryHandler`, `liveHandler` | Dashboard |
| `internal/server`, `internal/config` | none | routing, pings, environment | not modelled: nothing evolves |
| `bench`, `demo` | | tools | not modelled |

How they interact: `auth.Middleware` calls `proxy.ServeHTTP` with the tenant it
attached; the handler calls `budget.Client` (shared by all replicas through
Redis), the provider, `budget.Client` again and `meter.Writer.Enqueue`; the
writer's goroutine alone calls the sink; `serve` orders their shutdown. The
dashboard's handlers read the table the writers of all replicas append to, on a
listener of their own.

What is hard here, and what makes each part correct:

* **Budget.** Handlers of several replicas race; commands are lost, late or
  repeated by go-redis; replicas and Redis restart; months end between the two
  calls; keys expire. Correct: reservations never pass the cap, fail-closed
  tenants are never forwarded unreserved, the counter is below what is owed by
  no more than Redis lost or a repeated refund gave back, and equals the cost when
  idle if neither happened.
* **Exchange.** Streams break anywhere, the client leaves, a synthetic frame has
  to be observed and hidden. Correct: the client sees what came of the provider's
  events without the frames it did not ask for; every sent request is metered with
  the provider's counts if they arrived. (A synthetic frame that is cut is not
  hidden: ExchangeCut.)
* **Meter.** Handlers, ticks, slow or failing writes and the shutdown interleave.
  Correct: order kept, nothing lost or doubled by the writer, everything flushed
  in time and at exit.
* **Auth.** Slow lookups race edits of the row. Correct: bounded staleness; a
  key is refused as unknown only if it was absent.
* **Store.** Replicas migrate one database at once and may stop between two
  statements. Correct: migrations apply in order and once, nothing serves on an
  incomplete schema, a process that lost a race comes up when started again.
* **Dashboard.** Four queries without a transaction see a table that grows, a
  window that moves and tenants that are revoked; queries fail, viewers leave or
  never leave. Correct: a summary is not torn, what was shown stays while it is
  in the window, what is in the table is shown, no handler outlives its client
  and none holds up the exit.
* **The process as a whole.** The counter is charged before and after the
  response, the row is written later and elsewhere. Correct: a reservation covers
  what was asked, and the two books differ by named losses only.

`PROJECT.json` lists each hazard at its line with the properties that cover it.

## Modules

* **BudgetGate** (EXTENDS Integers). A tenant may be in `Capped` and `Uncapped`: an
  operator changes its row between two requests. `month`, `counter`, `live` and `ttl` are the
  clock and Redis; `wire` the commands on the network; `pc`, `res`, `cost`,
  `attempt`, `reply`, `status` one handler each; `metered` what reached the
  writer; `granted`, `adjusted`, `topup` and `missing` are history: how often a
  request's commands were executed, what INCRBYs added, and what a counter lost with
  Redis' data or gave back in refunds executed again. `ReserveDenies`/`ReserveGrants`
  are the two ways through the Lua script, `IncrBy` the reconciliation. A handler
  sends a command and waits; `Retry` is the client library sending it again,
  `Drop` and `SendingFails` are loss and timeouts, `Crash`, `Wipe`, `Expire` and
  `NextMonth` the rest of the world. `CheckBudget`, `ReserveAllowed`,
  `ReserveDenied`, `ForwardUnreserved` and `BudgetUnavailable` are the paths of
  `checkBudget`; `Respond` is the way from the response into `enqueue`.
* **BudgetLedger** is what the counters promise: one estimate is held within the
  cap and moved to one cost on the counter it was made on, each of them at least
  once (`Hold`, `HoldAgain`, `Settle`, `SettleAgain`), and counters are forgotten. In
  BudgetGate, `Held`, `Settled` and `ImplementsLedger` state that the gate implements
  it: a request holds its estimate from the execution of its script to that of its
  INCRBY, whatever its handler knows of either, and every further execution of
  these commands is a repetition of the same amount on the same counter.
* **BudgetAccounts** adds the properties that sum costs over requests.
  **BudgetProofs** holds the theorems, **MCBudget** the instances.
* **Exchange** / **MCExchange**. One exchange after the gate. A line of the
  stream is a member of a small set: content, usage-only frame, both, `[DONE]`,
  Anthropic's start/delta/ping, a non-data line, a blank, a truncated line.
  `ReadLine`, `EndOfStream` and `StreamBreaks` are the loop of `streamSSE`; a break
  may leave the beginning of a line (`CutOf`), which is no JSON and so is observed
  as nothing and never stripped. `FlushEvent` is `flushEvent` with its three outcomes (stripped, written, write
  failed); `MeterStream` and `Buffered` end in `Enqueue`. `Stripped` is the
  reference: what a stream is without the frames that only report usage and arrived
  whole, by where its blank lines are; `InjectedNeverShown` is the README's promise
  that nothing of them is shown. **ExchangeProofs** holds the theorems.
* **Meter** / **MCMeter**. `run` and `flushing` say where `Run` is, `phase` where
  `serve` is. `Receive` is the receiving case of both loops, `TickCase` and
  `DoneCase` the others, `WriteReturns` the end of `sink.Write`, during which
  `Enqueue` goes on. **EventQueue** is what the writer promises: a queue that
  refuses only when full and is emptied from its head, each lot into the table as
  a whole or not at all. `ImplementsQueue` maps it to `batch \o ch`.
  **MeterProofs** holds the theorems.
* **Auth** / **MCAuth**. `CacheHit`/`CacheMiss` are the first critical section of
  `resolve`, `Found` the second; `LookupReads` is the moment Postgres reads the
  row, which is before the answer is stored. A row is its version; `until`
  records when a version stopped being current. **AuthProofs** holds the theorems.
* **Store** / **MCStore**. `pc` is the statement of `Migrate` each process has
  come to, `at` its loop; `schema` and `recorded` are what Postgres has.
  `Apply`/`ApplyFails` are the two outcomes of a migration file, `Create` the
  refused race of CREATE TABLE IF NOT EXISTS, `Stop` a kill or a lost
  connection. A process that is down may be started again. **StoreProofs** holds
  the theorems.
* **Dashboard** / **MCDashboard**. `created`, `pending`, `rows` and `tenants` are
  the events and the two tables; `pending` is an EventQueue, so a COPY is `Leave`
  of that module with the foreign key's verdict. `viewer` is where a handler is;
  `Begin` fixes `since`, `Query` is one of the four queries (a section of a
  summary is the set of rows its sums range over), `Write` the answer or the SSE
  event, `TickCase` and `DoneCase` the two cases of the loop. A `Copy` may fail for
  any reason, and must when a tenant is missing. `Shutdown`, `DeadlinePasses`,
  `ClosePool` and `Exit` are dashSrv's part of `serve`; the last two are the deferred
  `st.Close()`, which refuses further queries and waits for the one under way. Viewers change
  nothing, so one is enough. **DashboardProofs** holds the theorems.
* **Prices** (EXTENDS Integers). `Cost`, `toMicro`, `requestMaxTokens` and
  `estimateMicro` as operators: exact in units of a fraction of a micro-USD, then
  rounded; a value beyond int64 becomes what either processor family makes of it.
* **Gateway** / **MCGateway** compose BudgetLedger, EventQueue and Prices: one
  process' handlers between the two books. Each Redis call is one action, as its
  messages are BudgetGate's matter; `BudgetUnavailable` and `SettleLost` are its
  failures, with or without effect. `Write` is a lot's COPY, `Kill` kill -9.
  `HoldAgain` and `SettleAgain` are further executions of a command go-redis sent
  again, `Wipe` a Redis that restarts without its data, `Expire` a TTL.
  `mishaps` records whose Redis call failed or was repeated, `missing` what
  a counter lost or gave back twice. A tenant may be in `Capped` and
  `Uncapped`, and in `FailOpen` and `FailClosed`. `Fits` is Redis' refusal to count beyond an int64; the
  reconciliation it refuses is a `SettleLost`. **GatewayProofs** holds the theorems.
* **Inductions** knows nothing of this program: induction, and what follows from it
  about sums over finite sets and functions defined step by step.

Operators under a comment that begins with "Slip" are wrong variants of the definition below
them. No specification uses them; substituting one for its original must break
the property `PROJECT.json` names.

## Runs

| run | instance | shows |
|---|---|---|
| BudgetMonths | 2 requests of a fail-open tenant, capped for some, months 0..2, all faults but a wipe, 1 sending, handlers and provider fair | ExactWhenSettled, EventuallySettled |
| BudgetRepeats | 2 requests of a capped fail-closed tenant, 2 sendings of every command, time-outs, crashes, wipes, handlers fair | TypeOK, FailClosedReserved, CapBound, NoUndercount, SpendWithinCap, RedisNeverBlocks, ImplementsLedger |
| MeterWriter | 3 events, buffer 1, batch 2, all faults, fairness | TypeOK, NothingMislaid, ExitFlushes, ExitComplete, EventuallyFlushed, ShutdownEnds, ImplementsQueue |
| AuthCache | 3 requests for one key and a malformed one, TTL 2, lookups of up to 1, clock 0..4 | TypeOK, RefusedWasUnknown, EntriesExpire, StalenessBounded |
| StoreStart | 2 replicas and a migrate job, 2 migrations, 2 stops, fairness | TypeOK, LedgerLagsByOne, ServesMigrated, StartsUnlessOrphaned |
| ExchangeStream | every stream of up to 4 lines, both providers, broken off between and within lines, fairness | TypeOK, PassedThrough, MeteredAsReported, AlwaysMetered |
| Dashboard | 2 tenants with an event each, lots of up to 2, window 0, clock 0..1, 1 failing query, fairness | TypeOK, SummaryNotTorn, NothingVanishes, EventuallyShown, HandlerReleased, ShutdownPasses |
| Gateway | 2 requests of a tenant with every kind of row, 3 bodies (one beyond int64), 3 replies (one beyond NUMERIC(12,6)) or none, buffer 1, batch 1, 2 months, fairness | EstimateCovers, EventuallyBooked |
| GatewayBooks | the same for a capped fail-closed tenant, 3 months, a command executed twice or Redis' data lost once | TypeOK, CapEnforced, BooksAgree |

Why these bounds. Two handlers suffice for every race on one counter, and a third
(in BudgetRetry) for a reservation that profits from an undercount. Two sendings
(`MaxAttempts`) show a repeated command and an answer to one that is no longer
awaited, and let the script and the INCRBY of both requests each run twice, beside a
restart of Redis; the cap of 1 with estimates of 1 and costs of 0 to 2 lets requests
be granted, denied, refunded and overrun. BudgetMonths, which has the calendar
instead, sends once, with a cap of 3, estimates of 1 and 2 and costs of 0, 2 and 3.
One fault (`MaxFaults` in GatewayBooks) is a repetition or a loss at any moment of
either request.
Expiry needs the second month after the key's own. A buffer
of 1 and a batch of 2 with three events fill both, overflow the one, and leave a
remainder in the other. Two migrations, where the repository has one, are needed
to see their order.
In Dashboard one lot can hold rows of both tenants, so that a revoked tenant costs
the other's row; window 0 with a clock of two values lets rows leave the window
between two queries and between two summaries. In Gateway the cap admits either
request, or both when they are small; the default output ceiling is below what
one body asks for, a cost of 3.5 is rounded, and the buffer of one is full while
the other event is in it.
A filler, an overlapping lookup and a later hit are three requests. Four lines
hold two complete events, or one of several lines with the beginning of another.
`AuthCache` uses the symmetry of its requests; it checks no liveness.
GatewayBooks uses that of its requests, of one tenant.
`MaxMonth`, `MaxTime`, `MaxVersion`, `MaxFaults`, `MaxLines`, `MaxStops`, `MaxErrors`, the width
that `MaxInt` stands for and the sizes
of the sets are bounds of the instances only; `MaxLookup` is an assumption (the
code puts no deadline on a lookup beyond its request's).

### Where the code and its documentation differ

These runs each check one sentence of the documentation and TLC refutes it:

| run | sentence | what happens |
|---|---|---|
| BudgetRetry | README.md:5, budget.go:4 | go-redis repeats an INCRBY whose answer did not come; a refund counts twice; the cap is passed although estimates were conservative |
| MeterKill | meter.go:4, DESIGN.md:77 | kill -9 loses the channel as well as the batch |
| ExchangeCut | README.md:50-54, README.md:91 (ADR-003) | a stream that breaks off inside the injected usage frame: its beginning is no JSON, so it is not stripped but forwarded |

In BudgetRetry the repetition needs a connection that breaks after Redis executed
the command, or a short `read_timeout` in REDIS_URL: the default read timeout of 3 s
outlives the 2 s that `reconcile` allows, so a merely slow answer is not repeated.

Further differences the models contain, which no run is spent on. Each is why a
property above is stated the way it is:

| sentence | what the code does | in the models |
|---|---|---|
| proxy.go:321-323 | `"stream_options": null` decodes into a nil map, and adding include_usage to it panics | `InjectPanics` in Exchange |
| proxy.go:172-173 | a request for a priced alias that is answered under a snapshot without a price costs nothing, though its model is in prices.yaml | `ModelOr` and `Cost` in Exchange, `Unexpected` in Gateway |
| README.md:48, proxy.go:169 | a response dearer than its estimate passes the cap | `topup` in CapBound, `Conservative` in SpendWithinCap |
| budget.go:88-90 | a key recreated after expiry never gets a TTL: the next month uses another key | `IncrBy` leaves `ttl` alone |
| meter.go:5 | an event accepted after the drain is lost at exit | `atStop` in ExitFlushes, `late` in ExitComplete |
| auth.go:3-4 | a revoked key works for TTL plus lookup time | `MaxLookup` in StalenessBounded |
| store.go:35 | a migration applied but not recorded is applied again, and fails, at every start | `orphaned` in StartsUnlessOrphaned |
| dashboard.go:16-18 | polling every 2 s does not show spend within 2 s: the flush (500 ms), the queries and a skipped tick come on top | EventuallyShown has no bound |
| DESIGN.md:78 | revoking a tenant whose events wait for the COPY loses other tenants' rows of the lot, as any error of the COPY does | `Copy`, and `Write` in EventuallyBooked |
| summary.go:48-49 | "three targeted queries" are four, and no transaction | `before`, SummaryNotTorn |
| proxy.go:166-170 | an estimate beyond int64 becomes MinInt on amd64, which the script cannot add: the error path, so a fail-open tenant is forwarded unreserved | `Integer` in Gateway, `active` in EstimateCovers |
| README.md:5 | what Redis lost with its data, or a refund gave back twice, may be spent again | `missing` in NoUndercount, SpendWithinCap, CapEnforced |
| README.md:113-116 | the counter's month is the one before the response, created_at the one after | `born` and `created` in CapEnforced and BooksAgree |
| DESIGN.md:63 | streams without usage are metered with what was counted so far, not chars/4 | `MeterStream` |

### Fairness

* `HandlerSpec`: a handler goroutine that can take a step does. Nothing is
  assumed of Redis; that is what RedisNeverBlocks is about.
* BudgetGate's `FairSpec` adds that the provider answers, which is an assumption: the
  HTTP client has no timeout. Redis still owes nothing.
* Meter's `FairSpec`: `Run` moves, time passes, writes end (5 s context), and
  each case of the select that is ready again and again is chosen (Go's select
  picks at random), hence strong fairness for the three cases. `srv.Shutdown`
  ends because of its deadline.
* Exchange's `FairSpec`: a stream goes on or ends; again an assumption.
* Store's `FairSpec`: Postgres answers and a process that is down is started
  again, by an operator or a supervisor; processes stop only finitely often.

* Dashboard's `FairSpec`: queries end, ticks come, and the shutdown's deadline
  passes; a done context is among the ready cases of every select that is reached,
  hence strong fairness for `DoneCase`. `ClosePool` is serve's own next step. `Exit`
  waits until no query has a connection: a closed pool gives out no more, so the
  query under way is the last, though handlers go on asking; hence strong fairness.
  A client need not leave, an operator act, nor the writer write.
* Gateway's `FairSpec`: providers answer (again), handlers go on, the
  writer writes.

Signals, kills, faults, months and arrivals have no
fairness.

## Proofs

`BudgetProofs` proves, for any sets of requests, tenants and replicas, any caps,
estimates, costs, number of sendings and any set of faults, from
`GateAssumption` alone (the constants have their types):

* `TypeCorrect`: `Spec => []TypeOK`. Lemmas give the types of commands on the
  wire, then one lemma per actor, and `NextTyped` has one case per action.
* `CapNeverPassed`: `Spec => []CapBound`. CapBound is inductive relative to the
  types: only executions raise a counter; a grant ends at or below the cap since
  the script compares and increments in one step; an INCRBY raises `topup` by at
  least as much; expiry and a wipe go to zero, below every cap.
* `NeverForwardedUnreserved`: `Spec => []FailClosedReserved`. Not inductive by
  itself: a handler forwards when it reads "allowed", so the invariant needs
  that an unread "allowed" was preceded by an execution (`AllowedGranted`).

With every fault and any number of sendings it also proves:

* `LedgerImplemented`: `Spec => ImplementsLedger`. The first grant of a request is
  `Hold`, its first INCRBY `Settle`, later ones `HoldAgain` and `SettleAgain`, expiry
  and a wipe `Forget`, all else a stutter. `GateInv` has the types and what this
  needs: no INCRBY is sent, and none executed, before a reservation was
  (`Placed`), and a command on the wire bears the key and amount of its request,
  whichever sending it is (`Sent`).
* `NeverUndercounts`, `ChargesWithinCap` and `SettledExactly`: `[]NoUndercount`,
  `[]SpendWithinCap` and `[]ExactWhenSettled`, for any number of requests. None is
  inductive, as they speak of what handlers know. `Books` speaks of what Redis did.
  The `Balance` of a counter is the `Worth` of the requests granted on it: the
  estimate or, once an INCRBY ran, the cost. A counter in use is at least its balance
  but for what is missing (`Covered`): a second grant adds, a second top-up adds, a
  second refund and a wipe are recorded in `missing`. It is exactly the balance
  when no command ran twice and nothing is missing (`Exact`), and the balance is
  within the cap and what is missing while nobody cost more than estimated
  (`Bounded`): the script compares with the counter, so Bounded needs Covered. All
  three are said of an older counter, too, while a reservation is on its way to it
  (`Reserving`), as it does not expire meanwhile. `Answers` adds that an INCRBY comes
  after a response. What handlers owe is then a smaller sum over fewer requests
  (`ChargedWithinBalance`).

`missing` is no assumption but a term of the bounds: without a loss of Redis' data or
a repeated refund it is 0. That it is needed is what BudgetRetry shows.

`MeterProofs` proves, for any set of events, buffer and batch of any size and
every fault, from `MeterAssumption` alone:

* `TypeCorrect`: `Spec => []TypeOK`. Its bound on the batch is not inductive: one
  more event fits only because a full batch is flushed before the next receive,
  so `Bounded` adds that a batch which is not being flushed has room.
* `NothingIsMislaid`: `Spec => []NothingMislaid`. Inductive relative to the types;
  each receive and each flush moves a piece of a concatenation
  (`AppendedLast`, `Lengths` and the library's sequence theorems).
* `ExitHasFlushed`: `Spec => []ExitFlushes`. The strengthening `Drains` follows `Run`
  backwards from its return: before the final flush everything accepted up to
  stopWriter() is settled or in the batch, as the drain ended on an empty channel,
  and the drain begins only after cancellation.
* `ExitIsComplete`: `Spec => []ExitComplete`, from the above and `NoLateEvents`:
  if Shutdown saw all handlers end, none is left to call Enqueue.

* `QueueImplemented`: `Spec => ImplementsQueue`, under `batch \o ch`: a receive is
  a stutter, the end of a write `Leave`, and `Bounded` above gives the capacity.

`AuthProofs` proves, for any requests, keys, TTL and bounds, from `AuthAssumption`
alone:

* `TypeCorrect`, `EntriesYoung` (`[]EntriesExpire`), `RefusalsRight`
  (`[]RefusedWasUnknown`) and `NobodyStale` (`StalenessBounded`), from one
  invariant. EntriesExpire is not inductive: when a row is edited, its entries must
  be young already (`CacheInv`), and when a lookup stores, what it read must have
  been current since it began (`LookupInv`), which rests on the current and future
  versions not being superseded (`TableInv`).

`DashboardProofs` proves, for any events, tenants, lots and windows, with COPYs and
queries that fail at will, from `DashboardAssumption` alone:

* `TypeCorrect`: `Spec => []TypeOK`.
* `SummariesNotTorn` and `ShownStays`: `[]SummaryNotTorn` and `[]NothingVanishes`.
  `Intact` is the foreign key, which makes the joins lossless; `Grown` that each
  query finds what the ones before it found, as they share `since` and rows are
  never removed; `Kept` that what was shown and is still in the window was there
  when the summary was begun.

`GatewayProofs` proves, for any number of requests and tenants, any price list,
bodies, replies, limits, widths and sizes, and any number of repeated commands,
losses of Redis' data and expiries, from `PricesAssumption` and `GatewayAssumption`:

* `ReservationsCover`: `Spec => []EstimateCovers`. Costs grow with tokens
  (`CostGrows`), rounding keeps their order (`RoundGrows`), a granted estimate is
  the rounded cost or MaxInt (`EstimateBounds`), and a reservation keeps its body
  and estimate (`Backed`).
* `TypeCorrect`: `Spec => []TypeOK`. A counter stays within int64: a reservation
  raises it to its limit at most, and Redis refuses an INCRBY that does not fit. It
  may be negative, after a loss or a repeated refund.
* `CapHolds` and `BooksAgreeAlways`: `[]CapEnforced` and `[]BooksAgree`, for which
  rows and counters must be tied together through the handlers. `Handled` says of
  each handler where its estimate is: held from its reservation to its settlement,
  on the counter of the month it arrived in, unless a call to Redis failed. `Books`
  has the three parts it has in BudgetProofs: a counter in use is not below what its
  requests hold or cost, but for what is missing; it is exactly that if nothing is
  missing and none of them had a mishap; and those which keep to what they asked for
  are within the cap and what is missing. The rows that CapEnforced counts are among
  those; the rows that BooksAgree counts are all of them.

`ExchangeProofs` proves, for any set of exchanges with streams of any length, from
`ExchangeAssumption` alone (each provider sends its own events, message_start
before message_delta). A stream may break between any two lines or within any line:

* `ExchangeTypeCorrect`, `StreamPassedThrough` (`[]PassedThrough`) and
  `StreamMetered` (`[]MeteredAsReported`), from one invariant. `Framed` says that the
  event being read is the end of what was read, after a blank line, and that it and
  its data lines agree on the usage frame. `Reported` says that the extractor, with
  the data lines it has yet to see, knows exactly what arrived, and that
  no message_start is to come that would overwrite authoritative counts.
* What the proof rests on is that the reference, which looks at whole streams, can
  be computed event by event: `SyntheticFrame` (a usage frame reaches no further
  than its event) and `StrippedFrame` (so one more event is stripped as a whole or
  kept as a whole), and what one event does to an extractor (`ObserveOne`,
  `Observed`).

`Inductions` proves what these need of data (BudgetProofs, GatewayProofs and
ExchangeProofs). The library states induction
with an operator for a parameter; here it is stated with sets: a set of numbers that
is not all of 0..N lacks a least one (`Counting`), and a family of finite sets has
a minimal member (`MinimalSubset`, from the well-foundedness of strict subsets).
From them follow that a function defined step by step exists (`StepsExist`), and
that `SumFunctionOnSet` is what one expects: a natural, monotone, and changed by the
difference where the function is changed (`SumStep`, `SumMonotone`, `SumChange`).

`StoreProofs` proves, for any sets of servers and migrate jobs, any number of
migrations and stops, from `StoreAssumption` alone:

* `TypeCorrect`: `Spec => []TypeOK`, with `AtMigration` (a loop that applies or
  records has not ended).
* `LedgerLags`: `Spec => []LedgerLagsByOne`. The property alone is not inductive:
  what a process may apply depends on what it saw. `OneAtATime` adds that a
  process in Migrate has seen every earlier migration recorded (`Seen`), that a
  process about to record holds the newest (`HoldsNewest`), and that there is one
  such process at most (`OneRecords`). Hence a migration found unapplied is the
  next one while nothing awaits its recording (`AppliesNext`): it is Postgres'
  refusal to create a table twice that replaces the missing lock.
* `ServesOnlyMigrated`: `Spec => []ServesMigrated`, from `Complete` in the same
  invariant and the types.

Every invariant and action property of the runs, and both refinements, are thus
proved for all constants, as far as they are safety. Only model-checked: all liveness
(EventuallySettled, RedisNeverBlocks, EventuallyFlushed, ShutdownEnds,
StartsUnlessOrphaned, AlwaysMetered, EventuallyShown, HandlerReleased,
ShutdownPasses, EventuallyBooked), which is beyond the prover,
and the absence of deadlocks, which is about ENABLED.

## Abstractions

Amounts are small naturals. Prices abstracts floating point to exact arithmetic
before the rounding; products and sums of float64 are monotone too, which is what
EstimateCovers rests on. What providers report is assumed to fit an int64 in
micro-USD. That Redis' Lua does not hand MinInt to INCRBY as an integer is a fact
of the Redis 7 of docker-compose.yml. All replicas agree on the month. Redis executes one
command at a time and keeps a command that was sent until it runs or is lost.
go-redis' back-off is invisible, and EVALSHA with its fallback to EVAL is one
command. A COPY is all or nothing; that Postgres may commit one whose answer the
writer no longer waits for is covered by its succeeding. The seeded table
model_prices is read by nobody, so its content is left out. Responses are given
by what they cost and how they end. Auth's table is changed by operators as
DESIGN.md describes; that a DELETE is refused once the tenant has request rows
is left out of Auth, which only adds behaviours, and is in Dashboard. The
beginning of a line is one token per kind of line, wherever it is cut; a line that
lacks only its newline is the line. A body with usage but no model is charged at the
requested model. A repeated or late command of Gateway takes effect at any moment
after the first.
Gateway has one process: replicas have a queue each and share the counters, whose
races are BudgetGate's.

## Not modelled

* `internal/server`: stateless routing, and two health checks that ping Postgres
  and Redis and remember nothing.
* `internal/config`: reads the environment once; `create-tenant`'s and `migrate`'s
  flags likewise.
* Of the exchange: headers, URLs, and JSON below the payload kinds the proxy tells
  apart. Of the dashboard: how sums are grouped and ordered, and the page.
* `bench` and `demo`: tools around the program.

## Plan

Everything planned is modelled: BudgetGate, BudgetAccounts, Meter, Auth, Exchange
and Store; then BudgetLedger and EventQueue with the refinements; Prices, Gateway
and Dashboard. Every safety property is proved. What remains worth doing is to prove
what the liveness properties rest on and is itself safety: that whoever waits is
waited for by nobody else, and that counters of progress only fall.
