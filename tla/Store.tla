------------------------------- MODULE Store --------------------------------
(***************************************************************************)
(* Start-up of spendgate processes on one Postgres: Store.Migrate of       *)
(* internal/store, which every replica and every "spendgate migrate" runs  *)
(* without a lock, and the price seeding of serve after it.  A migration   *)
(* is applied and recorded by two statements; a process may stop between.  *)
(*                                                                         *)
(* Migrations are numbered in the order of their file names.               *)
(***************************************************************************)
EXTENDS Integers, Sequences

CONSTANTS
    Servers,    \* processes that run "serve"
    Migrators,  \* processes that run "migrate" only
    Last,       \* how many migrations are embedded
    MaxStops    \* bound on the processes that stop without being told to

ASSUME StoreAssumption ==
    /\ Servers \cap Migrators = {}
    /\ Last \in Nat \ {0}
    /\ MaxStops \in Nat

Processes == Servers \cup Migrators
Migrations == 1..Last

VARIABLES
    ledger,    \* the table schema_migrations exists
    recorded,  \* its rows
    schema,    \* migrations whose statements took effect, in order
    pc,        \* where each process is
    at,        \* the migration its loop has come to
    stops,     \* processes that stopped so far
    orphaned   \* history: migrations whose process stopped before recording

vars == <<ledger, recorded, schema, pc, at, stops, orphaned>>

Running == {"ensure", "create", "check", "apply", "record", "seed", "serving"}

TypeOK ==
    /\ ledger \in BOOLEAN
    /\ recorded \subseteq Migrations
    /\ schema \in Seq(Migrations)
    /\ pc \in [Processes -> Running \cup {"off", "failed", "migrated"}]
    /\ at \in [Processes -> 1..(Last + 1)]
    /\ stops \in 0..MaxStops
    /\ orphaned \subseteq Migrations

Init ==
    /\ ledger = FALSE
    /\ recorded = {}
    /\ schema = <<>>
    /\ pc = [p \in Processes |-> "off"]
    /\ at = [p \in Processes |-> 1]
    /\ stops = 0
    /\ orphaned = {}

Applied(m) == \E i \in DOMAIN schema : schema[i] = m

-----------------------------------------------------------------------------
Start(p) ==
    /\ pc[p] \in {"off", "failed"}
    /\ pc' = [pc EXCEPT ![p] = "ensure"]
    /\ at' = [at EXCEPT ![p] = 1]
    /\ UNCHANGED <<ledger, recorded, schema, stops, orphaned>>

(***************************************************************************)
(* CREATE TABLE IF NOT EXISTS looks first and creates then: of two         *)
(* sessions that both found nothing Postgres refuses the second.           *)
(***************************************************************************)
Ensure(p) ==
    /\ pc[p] = "ensure"
    /\ pc' = [pc EXCEPT ![p] = IF ledger THEN "check" ELSE "create"]
    /\ UNCHANGED <<ledger, recorded, schema, at, stops, orphaned>>

Create(p) ==
    /\ pc[p] = "create"
    /\ ledger' = TRUE
    /\ pc' = [pc EXCEPT ![p] = IF ledger THEN "failed" ELSE "check"]
    /\ UNCHANGED <<recorded, schema, at, stops, orphaned>>

\* Slips: the loop ends before, or after, the last migration.
LoopEndsEarly(p) == at[p] >= Last
LoopEndsLate(p) == at[p] > Last + 1
LoopEnds(p) == at[p] > Last

\* SELECT EXISTS, and on to the next migration when it is recorded.
Check(p) ==
    /\ pc[p] = "check"
    /\ ~LoopEnds(p)
    /\ IF at[p] \in recorded
       THEN at' = [at EXCEPT ![p] = @ + 1] /\ UNCHANGED pc
       ELSE pc' = [pc EXCEPT ![p] = "apply"] /\ UNCHANGED at
    /\ UNCHANGED <<ledger, recorded, schema, stops, orphaned>>

\* The whole file is one Exec, hence one transaction.
Apply(p) ==
    /\ pc[p] = "apply"
    /\ ~Applied(at[p])
    /\ schema' = Append(schema, at[p])
    /\ pc' = [pc EXCEPT ![p] = "record"]
    /\ UNCHANGED <<ledger, recorded, at, stops, orphaned>>

\* Slip: "already exists" is taken for success.
ApplyFailsIgnored(p) ==
    /\ pc[p] = "apply"
    /\ Applied(at[p])
    /\ pc' = [pc EXCEPT ![p] = "check"]
    /\ at' = [at EXCEPT ![p] = @ + 1]
    /\ UNCHANGED <<ledger, recorded, schema, stops, orphaned>>

\* CREATE TABLE finds the table another process made; Migrate returns the error.
ApplyFails(p) ==
    /\ pc[p] = "apply"
    /\ Applied(at[p])
    /\ pc' = [pc EXCEPT ![p] = "failed"]
    /\ UNCHANGED <<ledger, recorded, schema, at, stops, orphaned>>

\* Slip: the INSERT is forgotten.
InsertForgotten(m) == recorded
Insert(m) == recorded \cup {m}

Record(p) ==
    /\ pc[p] = "record"
    /\ recorded' = Insert(at[p])
    /\ at' = [at EXCEPT ![p] = @ + 1]
    /\ pc' = [pc EXCEPT ![p] = "check"]
    /\ UNCHANGED <<ledger, schema, stops, orphaned>>

Migrated(p) ==
    /\ pc[p] = "check"
    /\ LoopEnds(p)
    /\ pc' = [pc EXCEPT ![p] = IF p \in Servers THEN "seed" ELSE "migrated"]
    /\ UNCHANGED <<ledger, recorded, schema, at, stops, orphaned>>

\* prices.Seed upserts every price; it needs the table of the first migration.
Seed(p) ==
    /\ pc[p] = "seed"
    /\ pc' = [pc EXCEPT ![p] = IF Applied(1) THEN "serving" ELSE "failed"]
    /\ UNCHANGED <<ledger, recorded, schema, at, stops, orphaned>>

\* kill -9, or a statement that Postgres does not answer.
Stop(p) ==
    /\ pc[p] \in Running
    /\ stops < MaxStops
    /\ stops' = stops + 1
    /\ pc' = [pc EXCEPT ![p] = "off"]
    /\ orphaned' = IF pc[p] = "record" THEN orphaned \cup {at[p]} ELSE orphaned
    /\ UNCHANGED <<ledger, recorded, schema, at>>

Up ==
    /\ \A p \in Servers : pc[p] = "serving"
    /\ \A p \in Migrators : pc[p] = "migrated"
    /\ UNCHANGED vars

-----------------------------------------------------------------------------
Step(p) ==
    \/ Start(p) \/ Ensure(p) \/ Create(p) \/ Check(p) \/ Apply(p) \/ ApplyFails(p)
    \/ Record(p) \/ Migrated(p) \/ Seed(p)

Next == (\E p \in Processes : Step(p) \/ Stop(p)) \/ Up

Spec == Init /\ [][Next]_vars

\* Postgres answers, and a process that is down is started again.
FairSpec == Spec /\ \A p \in Processes : WF_vars(Step(p))

-----------------------------------------------------------------------------
(***************************************************************************)
(* Whatever processes race or stop, the schema is that of the migrations   *)
(* in order, each applied once, and the ledger lags it by at most one, the *)
(* newest (Migrate's check, apply and record).                             *)
(***************************************************************************)
LedgerLagsByOne ==
    /\ schema = [i \in 1..Len(schema) |-> i]
    /\ recorded \in {1..Len(schema), 1..(Len(schema) - 1)}

(***************************************************************************)
(* A process gets past Migrate only on a complete, recorded schema, also   *)
(* when another process did the work (serve).                              *)
(***************************************************************************)
ServesMigrated ==
    \A p \in Processes :
        pc[p] \in {"seed", "serving", "migrated"} =>
            Len(schema) = Last /\ recorded = Migrations

(***************************************************************************)
(* A process that loses a race comes up when it is started again, unless   *)
(* some process stopped between applying and recording a migration: then   *)
(* every later start may fail for ever (Migrate has no transaction).       *)
(***************************************************************************)
StartsUnlessOrphaned ==
    \A p \in Processes :
        (pc[p] = "ensure") ~>
            (pc[p] \in {"serving", "migrated"} \/ orphaned # {})
=============================================================================
