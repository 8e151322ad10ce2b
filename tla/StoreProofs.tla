---------------------------- MODULE StoreProofs -----------------------------
(***************************************************************************)
(* Theorems of Store, for every number of processes, migrations and stops. *)
(***************************************************************************)
EXTENDS Store, SequenceTheorems, TLAPS

(***************************************************************************)
(* Types are inductive as they stand: a loop that has not ended is at a    *)
(* migration, and only such a loop applies or records one.                 *)
(***************************************************************************)
AtMigration ==
    \A p \in Processes : pc[p] \in {"apply", "record"} => at[p] \in Migrations

Typed == TypeOK /\ AtMigration

(***************************************************************************)
(* No statement of a start, and no stop, breaks a type (Store.Migrate).    *)
(***************************************************************************)
LEMMA TypedNext ==
    ASSUME Typed, [Next]_vars
    PROVE  Typed'
<1> USE StoreAssumption DEF Typed, AtMigration, Migrations
<1>1. ASSUME NEW p \in Processes, Start(p)
      PROVE  Typed'
  <2>1. TypeOK'
    BY <1>1 DEF Start, TypeOK, Running
  <2> QED
    BY <1>1, <2>1 DEF TypeOK, Start
<1>2. ASSUME NEW p \in Processes, Ensure(p)
      PROVE  Typed'
  <2>1. TypeOK'
    BY <1>2 DEF Ensure, TypeOK, Running
  <2> QED
    BY <1>2, <2>1 DEF TypeOK, Ensure
<1>3. ASSUME NEW p \in Processes, Create(p)
      PROVE  Typed'
  <2>1. TypeOK'
    BY <1>3 DEF Create, TypeOK, Running
  <2> QED
    BY <1>3, <2>1 DEF TypeOK, Create
<1>4. ASSUME NEW p \in Processes, Check(p)
      PROVE  Typed'
  <2>1. at[p] \in 1..Last
    BY <1>4 DEF Check, LoopEnds, TypeOK
  <2>2. CASE at[p] \in recorded
    <3>1. at' = [at EXCEPT ![p] = at[p] + 1] /\ UNCHANGED pc
      BY <1>4, <2>2 DEF Check
    <3>2. at' \in [Processes -> 1..(Last + 1)]
      BY <2>1, <3>1 DEF TypeOK
    <3> QED
      BY <1>4, <3>1, <3>2 DEF Check, TypeOK, Running
  <2>3. CASE at[p] \notin recorded
    BY <1>4, <2>1, <2>3 DEF Check, TypeOK, Running
  <2> QED
    BY <2>2, <2>3
<1>5. ASSUME NEW p \in Processes, Apply(p)
      PROVE  Typed'
  <2>1. at[p] \in 1..Last
    BY <1>5 DEF Apply
  <2>2. schema' \in Seq(1..Last)
    BY <1>5, <2>1, AppendProperties DEF Apply, TypeOK
  <2>3. TypeOK'
    BY <1>5, <2>1, <2>2 DEF Apply, TypeOK, Running
  <2> QED
    BY <1>5, <2>3, <2>1, <2>2 DEF TypeOK, Apply
<1>6. ASSUME NEW p \in Processes, ApplyFails(p)
      PROVE  Typed'
  <2>1. TypeOK'
    BY <1>6 DEF ApplyFails, TypeOK, Running
  <2> QED
    BY <1>6, <2>1 DEF TypeOK, ApplyFails
<1>7. ASSUME NEW p \in Processes, Record(p)
      PROVE  Typed'
  <2>1. at[p] \in 1..Last
    BY <1>7 DEF Record
  <2>2. at' \in [Processes -> 1..(Last + 1)]
    BY <1>7, <2>1 DEF Record, TypeOK
  <2>3. recorded' \subseteq 1..Last
    BY <1>7, <2>1 DEF Record, Insert, TypeOK
  <2>4. TypeOK'
    BY <1>7, <2>2, <2>3 DEF Record, TypeOK, Running
  <2> QED
    BY <1>7, <2>4, <2>1 DEF TypeOK, Record, Insert
<1>8. ASSUME NEW p \in Processes, Migrated(p)
      PROVE  Typed'
  <2>1. TypeOK'
    BY <1>8 DEF Migrated, TypeOK, Running
  <2> QED
    BY <1>8, <2>1 DEF TypeOK, Migrated
<1>9. ASSUME NEW p \in Processes, Seed(p)
      PROVE  Typed'
  <2>1. TypeOK'
    BY <1>9 DEF Seed, TypeOK, Running
  <2> QED
    BY <1>9, <2>1 DEF TypeOK, Seed
<1>10. ASSUME NEW p \in Processes, Stop(p)
      PROVE  Typed'
  <2>1. pc[p] = "record" => at[p] \in 1..Last
    OBVIOUS
  <2>2. orphaned' \subseteq 1..Last
    BY <1>10, <2>1 DEF Stop, TypeOK
  <2>3. stops' \in 0..MaxStops
    BY <1>10 DEF Stop, TypeOK
  <2>4. TypeOK'
    BY <1>10, <2>2, <2>3 DEF Stop, TypeOK, Running
  <2> QED
    BY <1>10, <2>4, <2>1 DEF TypeOK, Stop
<1>11. CASE UNCHANGED vars
  BY <1>11 DEF vars, TypeOK
<1> QED
  BY <1>1, <1>2, <1>3, <1>4, <1>5, <1>6, <1>7, <1>8, <1>9, <1>10, <1>11
     DEF Next, Step, Up

(***************************************************************************)
(* Init is well typed.                                                     *)
(***************************************************************************)
LEMMA TypedInit ==
    Init => Typed
<1> SUFFICES ASSUME Init PROVE Typed
  OBVIOUS
<1>1. schema \in Seq(Migrations)
  BY DEF Init
<1>2. at \in [Processes -> 1..(Last + 1)] /\ stops \in 0..MaxStops
  BY StoreAssumption DEF Init
<1>3. pc \in [Processes -> {"off"}]
  BY DEF Init
<1> QED
  BY <1>1, <1>2, <1>3 DEF Init, Typed, TypeOK, AtMigration

(***************************************************************************)
(* Every reachable state is well typed: no process ever looks up, applies  *)
(* or records a migration that does not exist (Store.Migrate's loop).      *)
(***************************************************************************)
THEOREM TypeCorrect == Spec => []TypeOK
<1>1. Spec => []Typed
  BY TypedInit, TypedNext, PTL DEF Spec
<1>2. Typed => TypeOK
  BY DEF Typed
<1> QED
  BY <1>1, <1>2, PTL

-----------------------------------------------------------------------------
(***************************************************************************)
(* Why the ledger lags by at most one.  A process has seen every earlier   *)
(* migration recorded, so it can apply only the next one, and only when    *)
(* none awaits its recording; the one process that may record is the one   *)
(* that applied the newest.                                                *)
(***************************************************************************)
InMigrate == {"ensure", "create", "check", "apply", "record"}

Seen ==
    \A p \in Processes : pc[p] \in InMigrate => 1..(at[p] - 1) \subseteq recorded

HoldsNewest ==
    \A p \in Processes :
        pc[p] = "record" => at[p] = Len(schema) /\ recorded = 1..(Len(schema) - 1)

OneRecords ==
    \A p, q \in Processes : pc[p] = "record" /\ pc[q] = "record" => p = q

Complete ==
    \A p \in Processes :
        pc[p] \in {"seed", "serving", "migrated"} => Migrations \subseteq recorded

OneAtATime == LedgerLagsByOne /\ Seen /\ HoldsNewest /\ OneRecords /\ Complete

(***************************************************************************)
(* A migration a process finds unapplied is the next one, and every other  *)
(* is recorded (Migrate's check before each application).                  *)
(***************************************************************************)
LEMMA AppliesNext ==
    ASSUME Typed, OneAtATime, NEW p \in Processes, pc[p] = "apply", ~Applied(at[p])
    PROVE  at[p] = Len(schema) + 1 /\ recorded = 1..Len(schema)
<1>1. at[p] \in 1..Last /\ Len(schema) \in Nat
  BY LenProperties DEF Typed, TypeOK, AtMigration, Migrations
<1>2. DOMAIN schema = 1..Len(schema) /\ \A i \in 1..Len(schema) : schema[i] = i
  BY LenProperties DEF Typed, TypeOK, OneAtATime, LedgerLagsByOne
<1>3. at[p] \notin 1..Len(schema)
  BY <1>1, <1>2 DEF Applied
<1>4. recorded \subseteq 1..Len(schema)
  BY <1>1 DEF OneAtATime, LedgerLagsByOne
<1>5. 1..(at[p] - 1) \subseteq recorded
  BY DEF OneAtATime, Seen, InMigrate
<1>6. at[p] - 1 <= Len(schema)
  <2> SUFFICES ASSUME at[p] - 1 > Len(schema) PROVE FALSE
    BY <1>1
  <2>1. at[p] - 1 \in 1..(at[p] - 1)
    BY <1>1
  <2> QED
    BY <1>1, <1>4, <1>5, <2>1
<1>7. at[p] = Len(schema) + 1
  BY <1>1, <1>3, <1>6
<1>8. 1..Len(schema) \subseteq recorded
  BY <1>1, <1>5, <1>7
<1> QED
  BY <1>4, <1>7, <1>8

(***************************************************************************)
(* A step that neither applies nor records keeps all this if the process   *)
(* that takes it has seen what its new place asks for (Store.Migrate).     *)
(***************************************************************************)
LEMMA QuietStep ==
    ASSUME Typed, OneAtATime, NEW p \in Processes, NEW place, NEW m,
           UNCHANGED <<schema, recorded>>,
           pc' = [pc EXCEPT ![p] = place], at' = [at EXCEPT ![p] = m],
           place # "record",
           place \in InMigrate => 1..(m - 1) \subseteq recorded,
           place \in {"seed", "serving", "migrated"} => Migrations \subseteq recorded
    PROVE  OneAtATime'
<1>1. /\ pc'[p] = place /\ at'[p] = m
      /\ \A q \in Processes \ {p} : pc'[q] = pc[q] /\ at'[q] = at[q]
  BY DEF Typed, TypeOK
<1>2. LedgerLagsByOne'
  BY DEF OneAtATime, LedgerLagsByOne
<1>3. Seen'
  BY <1>1 DEF OneAtATime, Seen, InMigrate
<1>4. HoldsNewest'
  BY <1>1 DEF OneAtATime, HoldsNewest
<1>5. OneRecords'
  BY <1>1 DEF OneAtATime, OneRecords
<1>6. Complete'
  BY <1>1 DEF OneAtATime, Complete, Migrations
<1> QED
  BY <1>2, <1>3, <1>4, <1>5, <1>6 DEF OneAtATime

(***************************************************************************)
(* Every statement of a start, and every stop, keeps it (Store.Migrate).   *)
(***************************************************************************)
LEMMA OneAtATimeNext ==
    ASSUME Typed, OneAtATime, [Next]_vars
    PROVE  OneAtATime'
<1>1. ASSUME NEW p \in Processes
      PROVE  at = [at EXCEPT ![p] = at[p]] /\ at[p] \in 1..(Last + 1)
  BY DEF Typed, TypeOK
<1>2. ASSUME NEW p \in Processes, Start(p)
      PROVE  OneAtATime'
  <2>1. 1..(1 - 1) \subseteq recorded
    OBVIOUS
  <2> QED
    BY <1>1, <1>2, <2>1, QuietStep DEF Start, OneAtATime, Seen, InMigrate
<1>3. ASSUME NEW p \in Processes, Ensure(p)
      PROVE  OneAtATime'
  <2> QED
    BY <1>1, <1>3, QuietStep DEF Ensure, OneAtATime, Seen, InMigrate
<1>4. ASSUME NEW p \in Processes, Create(p)
      PROVE  OneAtATime'
  <2> QED
    BY <1>1, <1>4, QuietStep DEF Create, OneAtATime, Seen, InMigrate
<1>5. ASSUME NEW p \in Processes, Check(p)
      PROVE  OneAtATime'
  <2>1. 1..(at[p] - 1) \subseteq recorded
    BY <1>5 DEF Check, OneAtATime, Seen, InMigrate
  <2>2. CASE at[p] \in recorded
    <3>1. 1..((at[p] + 1) - 1) \subseteq recorded
      BY <1>1, <2>1, <2>2
    <3>2. pc = [pc EXCEPT ![p] = "check"]
      BY <1>5 DEF Check, Typed, TypeOK
    <3> QED
      BY <1>5, <2>2, <3>1, <3>2, QuietStep DEF Check
  <2>3. CASE at[p] \notin recorded
    BY <1>1, <1>5, <2>1, <2>3, QuietStep DEF Check
  <2> QED
    BY <2>2, <2>3
<1>6. ASSUME NEW p \in Processes, Apply(p)
      PROVE  OneAtATime'
  <2> DEFINE n == Len(schema)
  <2>1. /\ at[p] = n + 1 /\ recorded = 1..n /\ n \in Nat
        /\ schema' = Append(schema, at[p]) /\ pc' = [pc EXCEPT ![p] = "record"]
        /\ UNCHANGED <<at, recorded>>
    BY <1>6, AppliesNext, LenProperties DEF Apply, Typed, TypeOK
  <2>2. /\ Len(schema') = n + 1
        /\ schema' = [i \in 1..(n + 1) |-> i]
    BY <1>6, <2>1, AppendProperties
       DEF Typed, TypeOK, OneAtATime, LedgerLagsByOne, AtMigration
  <2>3. \A q \in Processes : pc[q] # "record"
    <3> SUFFICES ASSUME NEW q \in Processes, pc[q] = "record" PROVE FALSE
      OBVIOUS
    <3>1. at[q] = n /\ recorded = 1..(n - 1) /\ at[q] \in 1..Last
      BY DEF OneAtATime, HoldsNewest, Typed, AtMigration, Migrations
    <3> QED
      BY <2>1, <3>1
  <2>4. LedgerLagsByOne'
    BY <2>1, <2>2 DEF LedgerLagsByOne
  <2>5. Seen'
    BY <1>6, <2>1 DEF OneAtATime, Seen, InMigrate, Typed, TypeOK, Apply
  <2>6. HoldsNewest' /\ OneRecords'
    BY <2>1, <2>2, <2>3 DEF HoldsNewest, OneRecords, Typed, TypeOK
  <2>7. Complete'
    BY <2>1 DEF OneAtATime, Complete, Migrations, Typed, TypeOK
  <2> QED
    BY <2>4, <2>5, <2>6, <2>7 DEF OneAtATime
<1>7. ASSUME NEW p \in Processes, ApplyFails(p)
      PROVE  OneAtATime'
  <2> QED
    BY <1>1, <1>7, QuietStep DEF ApplyFails, OneAtATime, Seen, InMigrate
<1>8. ASSUME NEW p \in Processes, Record(p)
      PROVE  OneAtATime'
  <2> DEFINE n == Len(schema)
  <2>1. /\ at[p] = n /\ n \in 1..Last /\ recorded = 1..(n - 1)
        /\ \A q \in Processes \ {p} : pc[q] # "record"
    BY <1>8 DEF Record, OneAtATime, HoldsNewest, OneRecords, Typed, AtMigration,
                Migrations
  <2>2. /\ recorded' = recorded \cup {n} /\ at' = [at EXCEPT ![p] = n + 1]
        /\ pc' = [pc EXCEPT ![p] = "check"] /\ UNCHANGED schema
    BY <1>8, <2>1 DEF Record, Insert
  <2>3. recorded' = 1..n
    BY <2>1, <2>2
  <2>4. LedgerLagsByOne'
    BY <2>2, <2>3 DEF OneAtATime, LedgerLagsByOne
  <2>5. Seen'
    BY <2>1, <2>2, <2>3 DEF OneAtATime, Seen, InMigrate, Typed, TypeOK
  <2>6. HoldsNewest' /\ OneRecords'
    BY <2>1, <2>2 DEF HoldsNewest, OneRecords, Typed, TypeOK
  <2>7. Complete'
    BY <2>2 DEF OneAtATime, Complete, Migrations, Typed, TypeOK
  <2> QED
    BY <2>4, <2>5, <2>6, <2>7 DEF OneAtATime
<1>9. ASSUME NEW p \in Processes, Migrated(p)
      PROVE  OneAtATime'
  <2>1. Migrations \subseteq recorded
    <3>1. 1..(at[p] - 1) \subseteq recorded
      BY <1>9 DEF Migrated, OneAtATime, Seen, InMigrate
    <3>2. at[p] - 1 = Last
      BY <1>1, <1>9, StoreAssumption DEF Migrated, LoopEnds
    <3> QED
      BY <3>1, <3>2 DEF Migrations
  <2> QED
    BY <1>1, <1>9, <2>1, QuietStep DEF Migrated, OneAtATime, Seen, InMigrate
<1>10. ASSUME NEW p \in Processes, Seed(p)
      PROVE  OneAtATime'
  <2> QED
    BY <1>1, <1>10, QuietStep DEF Seed, OneAtATime, Seen, InMigrate, Complete
<1>11. ASSUME NEW p \in Processes, Stop(p)
      PROVE  OneAtATime'
  <2> QED
    BY <1>1, <1>11, QuietStep DEF Stop, OneAtATime, Seen, InMigrate
<1>12. CASE UNCHANGED vars
  BY <1>12
     DEF vars, OneAtATime, LedgerLagsByOne, Seen, HoldsNewest, OneRecords, Complete,
         Migrations
<1> QED
  BY <1>2, <1>3, <1>4, <1>5, <1>6, <1>7, <1>8, <1>9, <1>10, <1>11, <1>12
     DEF Next, Step, Up

(***************************************************************************)
(* Before any process starts, nothing is applied and nothing recorded.     *)
(***************************************************************************)
LEMMA OneAtATimeInit ==
    Init => OneAtATime
<1> SUFFICES ASSUME Init PROVE OneAtATime
  OBVIOUS
<1>1. schema = <<>> /\ Len(schema) = 0 /\ recorded = {}
  BY DEF Init
<1>2. LedgerLagsByOne
  BY <1>1 DEF LedgerLagsByOne
<1>3. \A p \in Processes : pc[p] = "off"
  BY DEF Init
<1> QED
  BY <1>2, <1>3 DEF OneAtATime, Seen, InMigrate, HoldsNewest, OneRecords, Complete

(***************************************************************************)
(* The invariant of the two that follow.                                   *)
(***************************************************************************)
LEMMA AlwaysOneAtATime ==
    Spec => [](Typed /\ OneAtATime)
BY TypedInit, TypedNext, OneAtATimeInit, OneAtATimeNext, PTL DEF Spec

(***************************************************************************)
(* Whatever replicas race and wherever they stop, migrations take effect   *)
(* in order and once, and at most the newest is unrecorded (Store.Migrate).*)
(***************************************************************************)
THEOREM LedgerLags == Spec => []LedgerLagsByOne
<1>1. Typed /\ OneAtATime => LedgerLagsByOne
  BY DEF OneAtATime
<1> QED
  BY <1>1, AlwaysOneAtATime, PTL

(***************************************************************************)
(* No process serves, and no migrate job reports success, before every     *)
(* migration is applied and recorded (Store.Migrate, serve).               *)
(***************************************************************************)
THEOREM ServesOnlyMigrated == Spec => []ServesMigrated
<1>1. ASSUME Typed, OneAtATime PROVE ServesMigrated
  <2> SUFFICES ASSUME NEW p \in Processes, pc[p] \in {"seed", "serving", "migrated"}
               PROVE  Len(schema) = Last /\ recorded = Migrations
    BY DEF ServesMigrated
  <2>1. recorded = 1..Last
    BY <1>1 DEF Typed, TypeOK, OneAtATime, Complete, Migrations
  <2>2. /\ Len(schema) \in Nat
        /\ \A i \in 1..Len(schema) : schema[i] = i /\ schema[i] \in 1..Last
    <3>1. schema \in Seq(1..Last) /\ schema = [i \in 1..Len(schema) |-> i]
      BY <1>1 DEF Typed, TypeOK, OneAtATime, LedgerLagsByOne, Migrations
    <3>2. Len(schema) \in Nat /\ schema \in [1..Len(schema) -> 1..Last]
      BY <3>1, LenProperties
    <3> QED
      BY <3>1, <3>2
  <2>3. Len(schema) >= Last
    <3>1. Last \in 1..Len(schema) \/ Last \in 1..(Len(schema) - 1)
      <4>1. recorded = 1..Len(schema) \/ recorded = 1..(Len(schema) - 1)
        BY <1>1 DEF OneAtATime, LedgerLagsByOne
      <4>2. Last \in recorded
        BY <2>1, StoreAssumption
      <4> QED
        BY <4>1, <4>2
    <3> QED
      BY <2>2, <3>1, StoreAssumption
  <2>4. Len(schema) <= Last
    <3>1. Len(schema) \in 1..Len(schema)
      BY <2>2, <2>3, StoreAssumption
    <3> QED
      BY <2>2, <3>1, StoreAssumption
  <2> QED
    BY <2>1, <2>2, <2>3, <2>4, StoreAssumption DEF Migrations
<1> QED
  BY <1>1, AlwaysOneAtATime, PTL

=============================================================================
