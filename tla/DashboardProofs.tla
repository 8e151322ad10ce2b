--------------------------- MODULE DashboardProofs ---------------------------
(***************************************************************************)
(* Theorems of Dashboard, for every number of events, tenants and rows per *)
(* COPY, every window and every number of failing queries.                 *)
(***************************************************************************)
EXTENDS Dashboard, SequenceTheorems, TLAPS

(***************************************************************************)
(* There are four queries.                                                 *)
(***************************************************************************)
LEMMA FourQueries ==
    Positions = 1..4 /\ Len(Sections) = 4
BY DEF Positions, Sections

Typed ==
    /\ TypeOK
    /\ pending \in Seq(Events)
    /\ rows \in Seq(Events)

(***************************************************************************)
(* What a lot of the queue does to the two sequences.                      *)
(***************************************************************************)
LEMMA LotLeaves ==
    ASSUME NEW p \in Seq(Events), NEW r \in Seq(Events),
           NEW n \in Nat \ {0}, n <= Len(p)
    PROVE  /\ SubSeq(p, n + 1, Len(p)) \in Seq(Events)
           /\ SubSeq(p, 1, n) \in Seq(Events)
           /\ r \o SubSeq(p, 1, n) \in Seq(Events)
           /\ Range(SubSeq(p, n + 1, Len(p))) \subseteq Range(p)
           /\ Range(SubSeq(p, 1, n)) \subseteq Range(p)
           /\ Range(r \o SubSeq(p, 1, n)) = Range(r) \cup Range(SubSeq(p, 1, n))
<1> DEFINE lot == SubSeq(p, 1, n)
           rest == SubSeq(p, n + 1, Len(p))
<1>1. Len(p) \in Nat /\ \A i \in 1..Len(p) : p[i] \in Events
  BY ElementOfSeq, LenProperties
<1>2. /\ lot \in Seq(Events) /\ Len(lot) = n
      /\ \A i \in 1..n : lot[i] = p[i]
  BY <1>1, SubSeqProperties
<1>3. /\ rest \in Seq(Events)
      /\ Len(rest) = Len(p) - n
      /\ \A i \in 1..(Len(p) - n) : rest[i] = p[n + i]
  BY <1>1, SubSeqProperties
<1>4. Range(lot) \subseteq Range(p)
  BY <1>1, <1>2, LenProperties DEF Range
<1>5. Range(rest) \subseteq Range(p)
  BY <1>1, <1>3, LenProperties DEF Range
<1>6. r \o lot \in Seq(Events) /\ Range(r \o lot) = Range(r) \cup Range(lot)
  BY <1>2, ConcatProperties, RangeConcatenation
<1> QED
  BY <1>2, <1>3, <1>4, <1>5, <1>6

(***************************************************************************)
(* What is appended is all that is new.                                    *)
(***************************************************************************)
LEMMA AppendLot ==
    ASSUME NEW p \in Seq(Events), NEW e \in Events
    PROVE  Append(p, e) \in Seq(Events) /\ Range(Append(p, e)) = Range(p) \cup {e}
<1>1. Append(p, e) = p \o <<e>> /\ <<e>> \in Seq(Events)
  BY AppendIsConcat
<1>2. Range(<<e>>) = {e}
  BY DEF Range
<1>3. Range(p \o <<e>>) = Range(p) \cup Range(<<e>>)
  BY <1>1, RangeConcatenation
<1> QED
  BY <1>1, <1>2, <1>3

(***************************************************************************)
(* What a COPY does, either way.                                           *)
(***************************************************************************)
LEMMA CopyLeaves ==
    ASSUME Typed, NEW n \in 1..BatchSize, Copy(n)
    PROVE  /\ pending' \in Seq(Events) /\ rows' \in Seq(Events)
           /\ Range(pending') \subseteq Range(pending)
           /\ Rows \subseteq Rows'
           /\ Rows' \subseteq Rows \cup Range(pending)
           /\ \A e \in Rows' \ Rows : TenantOf[e] \in tenants
<1> DEFINE lot == SubSeq(pending, 1, n)
<1>1. /\ n \in Nat \ {0} /\ n <= Len(pending)
      /\ pending' = SubSeq(pending, n + 1, Len(pending))
      /\ rows' \in {rows, rows \o lot}
      /\ rows' # rows => Accepts(lot)
  BY DashboardAssumption DEF Copy, Queue!Leave
<1>2. /\ pending' \in Seq(Events) /\ lot \in Seq(Events)
      /\ rows \o lot \in Seq(Events)
      /\ Range(pending') \subseteq Range(pending)
      /\ Range(lot) \subseteq Range(pending)
      /\ Range(rows \o lot) = Range(rows) \cup Range(lot)
  BY <1>1, LotLeaves DEF Typed
<1>3. CASE rows' = rows
  BY <1>2, <1>3 DEF Typed, Rows
<1>4. CASE rows' = rows \o lot /\ rows' # rows
  <2>1. \A e \in Range(lot) : TenantOf[e] \in tenants
    BY <1>1, <1>4 DEF Accepts, Range
  <2> QED
    BY <1>2, <1>4, <2>1 DEF Rows
<1> QED
  BY <1>1, <1>3, <1>4

(***************************************************************************)
(* Every step keeps the types: no query is run beyond the last, and only   *)
(* recorded events reach the table.                                        *)
(***************************************************************************)
LEMMA TypedNext ==
    ASSUME Typed, [Next]_vars
    PROVE  Typed'
<1> USE DashboardAssumption, FourQueries DEF Typed, TypeOK, tableVars, streamVars, summaryVars
<1>0. Nothing \in [Positions -> SUBSET Events]
  BY DEF Nothing
<1>1. ASSUME NEW e \in Events, Record(e)
      PROVE  Typed'
  <2>1. /\ created' \in [Events -> 0..(MaxTime + 1)]
        /\ Recorded' = Recorded \cup {e}
    BY <1>1 DEF Record, Recorded
  <2>2. pending' \in Seq(Events) /\ Range(pending') = Range(pending) \cup {e}
    <3>1. pending' = Append(pending, e)
      BY <1>1 DEF Record
    <3> QED
      BY <3>1, AppendLot
  <2> QED
    BY <1>1, <2>1, <2>2 DEF Record, Rows
<1>2. ASSUME NEW n \in 1..BatchSize, Copy(n)
      PROVE  Typed'
  <2>1. Recorded' = Recorded
    BY <1>2 DEF Copy, Recorded
  <2> QED
    BY <1>2, <2>1, CopyLeaves DEF Copy
<1>3. ASSUME NEW t \in Tenants, Revoke(t)
      PROVE  Typed'
  BY <1>3 DEF Revoke, Recorded, Rows
<1>4. CASE Advance
  BY <1>4 DEF Advance, Recorded, Rows
<1>5. ASSUME HandlerReturns, UNCHANGED <<clock, errors, tableVars>>,
             server' \in {"up", "closing", "overdue", "draining", "down"}
      PROVE  Typed'
  <2>1. Recorded' = Recorded /\ Rows' = Rows
    BY <1>5 DEF Recorded, Rows
  <2>2. viewer' = "off" /\ live' = FALSE /\ gone' = FALSE
    BY <1>5 DEF HandlerReturns
  <2>3. asked' = 0 /\ at' = 1 /\ view' = Nothing /\ shown' = Nothing /\ before' = {}
    BY <1>5 DEF HandlerReturns, SummaryOver
  <2>4. live' \in BOOLEAN /\ gone' \in BOOLEAN
    BY <2>2
  <2>5. asked' \in 0..clock' /\ at' \in Positions
    BY <1>5, <2>3
  <2> QED
    BY <1>0, <1>5, <2>1, <2>2, <2>3, <2>4, <2>5
<1>6. ASSUME Begin, UNCHANGED <<clock, server, errors, tableVars, gone, shown>>,
             live' \in BOOLEAN
      PROVE  Typed'
  BY <1>0, <1>6 DEF Begin, Recorded, Rows
<1>7. CASE Connect \/ TickCase
  BY <1>6, <1>7 DEF Connect, TickCase
<1>8. CASE Query
  <2>1. Found(Sections[at]) \subseteq Events
    BY DEF Found, Recorded, Rows
  <2>2. view' \in [Positions -> SUBSET Events]
    BY <1>8, <2>1 DEF Query
  <2>3. at' \in Positions /\ viewer' \in {"query", "write"}
    BY <1>8 DEF Query, HasNext
  <2> QED
    BY <1>8, <2>2, <2>3 DEF Query, Recorded, Rows
<1>9. CASE QueryFails
  <2>1. errors' \in 0..MaxErrors
    BY <1>9 DEF QueryFails
  <2>2. CASE HandlerReturns
    <3>1. Recorded' = Recorded /\ Rows' = Rows
      BY <1>9 DEF QueryFails, Recorded, Rows
    <3>2. viewer' = "off" /\ live' = FALSE /\ gone' = FALSE
      BY <2>2 DEF HandlerReturns
    <3>3. asked' = 0 /\ at' = 1 /\ view' = Nothing /\ shown' = Nothing /\ before' = {}
      BY <2>2 DEF HandlerReturns, SummaryOver
    <3>4. live' \in BOOLEAN /\ gone' \in BOOLEAN
      BY <3>2
    <3>5. clock' = clock /\ server' = server /\ UNCHANGED tableVars
      BY <1>9 DEF QueryFails
    <3>6. asked' \in 0..clock' /\ at' \in Positions
      BY <3>3, <3>5
    <3> QED
      BY <1>0, <2>1, <3>1, <3>2, <3>3, <3>4, <3>5, <3>6
  <2>3. CASE viewer' = "select" /\ SummaryOver /\ UNCHANGED streamVars
    BY <1>0, <1>9, <2>1, <2>3 DEF QueryFails, SummaryOver, Recorded, Rows
  <2> QED
    BY <1>9, <2>2, <2>3 DEF QueryFails, AfterError
<1>10. CASE Write
  <2>1. CASE HandlerReturns
    BY <1>5, <1>10, <2>1 DEF Write
  <2>2. CASE viewer' = "select" /\ shown' = view /\ SummaryOver /\ UNCHANGED <<live, gone>>
    BY <1>0, <1>10, <2>2 DEF Write, SummaryOver, Recorded, Rows
  <2> QED
    BY <1>10, <2>1, <2>2 DEF Write
<1>11. CASE WriteFails \/ DoneCase \/ Exit
  BY <1>5, <1>11 DEF WriteFails, DoneCase, Exit
<1>12. CASE Leave \/ Shutdown \/ DeadlinePasses \/ ClosePool \/ Finished \/ UNCHANGED vars
  BY <1>12 DEF Leave, Shutdown, DeadlinePasses, ClosePool, Finished, vars, Recorded, Rows
<1> QED
  BY <1>1, <1>2, <1>3, <1>4, <1>7, <1>8, <1>9, <1>10, <1>11, <1>12 DEF Next, HandlerStep

(***************************************************************************)
(* The first state has the types.                                          *)
(***************************************************************************)
LEMMA TypedInit ==
    Init => Typed
<1> SUFFICES ASSUME Init PROVE Typed
  OBVIOUS
<1> USE DashboardAssumption, FourQueries
<1>1. << >> \in Seq(Events) /\ Range(<< >>) = {}
  BY DEF Range
<1>2. Nothing \in [Positions -> SUBSET Events]
  BY DEF Nothing
<1>3. /\ pending \in Seq(Events) /\ rows \in Seq(Events)
      /\ Range(pending) \cup Rows \subseteq Recorded
  BY <1>1 DEF Init, Rows
<1>4. live \in BOOLEAN /\ gone \in BOOLEAN
  BY DEF Init
<1>5. /\ view \in [Positions -> SUBSET Events]
      /\ shown \in [Positions -> SUBSET Events]
  BY <1>2 DEF Init
<1>6. created \in [Events -> 0..(MaxTime + 1)] /\ clock \in 0..MaxTime
  BY DEF Init
<1>7. /\ tenants \subseteq Tenants /\ before \subseteq Events
      /\ asked \in 0..clock /\ at \in Positions /\ errors \in 0..MaxErrors
  BY DEF Init
<1>8. viewer = "off" /\ server = "up"
  BY DEF Init
<1> QED
  BY <1>3, <1>4, <1>5, <1>6, <1>7, <1>8 DEF Typed, TypeOK

(***************************************************************************)
(* No query is run beyond the fourth and only recorded events reach the    *)
(* table (Summarize, PGSink.Write).                                        *)
(***************************************************************************)
THEOREM TypeCorrect == Spec => []TypeOK
<1>1. Typed => TypeOK
  BY DEF Typed
<1> QED
  BY <1>1, TypedInit, TypedNext, PTL DEF Spec

-----------------------------------------------------------------------------
(* A row's tenant stays while the row does. *)

Intact == \A e \in Rows : TenantOf[e] \in tenants

(***************************************************************************)
(* The foreign key keeps every row joined to its tenant.                   *)
(***************************************************************************)
LEMMA IntactNext ==
    ASSUME Typed, Intact, [Next]_vars
    PROVE  Intact' /\ Rows \subseteq Rows'
<1> USE DEF tableVars, Intact
<1>1. ASSUME NEW e \in Events, Record(e)
      PROVE  Intact' /\ Rows' = Rows
  BY <1>1 DEF Record, Rows
<1>2. ASSUME NEW n \in 1..BatchSize, Copy(n)
      PROVE  Intact' /\ Rows \subseteq Rows'
  <2>1. tenants' = tenants
    BY <1>2 DEF Copy
  <2> QED
    BY <1>2, <2>1, CopyLeaves
<1>3. ASSUME NEW t \in Tenants, Revoke(t)
      PROVE  Intact' /\ Rows' = Rows
  BY <1>3 DEF Revoke, Referenced, Rows
<1>4. CASE UNCHANGED tableVars
  BY <1>4 DEF Rows
<1>5. CASE Advance \/ Connect \/ Leave \/ HandlerStep \/ Shutdown \/ DeadlinePasses \/ ClosePool \/ Exit
           \/ Finished \/ UNCHANGED vars
  BY <1>4, <1>5 DEF Advance, Connect, Leave, HandlerStep, Query, QueryFails, Write, WriteFails,
     TickCase, DoneCase, Shutdown, DeadlinePasses, ClosePool, Exit, Finished, vars
<1> QED
  BY <1>1, <1>2, <1>3, <1>5 DEF Next

(***************************************************************************)
(* What a summary under way, and the one before it, are worth.             *)
(***************************************************************************)
Idle == viewer \notin {"query", "write"} => at = 1

FromTable ==
    /\ before \subseteq Rows
    /\ \A e \in before : InWindow(e, asked)
    /\ \A i \in Positions : shown[i] \subseteq Rows

Grown ==
    \A i \in Read :
        /\ before \subseteq view[i]
        /\ \A j \in 1..(i - 1) : view[j] \subseteq view[i]
        /\ view[i] \subseteq Rows
        /\ \A e \in view[i] : InWindow(e, asked)

Kept ==
    viewer \in {"query", "write"} =>
        \A i \in Positions : \A e \in shown[i] : InWindow(e, asked) => e \in before

Sound == Idle /\ FromTable /\ Grown /\ Kept
SummaryInv == Typed /\ Intact /\ Sound

(***************************************************************************)
(* While the summary stands still, growing tables do it no harm.           *)
(***************************************************************************)
LEMMA StandsStill ==
    ASSUME SummaryInv, UNCHANGED <<viewer, shown, summaryVars>>, Rows \subseteq Rows',
           \A e \in Rows : created'[e] = created[e]
    PROVE  Sound'
<1>1. UNCHANGED <<viewer, shown, asked, at, view, before>>
  BY DEF summaryVars
<1>2. \A e \in Rows : InWindow(e, asked)' <=> InWindow(e, asked)
  BY <1>1 DEF InWindow
<1>3. Read' = Read /\ Read \subseteq Positions
  BY <1>1, FourQueries DEF Read, SummaryInv, Typed, TypeOK
<1>4. Idle'
  BY <1>1 DEF SummaryInv, Sound, Idle
<1>5. FromTable'
  BY <1>1, <1>2 DEF SummaryInv, Sound, FromTable
<1>6. Grown'
  BY <1>1, <1>2, <1>3 DEF SummaryInv, Sound, Grown
<1>7. Kept'
  BY <1>1, <1>2 DEF SummaryInv, Sound, Kept, FromTable
<1> QED
  BY <1>4, <1>5, <1>6, <1>7 DEF Sound

(***************************************************************************)
(* A summary begins with all rows of its window, the shown ones too.       *)
(***************************************************************************)
LEMMA Begins ==
    ASSUME SummaryInv, Begin, UNCHANGED <<shown, tableVars>>
    PROVE  Sound'
<1>1. /\ viewer' = "query" /\ at' = 1 /\ asked' = clock
      /\ before' = {e \in Rows : InWindow(e, clock)}
  BY DEF Begin
<1>2. Rows' = Rows /\ \A e \in Rows : InWindow(e, asked)' <=> InWindow(e, clock)
  BY <1>1 DEF Rows, tableVars, InWindow
<1>3. Read' = {}
  BY <1>1 DEF Read
<1>4. Idle' /\ Grown'
  BY <1>1, <1>3 DEF Idle, Grown
<1>5. FromTable' /\ Kept'
  BY <1>1, <1>2 DEF SummaryInv, Sound, FromTable, Kept
<1> QED
  BY <1>4, <1>5 DEF Sound

(***************************************************************************)
(* When it is over, nothing of it is left but what was shown.              *)
(***************************************************************************)
LEMMA Ends ==
    ASSUME SummaryInv, SummaryOver, viewer' \in {"off", "select"}, UNCHANGED tableVars,
           \A i \in Positions : shown'[i] \subseteq Rows
    PROVE  Sound'
<1>1. at' = 1 /\ before' = {} /\ Rows' = Rows
  BY DEF SummaryOver, tableVars, Rows
<1>2. Read' = {}
  BY <1>1 DEF Read
<1> QED
  BY <1>1, <1>2 DEF Sound, Idle, FromTable, Grown, Kept

(***************************************************************************)
(* A query finds what was found before it, and the joins lose nothing.     *)
(***************************************************************************)
LEMMA QueryFinds ==
    ASSUME SummaryInv, Query
    PROVE  Sound'
<1> USE FourQueries DEF SummaryInv, Sound
<1>1. /\ viewer = "query" /\ at \in 1..4
      /\ view' = [view EXCEPT ![at] = Found(Sections[at])]
      /\ UNCHANGED <<asked, before, shown, rows, created>>
  BY DEF Query, tableVars, streamVars, Typed, TypeOK
<1>2. Rows' = Rows /\ \A e : InWindow(e, asked)' <=> InWindow(e, asked)
  BY <1>1 DEF Rows, InWindow
<1>3. Found(Sections[at]) = {e \in Rows : InWindow(e, asked)}
  BY DEF Found, Since, Intact
<1>4. DOMAIN view = 1..4
  BY DEF Typed, TypeOK
<1>5. /\ view'[at] = {e \in Rows : InWindow(e, asked)}
      /\ \A i \in 1..4 : i # at => view'[i] = view[i]
  BY <1>1, <1>3, <1>4
<1>6. Read = 1..(at - 1)
  BY <1>1 DEF Read
<1>7. Read' = 1..at
  <2>1. CASE HasNext
    BY <1>1, <2>1 DEF Read, Query
  <2>2. CASE ~HasNext
    BY <1>1, <2>2 DEF Read, Query, HasNext
  <2> QED
    BY <2>1, <2>2
<1>8. viewer' \in {"query", "write"}
  BY DEF Query
<1>9. before \subseteq view'[at]
  BY <1>5 DEF FromTable
<1>10. Grown'
  <2> SUFFICES ASSUME NEW i \in 1..at
               PROVE  /\ before \subseteq view'[i]
                      /\ \A j \in 1..(i - 1) : view'[j] \subseteq view'[i]
                      /\ view'[i] \subseteq Rows
                      /\ \A e \in view'[i] : InWindow(e, asked)
    BY <1>1, <1>2, <1>7 DEF Grown
  <2>1. CASE i = at
    <3>1. \A j \in 1..(at - 1) : view'[j] = view[j] /\ view[j] \subseteq view'[at]
      BY <1>1, <1>5, <1>6 DEF Grown
    <3> QED
      BY <1>5, <1>9, <2>1, <3>1
  <2>2. CASE i # at
    <3>1. i \in 1..(at - 1) /\ i \in 1..4
      BY <1>1, <2>2
    <3>2. view'[i] = view[i] /\ \A j \in 1..(i - 1) : view'[j] = view[j]
      BY <1>1, <1>5, <3>1
    <3> QED
      BY <1>6, <3>1, <3>2 DEF Grown
  <2> QED
    BY <2>1, <2>2
<1>11. Idle' /\ FromTable' /\ Kept'
  BY <1>1, <1>2, <1>8 DEF Idle, FromTable, Kept
<1> QED
  BY <1>10, <1>11

(***************************************************************************)
(* Every step keeps what summaries are worth.                              *)
(***************************************************************************)
LEMMA SummaryInvNext ==
    ASSUME SummaryInv, [Next]_vars
    PROVE  SummaryInv'
<1>1. Typed' /\ Intact' /\ Rows \subseteq Rows'
  BY TypedNext, IntactNext DEF SummaryInv
<1> SUFFICES Sound'
  BY <1>1 DEF SummaryInv
<1>2. Rows \subseteq Recorded
  BY DEF SummaryInv, Typed, TypeOK
<1>3. ASSUME NEW e \in Events, Record(e)
      PROVE  Sound'
  <2>1. UNCHANGED <<viewer, shown, summaryVars>>
    BY <1>3 DEF Record, streamVars
  <2>2. \A f \in Rows : created'[f] = created[f]
    BY <1>2, <1>3 DEF Record, SummaryInv, Typed, TypeOK, Recorded
  <2> QED
    BY <1>1, <2>1, <2>2, StandsStill
<1>4. CASE \/ \E n \in 1..BatchSize : Copy(n)
           \/ \E t \in Tenants : Revoke(t)
           \/ Advance \/ Leave \/ Shutdown \/ DeadlinePasses \/ ClosePool \/ Finished \/ UNCHANGED vars
  <2>1. UNCHANGED <<viewer, shown, created, summaryVars>>
    BY <1>4 DEF Copy, Revoke, Advance, Leave, Shutdown, DeadlinePasses, ClosePool, Finished, vars,
       tableVars, streamVars
  <2> QED
    BY <1>1, <2>1, StandsStill
<1>5. CASE Connect \/ TickCase
  <2>1. Begin /\ UNCHANGED <<shown, tableVars>>
    BY <1>5 DEF Connect, TickCase, streamVars
  <2> QED
    BY <2>1, Begins
<1>6. CASE Query
  BY <1>6, QueryFinds
<1>7. ASSUME HandlerReturns, UNCHANGED tableVars
      PROVE  Sound'
  <2>1. \A i \in Positions : shown'[i] \subseteq Rows
    BY <1>7 DEF HandlerReturns, Nothing
  <2> QED
    BY <1>7, <2>1, Ends DEF HandlerReturns
<1>8. CASE QueryFails
  <2>1. CASE viewer' = "select" /\ SummaryOver /\ UNCHANGED streamVars
    BY <1>8, <2>1, Ends DEF QueryFails, streamVars, SummaryInv, Sound, FromTable
  <2> QED
    BY <1>7, <1>8, <2>1 DEF QueryFails, AfterError
<1>9. CASE Write
  <2>1. CASE viewer' = "select" /\ shown' = view /\ SummaryOver
    <3>1. \A i \in Positions : view[i] \subseteq Rows
      BY <1>9 DEF Write, SummaryInv, Sound, Grown, Read
    <3> QED
      BY <1>9, <2>1, <3>1, Ends DEF Write
  <2> QED
    BY <1>7, <1>9, <2>1 DEF Write
<1>10. CASE WriteFails \/ DoneCase \/ Exit
  BY <1>7, <1>10 DEF WriteFails, DoneCase, Exit
<1> QED
  BY <1>3, <1>4, <1>5, <1>6, <1>8, <1>9, <1>10 DEF Next, HandlerStep

(***************************************************************************)
(* The invariant holds at first and is kept.                               *)
(***************************************************************************)
LEMMA SummaryInvariant == Spec => []SummaryInv
<1>1. Init => SummaryInv
  <2> SUFFICES ASSUME Init PROVE SummaryInv
    OBVIOUS
  <2>1. viewer = "off" /\ at = 1 /\ before = {} /\ shown = Nothing
    BY DEF Init
  <2>2. rows = << >>
    BY DEF Init
  <2>3. Rows = {}
    BY <2>2 DEF Rows, Range
  <2>4. Read = {}
    BY <2>1 DEF Read
  <2>5. Sound
    BY <2>1, <2>3, <2>4 DEF Sound, Idle, FromTable, Grown, Kept, Nothing
  <2> QED
    BY <2>3, <2>5, TypedInit DEF SummaryInv, Intact
<1> QED
  BY <1>1, SummaryInvNext, PTL DEF Spec

(***************************************************************************)
(* A summary has all rows of the window the table had when it was begun,   *)
(* section after section, and none the table has not (Summarize).          *)
(***************************************************************************)
THEOREM SummariesNotTorn == Spec => []SummaryNotTorn
<1>1. SummaryInv => SummaryNotTorn
  BY DEF SummaryInv, Sound, Grown, SummaryNotTorn
<1> QED
  BY <1>1, SummaryInvariant, PTL

(***************************************************************************)
(* What a live viewer was shown stays while it is in the window            *)
(* (liveHandler).                                                          *)
(***************************************************************************)
THEOREM ShownStays == Spec => []NothingVanishes
<1>1. SummaryInv => NothingVanishes
  BY DEF SummaryInv, Sound, Kept, Grown, Read, NothingVanishes
<1> QED
  BY <1>1, SummaryInvariant, PTL
=============================================================================
