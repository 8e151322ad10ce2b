------------------------------ MODULE Dashboard ------------------------------
(***************************************************************************)
(* The spend dashboard of internal/dashboard, reading the requests table   *)
(* while metering writers append to it and an operator revokes tenants.    *)
(*                                                                         *)
(* A summary is four queries, each with a snapshot of its own, over one    *)
(* window.  A section of a summary stands for the rows its sums range      *)
(* over.  Viewers only read, so one of them is enough: it asks for one     *)
(* summary, or follows the live stream.                                    *)
(***************************************************************************)
EXTENDS Naturals, Sequences, Functions

CONSTANTS
    Events,     \* metered requests
    Tenants,
    TenantOf,   \* the tenant of an event
    BatchSize,  \* rows per COPY
    Window,     \* the window a viewer asks for
    MaxTime,    \* bound on the clock
    MaxErrors   \* bound on the queries that fail

ASSUME DashboardAssumption ==
    /\ TenantOf \in [Events -> Tenants]
    /\ BatchSize \in Nat \ {0}
    /\ Window \in Nat
    /\ MaxTime \in Nat
    /\ MaxErrors \in Nat

\* The queries of Summarize, in their order; two of them join the tenants.
Sections == <<"total", "tenants", "features", "models">>
Joining == {"tenants", "features"}
Positions == DOMAIN Sections

VARIABLES
    clock,
    created,  \* created_at of each recorded event; MaxTime + 1 before
    pending,  \* events the metering writer has accepted
    rows,     \* the requests table
    tenants,  \* the tenants table
    server,   \* dashSrv: up, in Shutdown, past the deadline of that; the pool
              \* is being closed (draining); down
    viewer,   \* the handler: off, in a query, writing, in the select
    live,     \* it serves /api/live
    gone,     \* its client has left: r.Context() is done
    asked,    \* when the summary was begun
    at,       \* the query it has come to
    view,     \* what its queries found
    shown,    \* the last summary the viewer got
    before,   \* history: rows of the window when the summary was begun
    errors    \* queries that failed

tableVars == <<created, pending, rows, tenants>>
streamVars == <<live, gone, shown>>
summaryVars == <<asked, at, view, before>>
vars == <<clock, server, viewer, errors, tableVars, streamVars, summaryVars>>

Recorded == {e \in Events : created[e] <= MaxTime}
Rows == Range(rows)
Nothing == [i \in Positions |-> {}]

TypeOK ==
    /\ clock \in 0..MaxTime
    /\ created \in [Events -> 0..(MaxTime + 1)]
    /\ Range(pending) \cup Rows \subseteq Recorded
    /\ tenants \subseteq Tenants
    /\ server \in {"up", "closing", "overdue", "draining", "down"}
    /\ viewer \in {"off", "query", "write", "select"}
    /\ live \in BOOLEAN /\ gone \in BOOLEAN
    /\ asked \in 0..clock
    /\ at \in Positions
    /\ view \in [Positions -> SUBSET Events]
    /\ shown \in [Positions -> SUBSET Events]
    /\ before \subseteq Events
    /\ errors \in 0..MaxErrors

Init ==
    /\ clock = 0
    /\ created = [e \in Events |-> MaxTime + 1]
    /\ pending = <<>>
    /\ rows = <<>>
    /\ tenants = Tenants
    /\ server = "up"
    /\ viewer = "off"
    /\ live = FALSE /\ gone = FALSE
    /\ asked = 0
    /\ at = 1
    /\ view = Nothing
    /\ shown = Nothing
    /\ before = {}
    /\ errors = 0

-----------------------------------------------------------------------------
(* The tables.  The writer is the queue that module Meter implements. *)

Queue == INSTANCE EventQueue WITH
             queue <- pending, refused <- {}, BufferSize <- 0

\* Enqueue stamps the event; its tenant may be revoked and still cached.
Record(e) ==
    /\ e \notin Recorded
    /\ created' = [created EXCEPT ![e] = clock]
    /\ pending' = Append(pending, e)
    /\ UNCHANGED <<clock, server, viewer, errors, rows, tenants, streamVars, summaryVars>>

\* requests.tenant_id REFERENCES tenants(id)
Accepts(lot) == \A i \in DOMAIN lot : TenantOf[lot[i]] \in tenants

\* One COPY: a row the table refuses costs the whole lot, and so does any other
\* error of Postgres, or the deadline of the flush.
Copy(n) ==
    /\ Queue!Leave(n)
    /\ rows' # rows => Accepts(SubSeq(pending, 1, n))
    /\ UNCHANGED <<clock, server, viewer, errors, created, tenants, streamVars, summaryVars>>

\* Slip: no foreign key.
ReferencedNever(t) == FALSE
Referenced(t) == \E e \in Rows : TenantOf[e] = t

Revoke(t) ==
    /\ t \in tenants
    /\ ~Referenced(t)
    /\ tenants' = tenants \ {t}
    /\ UNCHANGED <<clock, server, viewer, errors, created, pending, rows, streamVars, summaryVars>>

Advance ==
    /\ clock < MaxTime
    /\ clock' = clock + 1
    /\ UNCHANGED <<server, viewer, errors, tableVars, streamVars, summaryVars>>

-----------------------------------------------------------------------------
(* Summarize. *)

InWindow(e, t) == created[e] + Window >= t

\* Summarize begins: since is computed once, from the clock.
Begin ==
    /\ viewer' = "query"
    /\ asked' = clock
    /\ at' = 1
    /\ view' = Nothing
    /\ before' = {e \in Rows : InWindow(e, clock)}

\* Slip: each query has a window of its own.
SinceNow == clock
Since == asked

Found(section) ==
    {e \in Rows : InWindow(e, Since) /\ (section \in Joining => TenantOf[e] \in tenants)}

\* Slip: one query too many.
HasNextOneMore == at <= Len(Sections)
HasNext == at < Len(Sections)

\* A query that has a connection may still end while the pool is closed; none
\* gets one then, so what it finds only matters if it is the last.
Query ==
    /\ viewer = "query"
    /\ ~gone
    /\ server = "draining" => ~HasNext
    /\ view' = [view EXCEPT ![at] = Found(Sections[at])]
    /\ IF HasNext
       THEN at' = at + 1 /\ UNCHANGED viewer
       ELSE viewer' = "write" /\ UNCHANGED at
    /\ UNCHANGED <<clock, server, errors, tableVars, streamVars, asked, before>>

SummaryOver ==
    /\ asked' = 0
    /\ at' = 1
    /\ view' = Nothing
    /\ before' = {}

HandlerReturns ==
    /\ viewer' = "off"
    /\ live' = FALSE /\ gone' = FALSE
    /\ shown' = Nothing
    /\ SummaryOver

\* Slip: a bad tick ends the stream.
AfterErrorReturn == HandlerReturns
AfterError ==
    IF live
    THEN viewer' = "select" /\ SummaryOver /\ UNCHANGED streamVars
    ELSE HandlerReturns

\* A query fails, at the latest because its context is done or the pool closed:
\* a status 500, or a tick that is skipped.
QueryFails ==
    /\ viewer = "query"
    /\ \/ (gone \/ server = "draining") /\ UNCHANGED errors
       \/ errors < MaxErrors /\ errors' = errors + 1
    /\ AfterError
    /\ UNCHANGED <<clock, server, tableVars>>

-----------------------------------------------------------------------------
(* summaryHandler and liveHandler. *)

Connect ==
    /\ viewer = "off"
    /\ server = "up"
    /\ live' \in BOOLEAN
    /\ Begin
    /\ UNCHANGED <<clock, server, errors, gone, shown, tableVars>>

Write ==
    /\ viewer = "write"
    /\ IF live
       THEN viewer' = "select" /\ shown' = view /\ SummaryOver /\ UNCHANGED <<live, gone>>
       ELSE HandlerReturns
    /\ UNCHANGED <<clock, server, errors, tableVars>>

WriteFails ==
    /\ viewer = "write"
    /\ gone
    /\ HandlerReturns
    /\ UNCHANGED <<clock, server, errors, tableVars>>

\* A tick that came during a query is there as soon as the select is.
TickCase ==
    /\ viewer = "select"
    /\ Begin
    /\ UNCHANGED <<clock, server, errors, tableVars, streamVars>>

\* Slip: the loop does not watch the context.
WatchesContextNot == FALSE
WatchesContext == gone

DoneCase ==
    /\ viewer = "select"
    /\ WatchesContext
    /\ HandlerReturns
    /\ UNCHANGED <<clock, server, errors, tableVars>>

Leave ==
    /\ viewer # "off"
    /\ ~gone
    /\ gone' = TRUE
    /\ UNCHANGED <<clock, server, viewer, errors, tableVars, live, shown, summaryVars>>

-----------------------------------------------------------------------------
(* serve: dashSrv.Shutdown waits for the handlers, of which a live one has  *)
(* no reason to return, until its deadline; then the deferred st.Close()   *)
(* waits for the connections in use, and the process exits.                *)

Shutdown ==
    /\ server = "up"
    /\ server' = "closing"
    /\ UNCHANGED <<clock, viewer, errors, tableVars, streamVars, summaryVars>>

DeadlinePasses ==
    /\ server = "closing"
    /\ server' = "overdue"
    /\ UNCHANGED <<clock, viewer, errors, tableVars, streamVars, summaryVars>>

\* Slip: Shutdown has no deadline.
ShutdownReturnsIdle == viewer = "off"
ShutdownReturns == viewer = "off" \/ server = "overdue"

ClosePool ==
    /\ server \in {"closing", "overdue"}
    /\ ShutdownReturns
    /\ server' = "draining"
    /\ UNCHANGED <<clock, viewer, errors, tableVars, streamVars, summaryVars>>

Exit ==
    /\ server = "draining"
    /\ viewer # "query"
    /\ server' = "down"
    /\ HandlerReturns
    /\ UNCHANGED <<clock, errors, tableVars>>

Finished == server = "down" /\ UNCHANGED vars

-----------------------------------------------------------------------------
HandlerStep ==
    Query \/ QueryFails \/ Write \/ WriteFails \/ TickCase \/ DoneCase

Next ==
    \/ \E e \in Events : Record(e)
    \/ \E n \in 1..BatchSize : Copy(n)
    \/ \E t \in Tenants : Revoke(t)
    \/ Advance
    \/ Connect \/ Leave \/ HandlerStep
    \/ Shutdown \/ DeadlinePasses \/ ClosePool \/ Exit \/ Finished

Spec == Init /\ [][Next]_vars

(***************************************************************************)
(* Queries end, ticks come, the deadline passes; a done context is chosen  *)
(* by the select at last, ready as it is again and again.  st.Close comes  *)
(* back although live handlers go on asking: the closed pool refuses them. *)
(* Clients, operators, the clock and the metering writer owe nothing.      *)
(***************************************************************************)
FairSpec ==
    /\ Spec
    /\ WF_vars(HandlerStep)
    /\ SF_vars(DoneCase)
    /\ WF_vars(DeadlinePasses)
    /\ WF_vars(ClosePool)
    /\ SF_vars(Exit)

-----------------------------------------------------------------------------
(***************************************************************************)
(* The four queries are no transaction, yet a summary is never torn beyond *)
(* what was written meanwhile: each section has all rows of the window     *)
(* that the table had at its beginning, all of the section before it, and  *)
(* nothing the table has not (Summarize: one since for all queries, joins  *)
(* that the foreign key makes lossless).                                   *)
(***************************************************************************)
Read == IF viewer = "write" THEN Positions ELSE 1..(at - 1)

SummaryNotTorn ==
    \A i \in Read :
        /\ before \subseteq view[i]
        /\ \A j \in 1..(i - 1) : view[j] \subseteq view[i]
        /\ view[i] \subseteq Rows

(***************************************************************************)
(* A row a live viewer was shown in any section stays in every section of  *)
(* its later summaries while it is in the window, whatever is revoked or   *)
(* fails in between (liveHandler).                                         *)
(***************************************************************************)
NothingVanishes ==
    viewer = "write" =>
        \A i, j \in Positions : \A e \in shown[i] : InWindow(e, asked) => e \in view[j]

(***************************************************************************)
(* A row in the table is shown to a connected live viewer, in every        *)
(* section, unless it leaves the window first, the client goes away or the *)
(* process stops: a bad tick is skipped and does not end the stream        *)
(* (liveHandler).                                                          *)
(***************************************************************************)
EventuallyShown ==
    \A e \in Events :
        (e \in Rows /\ live /\ ~gone) ~>
            \/ \A i \in Positions : e \in shown[i]
            \/ ~InWindow(e, clock)
            \/ gone \/ server # "up"

(***************************************************************************)
(* A client that left is noticed, and a live viewer that stays does not    *)
(* keep the process from exiting (liveHandler's select; serve's deadline). *)
(***************************************************************************)
HandlerReleased == gone ~> ~gone

ShutdownPasses == (server = "closing") ~> (server = "down")
=============================================================================
