------------------------------- MODULE Meter --------------------------------
(***************************************************************************)
(* The asynchronous metering path of one gateway process: the Writer of    *)
(* internal/meter, the handlers that Enqueue, and the order in which serve *)
(* of cmd/spendgate shuts the two down.                                    *)
(*                                                                         *)
(* An event stands for the request it meters.                              *)
(***************************************************************************)
EXTENDS Naturals, Sequences

CONSTANTS
    Events,      \* the metering events, one per request
    BatchSize,   \* w.batchSize
    BufferSize,  \* capacity of w.ch
    Faults       \* what a run allows to go wrong

FaultKinds ==
    {"sink",   \* the COPY fails or times out: no row of the batch is written
     "slow",   \* handlers outlive the ten seconds of srv.Shutdown
     "kill"}   \* kill -9

ASSUME MeterAssumption ==
    /\ BatchSize \in Nat \ {0}
    /\ BufferSize \in Nat \ {0}
    /\ Faults \subseteq FaultKinds

VARIABLES
    handler,   \* per event, its request's handler
    phase,     \* serve: where the process is
    ch,        \* w.ch
    batch,     \* Run's batch
    tick,      \* a tick waits in ticker.C, which has room for one
    run,       \* Run: in its select, draining, in its final flush, returned
    flushing,  \* Run is inside sink.Write
    rows,      \* the requests table
    accepted,  \* history: events Enqueue took, in order
    settled,   \* history: events of the flushes that ended, in order
    atStop,    \* history: how many were accepted before stopWriter()
    late       \* history: srv.Shutdown gave up on handlers still serving

ioVars == <<rows, settled>>
historyVars == <<atStop, late>>
vars == <<handler, phase, ch, batch, tick, run, flushing, rows, accepted,
          settled, atStop, late>>

Alive == phase \notin {"exited", "killed"}

\* Slip: Run is given a context nobody cancels.
CancelledNever == FALSE
Cancelled == phase = "stopping"

TypeOK ==
    /\ handler \in [Events -> {"idle", "serving", "kept", "dropped"}]
    /\ phase \in {"serving", "draining", "stopping", "exited", "killed"}
    /\ ch \in Seq(Events) /\ Len(ch) <= BufferSize
    /\ batch \in Seq(Events) /\ Len(batch) <= BatchSize
    /\ tick \in BOOLEAN
    /\ run \in {"select", "drain", "final", "returned"}
    /\ flushing \in BOOLEAN
    /\ rows \in Seq(Events)
    /\ accepted \in Seq(Events)
    /\ settled \in Seq(Events)
    /\ atStop \in Nat
    /\ late \in BOOLEAN

Init ==
    /\ handler = [e \in Events |-> "idle"]
    /\ phase = "serving"
    /\ ch = <<>>
    /\ batch = <<>>
    /\ tick = FALSE
    /\ run = "select"
    /\ flushing = FALSE
    /\ rows = <<>>
    /\ accepted = <<>>
    /\ settled = <<>>
    /\ atStop = 0
    /\ late = FALSE

-----------------------------------------------------------------------------
(* The handlers. *)

Arrive(e) ==
    /\ phase = "serving"
    /\ handler[e] = "idle"
    /\ handler' = [handler EXCEPT ![e] = "serving"]
    /\ UNCHANGED <<phase, ch, batch, tick, run, flushing, accepted, historyVars, ioVars>>

\* Slip: room for one more than the channel has.
HasRoomOneMore == Len(ch) <= BufferSize
HasRoom == Len(ch) < BufferSize

Enqueue(e) ==
    /\ Alive
    /\ handler[e] = "serving"
    /\ \/ /\ HasRoom
          /\ ch' = Append(ch, e)
          /\ accepted' = Append(accepted, e)
          /\ handler' = [handler EXCEPT ![e] = "kept"]
       \/ /\ ~HasRoom
          /\ handler' = [handler EXCEPT ![e] = "dropped"]
          /\ UNCHANGED <<ch, accepted>>
    /\ UNCHANGED <<phase, batch, tick, run, flushing, historyVars, ioVars>>

-----------------------------------------------------------------------------
(* Run.  Sink.Write is a call of its own: Enqueue goes on meanwhile. *)

Full(b) == Len(b) >= BatchSize

\* Either loop takes an event from the channel and flushes a full batch.
Receive ==
    /\ Alive
    /\ run \in {"select", "drain"}
    /\ ~flushing
    /\ ch # <<>>
    /\ ch' = Tail(ch)
    /\ batch' = Append(batch, Head(ch))
    /\ flushing' = Full(batch')
    /\ UNCHANGED <<handler, phase, tick, run, accepted, historyVars, ioVars>>

TickerFires ==
    /\ Alive
    /\ ~tick
    /\ tick' = TRUE
    /\ UNCHANGED <<handler, phase, ch, batch, run, flushing, accepted, historyVars, ioVars>>

\* Slip: the timer case forgets the flush.
FlushOnTickNever == FALSE
FlushOnTick == batch # <<>>

TickCase ==
    /\ Alive
    /\ run = "select"
    /\ ~flushing
    /\ tick
    /\ tick' = FALSE
    /\ flushing' = FlushOnTick
    /\ UNCHANGED <<handler, phase, ch, batch, run, accepted, historyVars, ioVars>>

DoneCase ==
    /\ Alive
    /\ run = "select"
    /\ ~flushing
    /\ Cancelled
    /\ run' = "drain"
    /\ UNCHANGED <<handler, phase, ch, batch, tick, flushing, accepted, historyVars, ioVars>>

\* Slip: straight to the final flush, whatever the channel holds.
DrainedAtOnce == TRUE
Drained == ch = <<>>

DrainEnds ==
    /\ Alive
    /\ run = "drain"
    /\ ~flushing
    /\ Drained
    /\ run' = "final"
    /\ flushing' = (batch # <<>>)
    /\ UNCHANGED <<handler, phase, ch, batch, tick, accepted, historyVars, ioVars>>

Return ==
    /\ Alive
    /\ run = "final"
    /\ ~flushing
    /\ run' = "returned"
    /\ UNCHANGED <<handler, phase, ch, batch, tick, flushing, accepted, historyVars, ioVars>>

\* Slip: row by row, so that a failed write leaves those before the bad one.
CopiedPart(written) == IF written THEN rows \o batch ELSE Append(rows, Head(batch))

\* PGSink.Write: one COPY, all rows or none.
Copied(written) == IF written THEN rows \o batch ELSE rows

\* Slip: a failed batch is not truncated and is written again with the next.
AfterWriteKept(written) == IF written THEN <<>> ELSE batch
AfterWrite(written) == <<>>

(***************************************************************************)
(* sink.Write returns.  Its error is logged, and the batch is gone either  *)
(* way.                                                                    *)
(***************************************************************************)
WriteReturns ==
    /\ Alive
    /\ flushing
    /\ flushing' = FALSE
    /\ settled' = settled \o batch
    /\ \E written \in BOOLEAN :
         /\ written \/ "sink" \in Faults
         /\ rows' = Copied(written)
         /\ batch' = AfterWrite(written)
    /\ UNCHANGED <<handler, phase, ch, tick, run, accepted, historyVars>>

-----------------------------------------------------------------------------
(* serve. *)

Signal ==
    /\ phase = "serving"
    /\ phase' = "draining"
    /\ UNCHANGED <<handler, ch, batch, tick, run, flushing, accepted, historyVars, ioVars>>

\* Slip: the writer is stopped without waiting for the handlers.
HandlersDoneNot == TRUE
HandlersDone == \A e \in Events : handler[e] # "serving"

\* srv.Shutdown returns, idle or timed out; stopWriter().
StopWriter ==
    /\ phase = "draining"
    /\ HandlersDone \/ "slow" \in Faults
    /\ late' = ~HandlersDone
    /\ phase' = "stopping"
    /\ atStop' = Len(accepted)
    /\ UNCHANGED <<handler, ch, batch, tick, run, flushing, accepted, ioVars>>

\* Slip: no writer.Wait().
WriterDoneNot == TRUE
WriterDone == run = "returned"

Exit ==
    /\ phase = "stopping"
    /\ WriterDone
    /\ phase' = "exited"
    /\ UNCHANGED <<handler, ch, batch, tick, run, flushing, accepted, historyVars, ioVars>>

Kill ==
    /\ "kill" \in Faults
    /\ Alive
    /\ phase' = "killed"
    /\ UNCHANGED <<handler, ch, batch, tick, run, flushing, accepted, historyVars, ioVars>>

\* The process is gone.
Stopped == ~Alive /\ UNCHANGED vars

-----------------------------------------------------------------------------
RunStep == Receive \/ TickCase \/ DoneCase \/ DrainEnds \/ Return \/ WriteReturns

Next ==
    \/ \E e \in Events : Arrive(e) \/ Enqueue(e)
    \/ RunStep
    \/ TickerFires
    \/ Signal \/ StopWriter \/ Exit \/ Kill
    \/ Stopped

Spec == Init /\ [][Next]_vars

(***************************************************************************)
(* Goroutines that can move do, time passes and sink.Write ends (its       *)
(* context has a deadline).  A case of Run's select that is ready time and *)
(* again is chosen at last: Go picks among the ready ones at random.       *)
(* Signals and kills come or do not.                                       *)
(***************************************************************************)
FairSpec ==
    /\ Spec
    /\ WF_vars(RunStep)
    /\ SF_vars(Receive)
    /\ SF_vars(TickCase)
    /\ SF_vars(DoneCase)
    /\ WF_vars(TickerFires)
    /\ WF_vars(StopWriter)
    /\ WF_vars(Exit)
    /\ \A e \in Events : WF_vars(Enqueue(e))

-----------------------------------------------------------------------------
(***************************************************************************)
(* What Enqueue accepted is, in order and once each, what finished flushes *)
(* took, then the batch, then the channel: the writer itself loses,        *)
(* repeats and reorders nothing, in any interleaving of handlers, ticks,   *)
(* writes and shutdown (Enqueue, Run).                                     *)
(***************************************************************************)
NothingMislaid == accepted = settled \o batch \o ch

(***************************************************************************)
(* A graceful exit leaves behind no event accepted before stopWriter():    *)
(* each was in a flush that ended (the drain and final flush of Run, and   *)
(* writer.Wait in serve).                                                  *)
(***************************************************************************)
ExitFlushes == phase = "exited" => Len(settled) >= atStop

(***************************************************************************)
(* Unless srv.Shutdown gave up on a handler, a graceful exit has flushed   *)
(* every event that was ever accepted, and no handler is left to meter     *)
(* another (serve's order: Shutdown, stopWriter, Wait).                    *)
(***************************************************************************)
ExitComplete ==
    phase = "exited" /\ ~late =>
        settled = accepted /\ \A e \in Events : handler[e] # "serving"

(***************************************************************************)
(* Every accepted event is flushed while the process lives, by size, by    *)
(* time or by the drain; late handlers of an exiting process excepted.     *)
(***************************************************************************)
Settled(e) == \E i \in DOMAIN settled : settled[i] = e

EventuallyFlushed ==
    \A e \in Events : (handler[e] = "kept") ~> (Settled(e) \/ ~Alive)

(***************************************************************************)
(* A signal ends the process: neither Shutdown, the drain nor Wait hangs.  *)
(***************************************************************************)
ShutdownEnds == (phase = "draining") ~> ~Alive

Queue == INSTANCE EventQueue WITH
             queue <- batch \o ch,
             refused <- {e \in Events : handler[e] = "dropped"}

(***************************************************************************)
(* Seen from outside, the writer is a bounded queue: an event is refused   *)
(* only when as many wait as the channel holds, and the table receives the *)
(* others in the order they were accepted, in whole lots of at most a      *)
(* batch, whatever ticks, slow writes, drain and kill do (Enqueue, Run,    *)
(* PGSink.Write).                                                          *)
(***************************************************************************)
ImplementsQueue == Queue!Spec

(***************************************************************************)
(* The package comment and DESIGN.md: kill -9 loses at most one batch.     *)
(***************************************************************************)
KillLosesAtMostOneBatch ==
    phase = "killed" => Len(accepted) - Len(settled) <= BatchSize
=============================================================================
