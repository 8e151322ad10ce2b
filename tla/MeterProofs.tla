---------------------------- MODULE MeterProofs -----------------------------
(***************************************************************************)
(* Theorems of Meter, for every number of events, every size of the buffer *)
(* and of the batch, and every combination of faults.                      *)
(***************************************************************************)
EXTENDS Meter, SequenceTheorems, TLAPS

(***************************************************************************)
(* Types alone are not inductive: the batch may take one more event only   *)
(* because Run flushes a full batch before it receives again.              *)
(***************************************************************************)
Bounded == TypeOK /\ (~flushing => Len(batch) < BatchSize)

(***************************************************************************)
(* Init establishes the bounds.                                            *)
(***************************************************************************)
LEMMA BoundedInit ==
    Init => Bounded
<1> SUFFICES ASSUME Init PROVE Bounded
  OBVIOUS
<1>1. << >> \in Seq(Events) /\ Len(<< >>) = 0
  OBVIOUS
<1>2. 0 < BatchSize /\ 0 <= BufferSize /\ 0 <= BatchSize /\ 0 \in Nat
  BY MeterAssumption
<1> QED
  BY <1>1, <1>2 DEF Init, Bounded, TypeOK

(***************************************************************************)
(* Receiving moves one event from the channel to the batch and keeps the   *)
(* batch within its size (Writer.Run, both loops).                         *)
(***************************************************************************)
LEMMA ReceiveBounded ==
    ASSUME Bounded, Receive
    PROVE  Bounded'
<1>1. /\ ch \in Seq(Events) /\ ch # <<>> /\ Len(ch) <= BufferSize
      /\ batch \in Seq(Events) /\ Len(batch) < BatchSize
      /\ BatchSize \in Nat /\ BufferSize \in Nat
  BY MeterAssumption DEF Bounded, TypeOK, Receive
<1>2. Head(ch) \in Events /\ Tail(ch) \in Seq(Events) /\ Len(Tail(ch)) = Len(ch) - 1
  BY <1>1, HeadTailProperties
<1>3. /\ Append(batch, Head(ch)) \in Seq(Events)
      /\ Len(Append(batch, Head(ch))) = Len(batch) + 1
  BY <1>1, <1>2, AppendProperties
<1>4. /\ ch' \in Seq(Events) /\ Len(ch') <= BufferSize
      /\ batch' \in Seq(Events) /\ Len(batch') <= BatchSize
      /\ ~(Len(batch') >= BatchSize) => Len(batch') < BatchSize
  BY <1>1, <1>2, <1>3 DEF Receive
<1>5. flushing' = (Len(batch') >= BatchSize)
  BY Zenon DEF Receive, Full
<1>6. (Len(batch') >= BatchSize) \in BOOLEAN
  OBVIOUS
<1>7. flushing' \in BOOLEAN
  BY <1>5, <1>6, Zenon
<1>8. ~flushing' => Len(batch') < BatchSize
  BY <1>4, <1>5, Zenon
<1> QED
  BY <1>4, <1>7, <1>8 DEF Bounded, TypeOK, Receive, ioVars, historyVars

(***************************************************************************)
(* No step of a handler, of Run or of serve breaks a type or a bound.      *)
(***************************************************************************)
LEMMA BoundedNext ==
    ASSUME Bounded, [Next]_vars
    PROVE  Bounded'
<1> USE MeterAssumption DEF Bounded, TypeOK
<1>1. ASSUME NEW e \in Events, Arrive(e)
      PROVE  Bounded'
  BY <1>1 DEF Arrive, ioVars, historyVars
<1>2. ASSUME NEW e \in Events, Enqueue(e)
      PROVE  Bounded'
  <2>1. CASE HasRoom /\ ch' = Append(ch, e) /\ accepted' = Append(accepted, e)
             /\ handler' = [handler EXCEPT ![e] = "kept"]
    <3>1. ch' \in Seq(Events) /\ Len(ch') <= BufferSize /\ accepted' \in Seq(Events)
      BY <2>1, AppendProperties DEF HasRoom
    <3> QED
      BY <1>2, <2>1, <3>1 DEF Enqueue, ioVars, historyVars
  <2>2. CASE handler' = [handler EXCEPT ![e] = "dropped"] /\ UNCHANGED <<ch, accepted>>
    BY <1>2, <2>2 DEF Enqueue, ioVars, historyVars
  <2> QED
    BY <1>2, <2>1, <2>2 DEF Enqueue
<1>3. CASE Receive
  BY <1>3, ReceiveBounded
<1>4. CASE TickCase \/ DrainEnds
  <2>1. flushing' \in BOOLEAN
    BY <1>4, Zenon DEF TickCase, DrainEnds, FlushOnTick
  <2>2. ~flushing
    BY <1>4 DEF TickCase, DrainEnds
  <2> QED
    BY <1>4, <2>1, <2>2 DEF TickCase, DrainEnds, ioVars, historyVars
<1>9. CASE DoneCase \/ Return \/ TickerFires
  BY <1>9 DEF DoneCase, Return, TickerFires, ioVars, historyVars
<1>5. CASE WriteReturns
  <2>1. settled' \in Seq(Events)
    BY <1>5, ConcatProperties DEF WriteReturns
  <2>2. rows' \in Seq(Events)
    BY <1>5, ConcatProperties DEF WriteReturns, Copied
  <2>3. batch' \in Seq(Events) /\ Len(batch') = 0 /\ Len(batch') < BatchSize
    BY <1>5 DEF WriteReturns, AfterWrite
  <2>4. flushing' = FALSE /\ UNCHANGED <<handler, phase, ch, tick, run, accepted, atStop, late>>
    BY <1>5 DEF WriteReturns, historyVars
  <2>5. Len(batch') <= BatchSize
    BY <2>3
  <2>6. flushing' \in BOOLEAN /\ tick' \in BOOLEAN /\ late' \in BOOLEAN
    BY <2>4
  <2>7. TypeOK'
    BY <2>1, <2>2, <2>3, <2>4, <2>5, <2>6
  <2> QED
    BY <2>3, <2>7
<1>6. CASE Signal \/ Exit \/ Kill
  BY <1>6 DEF Signal, Exit, Kill, ioVars, historyVars
<1>7. CASE StopWriter
  <2>1. late' \in BOOLEAN
    BY <1>7, Zenon DEF StopWriter
  <2>2. atStop' \in Nat
    BY <1>7, LenProperties DEF StopWriter
  <2> QED
    BY <1>7, <2>1, <2>2 DEF StopWriter, ioVars
<1>8. CASE UNCHANGED vars
  BY <1>8 DEF vars
<1> QED
  BY <1>1, <1>2, <1>3, <1>4, <1>5, <1>6, <1>7, <1>8, <1>9 DEF Next, RunStep, Stopped

(***************************************************************************)
(* Every reachable state is well typed: in particular the channel and the  *)
(* batch never exceed their sizes (Writer.Enqueue, Writer.Run).            *)
(***************************************************************************)
THEOREM TypeCorrect == Spec => []TypeOK
<1>1. Spec => []Bounded
  BY BoundedInit, BoundedNext, PTL DEF Spec
<1>2. Bounded => TypeOK
  BY DEF Bounded
<1> QED
  BY <1>1, <1>2, PTL

(***************************************************************************)
(* An event appended to the channel is the last of all that is on the way  *)
(* (Writer.Enqueue).                                                       *)
(***************************************************************************)
LEMMA AppendedLast ==
    ASSUME NEW S, NEW a \in Seq(S), NEW c \in Seq(S), NEW e \in S
    PROVE  a \o Append(c, e) = Append(a \o c, e)
<1>1. << e >> \in Seq(S) /\ a \o c \in Seq(S)
  BY ConcatProperties
<1>2. (a \o c) \o << e >> = a \o (c \o << e >>)
  BY <1>1, ConcatAssociative
<1>3. Append(c, e) = c \o << e >>
  BY AppendIsConcat
<1>4. Append(a \o c, e) = (a \o c) \o << e >>
  BY <1>1, AppendIsConcat
<1> QED
  BY <1>2, <1>3, <1>4

(***************************************************************************)
(* Every step passes events on without losing, repeating or reordering any *)
(* (Enqueue, Run and its flushes).                                         *)
(***************************************************************************)
LEMMA MislaidNext ==
    ASSUME Bounded, NothingMislaid, [Next]_vars
    PROVE  NothingMislaid'
<1>1. /\ settled \in Seq(Events) /\ batch \in Seq(Events) /\ ch \in Seq(Events)
      /\ accepted = (settled \o batch) \o ch
  BY DEF Bounded, TypeOK, NothingMislaid
<1>2. ASSUME NEW e \in Events, Enqueue(e)
      PROVE  NothingMislaid'
  <2>1. settled' = settled /\ batch' = batch
    BY <1>2 DEF Enqueue, ioVars
  <2>2. CASE ch' = Append(ch, e) /\ accepted' = Append(accepted, e)
    <3>1. settled \o batch \in Seq(Events)
      BY <1>1, ConcatProperties
    <3>2. (settled \o batch) \o Append(ch, e) = Append((settled \o batch) \o ch, e)
      BY <1>1, <3>1, AppendedLast
    <3> QED
      BY <1>1, <2>1, <2>2, <3>2 DEF NothingMislaid
  <2>3. CASE UNCHANGED <<ch, accepted>>
    BY <1>1, <2>1, <2>3 DEF NothingMislaid
  <2> QED
    BY <1>2, <2>2, <2>3 DEF Enqueue
<1>3. CASE Receive
  <2>1. /\ ch # << >> /\ ch' = Tail(ch) /\ batch' = Append(batch, Head(ch))
        /\ settled' = settled /\ accepted' = accepted
    BY <1>3 DEF Receive, ioVars
  <2>2. PICK h \in Events, t \in Seq(Events) : h = Head(ch) /\ t = Tail(ch)
    BY <1>1, <2>1, HeadTailProperties
  <2>3. ch = << h >> \o t
    BY <1>1, <2>1, <2>2
  <2>4. (settled \o Append(batch, h)) \o t = (settled \o batch) \o (<< h >> \o t)
    <3>1. settled \o Append(batch, h) = Append(settled \o batch, h)
      BY <1>1, <2>2, AppendedLast
    <3>2. << h >> \in Seq(Events) /\ settled \o batch \in Seq(Events)
      BY <1>1, <2>2, ConcatProperties
    <3>3. Append(settled \o batch, h) = (settled \o batch) \o << h >>
      BY <2>2, <3>2, AppendIsConcat
    <3>4. ((settled \o batch) \o << h >>) \o t = (settled \o batch) \o (<< h >> \o t)
      BY <2>2, <3>2, ConcatAssociative
    <3> QED
      BY <3>1, <3>3, <3>4
  <2>5. batch' = Append(batch, h) /\ ch' = t
    BY <2>1, <2>2
  <2> QED
    BY <1>1, <2>1, <2>3, <2>4, <2>5, Zenon DEF NothingMislaid
<1>4. CASE WriteReturns
  <2>1. /\ settled' = settled \o batch /\ batch' = << >>
        /\ ch' = ch /\ accepted' = accepted
    BY <1>4 DEF WriteReturns, AfterWrite
  <2>2. (settled \o batch) \o << >> = settled \o batch
    BY <1>1, ConcatProperties, ConcatEmptySeq
  <2> QED
    BY <1>1, <2>1, <2>2 DEF NothingMislaid
<1>5. ASSUME UNCHANGED <<settled, batch, ch, accepted>>
      PROVE  NothingMislaid'
  BY <1>1, <1>5 DEF NothingMislaid
<1>6. ASSUME NEW e \in Events, Arrive(e)
      PROVE  NothingMislaid'
  BY <1>5, <1>6 DEF Arrive, ioVars
<1>7. CASE TickCase \/ DoneCase \/ DrainEnds \/ Return \/ TickerFires
  BY <1>5, <1>7 DEF TickCase, DoneCase, DrainEnds, Return, TickerFires, ioVars
<1>8. CASE Signal \/ StopWriter \/ Exit \/ Kill
  BY <1>5, <1>8 DEF Signal, StopWriter, Exit, Kill, ioVars
<1>9. CASE UNCHANGED vars
  BY <1>5, <1>9 DEF vars
<1> QED
  BY <1>2, <1>3, <1>4, <1>6, <1>7, <1>8, <1>9 DEF Next, RunStep, Stopped

(***************************************************************************)
(* The writer loses, repeats and reorders nothing, in any interleaving of  *)
(* handlers, ticks, writes and shutdown (Enqueue, Run).                    *)
(***************************************************************************)
THEOREM NothingIsMislaid == Spec => []NothingMislaid
<1>1. Init => NothingMislaid
  BY DEF Init, NothingMislaid
<1> QED
  BY <1>1, BoundedInit, BoundedNext, MislaidNext, PTL DEF Spec

-----------------------------------------------------------------------------
(***************************************************************************)
(* Why a graceful exit leaves nothing behind.  Run leaves its select only  *)
(* once it is cancelled; when its drain ends, everything accepted before   *)
(* stopWriter() is flushed or in the batch, and the final flush takes that *)
(* before Run returns.                                                     *)
(***************************************************************************)
Drains ==
    /\ run # "select" => phase \in {"stopping", "exited", "killed"}
    /\ atStop <= Len(accepted)
    /\ run = "final" => atStop <= Len(settled) + Len(batch)
    /\ run = "final" /\ ~flushing => batch = << >>
    /\ run = "returned" => atStop <= Len(settled)
    /\ phase = "exited" => run = "returned"

(***************************************************************************)
(* The three parts have together the length of what was accepted.          *)
(***************************************************************************)
LEMMA Lengths ==
    ASSUME NEW S, NEW s \in Seq(S), NEW b \in Seq(S), NEW c \in Seq(S)
    PROVE  /\ Len(s) \in Nat /\ Len(b) \in Nat /\ Len(c) \in Nat
           /\ Len((s \o b) \o c) = Len(s) + Len(b) + Len(c)
<1>1. s \o b \in Seq(S) /\ Len(s \o b) = Len(s) + Len(b)
  BY ConcatProperties
<1>2. Len((s \o b) \o c) = Len(s \o b) + Len(c)
  BY <1>1, ConcatProperties
<1> QED
  BY <1>1, <1>2, LenProperties

(***************************************************************************)
(* Every step keeps Drains (Writer.Run and serve).                         *)
(***************************************************************************)
LEMMA DrainsNext ==
    ASSUME Bounded, NothingMislaid, Drains, [Next]_vars
    PROVE  Drains'
<1>1. /\ Len(settled) \in Nat /\ Len(batch) \in Nat /\ Len(ch) \in Nat
      /\ Len(accepted) = Len(settled) + Len(batch) + Len(ch)
      /\ atStop \in Nat
  BY Lengths DEF Bounded, TypeOK, NothingMislaid
<1>2. Bounded' /\ NothingMislaid'
  BY BoundedNext, MislaidNext
<1>3. /\ Len(settled') \in Nat /\ Len(batch') \in Nat /\ Len(ch') \in Nat
      /\ Len(accepted') = Len(settled') + Len(batch') + Len(ch')
  BY <1>2, Lengths DEF Bounded, TypeOK, NothingMislaid
<1>4. ASSUME NEW e \in Events, Arrive(e) \/ Enqueue(e)
      PROVE  Drains'
  <2>1. UNCHANGED <<phase, batch, run, flushing, settled, atStop>>
    BY <1>4 DEF Arrive, Enqueue, ioVars, historyVars
  <2>2. Len(accepted') >= Len(accepted)
    <3>1. CASE accepted' = accepted
      BY <1>1, <3>1
    <3>2. CASE accepted' = Append(accepted, e)
      BY <3>2, AppendProperties DEF Bounded, TypeOK
    <3> QED
      BY <1>4, <3>1, <3>2 DEF Arrive, Enqueue
  <2>3. atStop <= Len(accepted')
    BY <1>1, <1>3, <2>2 DEF Drains
  <2> QED
    BY <2>1, <2>3 DEF Drains
<1>5. CASE Receive
  <2>1. /\ run \in {"select", "drain"}
        /\ UNCHANGED <<phase, run, accepted, atStop>>
    BY <1>5 DEF Receive, historyVars
  <2> QED
    BY <2>1 DEF Drains
<1>6. CASE TickCase \/ TickerFires
  <2>1. UNCHANGED <<phase, batch, run, accepted, settled, atStop>>
    BY <1>6 DEF TickCase, TickerFires, ioVars, historyVars
  <2>2. run' = "final" => flushing' = flushing
    BY <1>6 DEF TickCase, TickerFires
  <2> QED
    BY <2>1, <2>2 DEF Drains
<1>7. CASE DoneCase
  BY <1>7 DEF DoneCase, Cancelled, Drains, ioVars, historyVars
<1>8. CASE DrainEnds
  <2>1. /\ run = "drain" /\ ch = << >> /\ run' = "final"
        /\ UNCHANGED <<phase, batch, accepted, settled, atStop>>
    BY <1>8 DEF DrainEnds, Drained, ioVars, historyVars
  <2>2. flushing' = (batch # << >>)
    BY <1>8, Zenon DEF DrainEnds
  <2>3. ~flushing' => batch' = << >>
    BY <2>1, <2>2, Zenon
  <2>4. atStop <= Len(settled) + Len(batch)
    BY <1>1, <2>1 DEF Drains
  <2> QED
    BY <2>1, <2>3, <2>4 DEF Drains
<1>9. CASE Return
  <2>1. /\ run = "final" /\ ~flushing /\ run' = "returned"
        /\ UNCHANGED <<phase, batch, accepted, settled, atStop>>
    BY <1>9 DEF Return, ioVars, historyVars
  <2>2. atStop <= Len(settled)
    BY <1>1, <2>1 DEF Drains
  <2> QED
    BY <2>1, <2>2 DEF Drains
<1>10. CASE WriteReturns
  <2>1. /\ settled' = settled \o batch /\ batch' = << >>
        /\ UNCHANGED <<phase, run, accepted, atStop>>
    BY <1>10 DEF WriteReturns, AfterWrite, historyVars
  <2>2. Len(settled') = Len(settled) + Len(batch)
    BY <2>1, ConcatProperties DEF Bounded, TypeOK
  <2>3. Len(batch') = 0
    BY <2>1
  <2>4. /\ run = "final" => atStop <= Len(settled') + Len(batch')
        /\ run = "returned" => atStop <= Len(settled')
    BY <1>1, <2>2, <2>3 DEF Drains
  <2> QED
    BY <2>1, <2>4 DEF Drains
<1>11. CASE Signal \/ Kill
  BY <1>11 DEF Signal, Kill, Alive, Drains, ioVars, historyVars
<1>12. CASE StopWriter
  <2>1. /\ phase = "draining" /\ phase' = "stopping" /\ atStop' = Len(accepted)
        /\ UNCHANGED <<batch, run, flushing, accepted, settled>>
    BY <1>12 DEF StopWriter, ioVars
  <2>2. run = "select"
    BY <2>1 DEF Drains
  <2>3. atStop' <= Len(accepted')
    BY <1>1, <2>1
  <2> QED
    BY <2>1, <2>2, <2>3 DEF Drains
<1>13. CASE Exit
  BY <1>13 DEF Exit, WriterDone, Drains, ioVars, historyVars
<1>14. CASE UNCHANGED vars
  BY <1>14 DEF vars, Drains
<1> QED
  BY <1>4, <1>5, <1>6, <1>7, <1>8, <1>9, <1>10, <1>11, <1>12, <1>13, <1>14
     DEF Next, RunStep, Stopped

(***************************************************************************)
(* Every event accepted before stopWriter() was in a flush that ended when *)
(* the process exits gracefully (Run's drain, writer.Wait).                *)
(***************************************************************************)
THEOREM ExitHasFlushed == Spec => []ExitFlushes
<1>1. Init => Drains /\ NothingMislaid
  BY DEF Init, Drains, NothingMislaid
<1>2. Bounded /\ Drains => ExitFlushes
  BY DEF Bounded, TypeOK, Drains, ExitFlushes
<1> QED
  BY <1>1, <1>2, BoundedInit, BoundedNext, MislaidNext, DrainsNext, PTL DEF Spec

-----------------------------------------------------------------------------
(***************************************************************************)
(* When srv.Shutdown saw all handlers end, none of them accepts another    *)
(* event, so what stopWriter() found accepted is all there will ever be.   *)
(***************************************************************************)
Quiet == phase \in {"stopping", "exited"} /\ ~late

NoLateEvents ==
    Quiet => atStop = Len(accepted) /\ \A e \in Events : handler[e] # "serving"

(***************************************************************************)
(* Every step keeps NoLateEvents (serve's order of shutting down).         *)
(***************************************************************************)
LEMMA NoLateNext ==
    ASSUME TypeOK, NoLateEvents, [Next]_vars
    PROVE  NoLateEvents'
<1>1. ASSUME NEW e \in Events, Arrive(e)
      PROVE  NoLateEvents'
  <2>1. ~Quiet'
    BY <1>1 DEF Arrive, Quiet
  <2> QED
    BY <2>1 DEF NoLateEvents
<1>2. ASSUME NEW e \in Events, Enqueue(e)
      PROVE  NoLateEvents'
  <2>1. Quiet' => Quiet
    BY <1>2 DEF Enqueue, Quiet, historyVars
  <2>2. handler[e] = "serving"
    BY <1>2 DEF Enqueue
  <2> QED
    BY <2>1, <2>2 DEF NoLateEvents
<1>3. CASE StopWriter
  <2>1. late' = ~HandlersDone
    BY <1>3, Zenon DEF StopWriter
  <2>2. ~late' => \A e \in Events : handler[e] # "serving"
    BY <2>1, Zenon DEF HandlersDone
  <2>3. atStop' = Len(accepted) /\ accepted' = accepted /\ handler' = handler
    BY <1>3 DEF StopWriter
  <2> QED
    BY <2>2, <2>3 DEF NoLateEvents, Quiet
<1>4. ASSUME UNCHANGED <<late, atStop, accepted, handler>>, Quiet' => Quiet
      PROVE  NoLateEvents'
  BY <1>4 DEF NoLateEvents
<1>5. CASE RunStep \/ TickerFires
  <2>1. UNCHANGED <<late, atStop, accepted, handler, phase>>
    BY <1>5 DEF RunStep, Receive, TickCase, DoneCase, DrainEnds, Return, WriteReturns,
                TickerFires, historyVars
  <2> QED
    BY <1>4, <2>1 DEF Quiet
<1>6. CASE Signal \/ Exit \/ Kill
  <2>1. UNCHANGED <<late, atStop, accepted, handler>>
    BY <1>6 DEF Signal, Exit, Kill, historyVars
  <2>2. Quiet' => Quiet
    BY <1>6, <2>1 DEF Signal, Exit, Kill, Quiet
  <2> QED
    BY <1>4, <2>1, <2>2
<1>7. CASE UNCHANGED vars
  BY <1>4, <1>7 DEF vars, Quiet
<1> QED
  BY <1>1, <1>2, <1>3, <1>5, <1>6, <1>7 DEF Next, Stopped

(***************************************************************************)
(* An exit whose Shutdown waited for all handlers leaves nothing in the    *)
(* batch or in the channel: the lengths leave no room for it.              *)
(***************************************************************************)
LEMMA NothingLeft ==
    ASSUME Bounded, NothingMislaid, Drains, NoLateEvents
    PROVE  ExitComplete
<1> SUFFICES ASSUME phase = "exited", ~late
             PROVE  settled = accepted /\ \A e \in Events : handler[e] # "serving"
  BY DEF ExitComplete
<1>1. /\ settled \in Seq(Events) /\ batch \in Seq(Events) /\ ch \in Seq(Events)
      /\ accepted = (settled \o batch) \o ch
  BY DEF Bounded, TypeOK, NothingMislaid
<1>2. /\ Len(settled) \in Nat /\ Len(batch) \in Nat /\ Len(ch) \in Nat
      /\ Len(accepted) = Len(settled) + Len(batch) + Len(ch)
  BY <1>1, Lengths
<1>3. atStop = Len(accepted) /\ \A e \in Events : handler[e] # "serving"
  BY DEF NoLateEvents, Quiet
<1>4. atStop <= Len(settled)
  BY DEF Drains
<1>5. Len(batch) = 0 /\ Len(ch) = 0
  BY <1>2, <1>3, <1>4
<1>6. batch = << >> /\ ch = << >>
  BY <1>1, <1>5, EmptySeq
<1>7. accepted = settled
  BY <1>1, <1>6, ConcatEmptySeq
<1> QED
  BY <1>3, <1>7

(***************************************************************************)
(* Unless srv.Shutdown gave up on a handler, a graceful exit has flushed   *)
(* every event ever accepted (serve's order: Shutdown, stopWriter, Wait).  *)
(***************************************************************************)
THEOREM ExitIsComplete == Spec => []ExitComplete
<1>1. Init => Drains /\ NothingMislaid /\ NoLateEvents
  BY DEF Init, Drains, NothingMislaid, NoLateEvents, Quiet
<1>2. Bounded => TypeOK
  BY DEF Bounded
<1> QED
  BY <1>1, <1>2, BoundedInit, BoundedNext, MislaidNext, DrainsNext, NoLateNext,
     NothingLeft, PTL DEF Spec

-----------------------------------------------------------------------------
(***************************************************************************)
(* The writer implements the queue.  A flush always has something to write *)
(* (flush returns on an empty batch).                                      *)
(***************************************************************************)
FlushesSome == flushing => batch # << >>

(***************************************************************************)
(* Every step keeps FlushesSome (Writer.Run).                              *)
(***************************************************************************)
LEMMA FlushesSomeNext ==
    ASSUME Bounded, FlushesSome, [Next]_vars
    PROVE  FlushesSome'
<1>1. CASE Receive
  <2>1. batch' = Append(batch, Head(ch)) /\ batch \in Seq(Events) /\ Head(ch) \in Events
    BY <1>1, HeadTailProperties DEF Receive, Bounded, TypeOK
  <2> QED
    BY <2>1, AppendProperties DEF FlushesSome
<1>2. CASE TickCase \/ DrainEnds
  BY <1>2 DEF TickCase, FlushOnTick, DrainEnds, FlushesSome
<1>3. CASE WriteReturns
  BY <1>3 DEF WriteReturns, FlushesSome
<1>4. ASSUME UNCHANGED <<batch, flushing>>
      PROVE  FlushesSome'
  BY <1>4 DEF FlushesSome
<1>5. CASE \/ \E e \in Events : Arrive(e) \/ Enqueue(e)
           \/ DoneCase \/ Return \/ TickerFires
           \/ Signal \/ StopWriter \/ Exit \/ Kill \/ Stopped \/ UNCHANGED vars
  BY <1>4, <1>5 DEF Arrive, Enqueue, DoneCase, Return, TickerFires, Signal, StopWriter,
     Exit, Kill, Stopped, vars, ioVars, historyVars
<1> QED
  BY <1>1, <1>2, <1>3, <1>5 DEF Next, RunStep

(***************************************************************************)
(* Taking the batch off batch \o ch leaves the channel.                    *)
(***************************************************************************)
LEMMA BatchLeaves ==
    ASSUME NEW S, NEW b \in Seq(S), NEW c \in Seq(S)
    PROVE  /\ SubSeq(b \o c, 1, Len(b)) = b
           /\ SubSeq(b \o c, Len(b) + 1, Len(b \o c)) = c
           /\ Len(b) <= Len(b \o c)
<1>1. /\ b \o c \in Seq(S) /\ Len(b \o c) = Len(b) + Len(c)
      /\ Len(b) \in Nat /\ Len(c) \in Nat
  BY ConcatProperties, LenProperties
<1>2. \A i \in 1..Len(b) : (b \o c)[i] = b[i]
  BY <1>1, ConcatProperties
<1>3. \A i \in 1..Len(c) : (b \o c)[Len(b) + i] = c[i]
  BY <1>1, ConcatProperties
<1>4. SubSeq(b \o c, 1, Len(b)) = b
  BY <1>1, <1>2, SubSeqProperties, LenProperties
<1>5. SubSeq(b \o c, Len(b) + 1, Len(b \o c)) = c
  BY <1>1, <1>3, SubSeqProperties, LenProperties
<1> QED
  BY <1>1, <1>4, <1>5

(***************************************************************************)
(* Moving an event from the channel to the batch changes no order.         *)
(***************************************************************************)
LEMMA ReceiveMoves ==
    ASSUME NEW S, NEW b \in Seq(S), NEW c \in Seq(S), c # << >>
    PROVE  Append(b, Head(c)) \o Tail(c) = b \o c
<1>1. PICK h \in S, t \in Seq(S) : h = Head(c) /\ t = Tail(c)
  BY HeadTailProperties
<1>2. c = << h >> \o t
  BY <1>1
<1>3. << h >> \in Seq(S) /\ Append(b, h) = b \o << h >>
  BY AppendIsConcat
<1>4. (b \o << h >>) \o t = b \o (<< h >> \o t)
  BY <1>3, ConcatAssociative
<1> QED
  BY <1>1, <1>2, <1>3, <1>4

(***************************************************************************)
(* Every step of the writer is a step of the queue, or none.               *)
(***************************************************************************)
LEMMA NextMaps ==
    ASSUME Bounded, FlushesSome, [Next]_vars
    PROVE  [Queue!Next]_(Queue!vars)
<1> USE MeterAssumption
<1>1. /\ ch \in Seq(Events) /\ batch \in Seq(Events)
      /\ Len(ch) \in Nat /\ Len(batch) \in Nat
      /\ Len(batch \o ch) = Len(batch) + Len(ch)
      /\ Len(batch) <= BatchSize
      /\ handler \in [Events -> {"idle", "serving", "kept", "dropped"}]
  BY ConcatProperties, LenProperties DEF Bounded, TypeOK
<1>2. ASSUME batch' \o ch' = batch \o ch, rows' = rows,
             \A e \in Events : handler'[e] = "dropped" <=> handler[e] = "dropped"
      PROVE  UNCHANGED Queue!vars
  BY <1>2 DEF Queue!vars
<1>3. ASSUME NEW e \in Events, Enqueue(e)
      PROVE  Queue!Next
  <2>1. /\ handler[e] = "serving" /\ UNCHANGED <<batch, rows>>
        /\ \/ /\ Len(ch) < BufferSize /\ ch' = Append(ch, e)
              /\ handler' = [handler EXCEPT ![e] = "kept"]
           \/ /\ ~(Len(ch) < BufferSize) /\ ch' = ch
              /\ handler' = [handler EXCEPT ![e] = "dropped"]
    BY <1>3 DEF Enqueue, HasRoom, ioVars
  <2>2. CASE ch' = Append(ch, e) /\ Len(ch) < BufferSize
             /\ handler' = [handler EXCEPT ![e] = "kept"]
    <3>1. batch' \o ch' = Append(batch \o ch, e)
      BY <1>1, <2>1, <2>2, AppendedLast
    <3>2. {q \in Events : handler'[q] = "dropped"} = {q \in Events : handler[q] = "dropped"}
      BY <1>1, <2>1, <2>2
    <3>3. Queue!Put(e)
      BY <1>1, <2>1, <2>2, <3>1, <3>2 DEF Queue!Put
    <3> QED
      BY <3>3 DEF Queue!Next
  <2>3. CASE ch' = ch /\ ~(Len(ch) < BufferSize)
             /\ handler' = [handler EXCEPT ![e] = "dropped"]
    <3>1. {q \in Events : handler'[q] = "dropped"}
            = {q \in Events : handler[q] = "dropped"} \cup {e}
      BY <1>1, <2>3
    <3>2. Queue!Refuse(e)
      BY <1>1, <2>1, <2>3, <3>1 DEF Queue!Refuse
    <3> QED
      BY <3>2 DEF Queue!Next
  <2> QED
    BY <2>1, <2>2, <2>3
<1>4. CASE WriteReturns
  <2>1. batch # << >> /\ Len(batch) # 0
    BY <1>1, <1>4, EmptySeq DEF WriteReturns, FlushesSome
  <2>2. /\ batch' = << >> /\ ch' = ch /\ handler' = handler
        /\ rows' \in {rows, rows \o batch}
    BY <1>4 DEF WriteReturns, AfterWrite, Copied
  <2>3. batch' \o ch' = ch
    BY <1>1, <2>2, ConcatEmptySeq
  <2>4. PICK n \in 1..BatchSize : n = Len(batch)
    BY <1>1, <2>1
  <2>5. /\ n <= Len(batch \o ch)
        /\ SubSeq(batch \o ch, 1, n) = batch
        /\ SubSeq(batch \o ch, n + 1, Len(batch \o ch)) = ch
    BY <1>1, <2>4, BatchLeaves
  <2>6. {e \in Events : handler'[e] = "dropped"} = {e \in Events : handler[e] = "dropped"}
    BY <2>2
  <2>7. Queue!Leave(n)
    BY <2>2, <2>3, <2>5, <2>6 DEF Queue!Leave
  <2> QED
    BY <2>7 DEF Queue!Next
<1>5. CASE Receive
  <2>1. /\ batch' = Append(batch, Head(ch)) /\ ch' = Tail(ch) /\ ch # << >>
        /\ UNCHANGED <<handler, rows>>
    BY <1>5 DEF Receive, ioVars
  <2>2. batch' \o ch' = batch \o ch
    <3>1. Append(batch, Head(ch)) \o Tail(ch) = batch \o ch
      BY <1>1, <2>1, ReceiveMoves
    <3> QED
      BY <2>1, <3>1
  <2>3. \A e \in Events : handler'[e] = "dropped" <=> handler[e] = "dropped"
    BY <2>1
  <2> QED
    BY <1>2, <2>1, <2>2, <2>3
<1>6. ASSUME NEW e \in Events, Arrive(e)
      PROVE  UNCHANGED Queue!vars
  BY <1>1, <1>2, <1>6 DEF Arrive, ioVars
<1>7. CASE \/ TickCase \/ DoneCase \/ DrainEnds \/ Return \/ TickerFires
           \/ Signal \/ StopWriter \/ Exit \/ Kill \/ Stopped \/ UNCHANGED vars
  BY <1>2, <1>7 DEF TickCase, DoneCase, DrainEnds, Return, TickerFires, Signal, StopWriter,
     Exit, Kill, Stopped, vars, ioVars, historyVars
<1> QED
  BY <1>3, <1>4, <1>5, <1>6, <1>7 DEF Next, RunStep

(***************************************************************************)
(* For any sizes and any faults the writer implements the queue: it        *)
(* refuses only when full, and the table receives the accepted events in   *)
(* order, in whole lots (Enqueue, Run, PGSink.Write).                      *)
(***************************************************************************)
THEOREM QueueImplemented == Spec => ImplementsQueue
<1> USE MeterAssumption
<1>1. Init => FlushesSome
  BY DEF Init, FlushesSome
<1>2. Init => Queue!Init
  <2> SUFFICES ASSUME Init PROVE Queue!Init
    OBVIOUS
  <2>1. << >> \o << >> = << >>
    OBVIOUS
  <2> QED
    BY <2>1 DEF Init, Queue!Init
<1>3. Bounded /\ [Next]_vars => Bounded'
  BY BoundedNext
<1>4. Bounded /\ FlushesSome /\ [Next]_vars => FlushesSome'
  BY FlushesSomeNext
<1>5. Bounded /\ FlushesSome /\ [Next]_vars => [Queue!Next]_(Queue!vars)
  BY NextMaps
<1> QED
  BY <1>1, <1>2, <1>3, <1>4, <1>5, BoundedInit, PTL DEF Spec, ImplementsQueue, Queue!Spec
=============================================================================
