------------------------------ MODULE Exchange ------------------------------
(***************************************************************************)
(* One proxied exchange of internal/proxy, after the budget gate let it    *)
(* through: the usage request injected into OpenAI streams, the SSE        *)
(* passthrough of streamSSE with its usage extractors, and the metering    *)
(* event that comes out.  A stream is a sequence of lines; a line is       *)
(* abstracted to what the proxy tells apart in it.                         *)
(***************************************************************************)
EXTENDS Integers, SequencesExt

CONSTANTS
    Exchanges,  \* the exchanges a run starts from
    Priced      \* models with a row in the price table

\* data: lines by payload; "done" ([DONE]) is no JSON.
OpenAIData == {"content", "usage", "both", "done"}
AnthropicData == {"start", "delta", "ping"}
DataLines == OpenAIData \cup AnthropicData

\* The beginning of a line, which is no JSON either: of the usage line, or of
\* any other.
Partial == {"cut", "cutUsage"}
CutOf(l) == IF l = "usage" THEN "cutUsage" ELSE "cut"

Lines == DataLines \cup {"event", "blank"} \cup Partial

(***************************************************************************)
(* stream_options of a request: no streaming at all, absent, null, an      *)
(* object without include_usage, one with it, or no object.                *)
(***************************************************************************)
Options == {"nostream", "absent", "null", "object", "set", "scalar"}

\* message_start comes before message_delta.
StartsFirst(s) == \A i, j \in DOMAIN s : s[i] = "start" /\ s[j] = "delta" => i < j

\* Each provider sends its own events.
ASSUME ExchangeAssumption ==
    \A e \in Exchanges :
        /\ e.options \in Options
        /\ e.stream \in Seq(Lines \ Partial)
        /\ \A i \in DOMAIN e.stream :
             e.stream[i] \notin IF e.provider = "anthropic" THEN OpenAIData ELSE AnthropicData
        /\ StartsFirst(e.stream)

VARIABLES
    x,          \* the exchange: request, and what the provider will answer
    pc,
    injected,   \* maybeInjectUsage rewrote the request
    src,        \* lines the provider has yet to send
    raw,        \* streamSSE: lines of the event being read
    dataLines,  \* streamSSE: their data payloads
    out,        \* what was written to the client
    u,          \* the extractor's Usage
    gone,       \* a write to the client failed
    seen,       \* history: lines read
    event       \* the metering event, once enqueued

streamVars == <<src, raw, dataLines, out, u, gone, seen>>
vars == <<x, pc, injected, streamVars, event>>

Usage == [in: Nat, out: Nat, named: BOOLEAN, has: BOOLEAN]
NoUsage == [in |-> 0, out |-> 0, named |-> FALSE, has |-> FALSE]
NoEvent == <<>>

TypeOK ==
    /\ x.options \in Options
    /\ pc \in {"start", "sent", "streaming", "ended", "done", "panicked"}
    /\ injected \in BOOLEAN
    /\ src \in Seq(Lines)
    /\ raw \in Seq(Lines \ {"blank"})
    /\ dataLines \in Seq(DataLines)
    /\ out \in Seq(Lines)
    /\ u \in Usage
    /\ gone \in BOOLEAN
    /\ seen \in Seq(Lines)

Init ==
    /\ x \in Exchanges
    /\ pc = "start"
    /\ injected = FALSE
    /\ src = x.stream
    /\ raw = <<>>
    /\ dataLines = <<>>
    /\ out = <<>>
    /\ u = NoUsage
    /\ gone = FALSE
    /\ seen = <<>>
    /\ event = NoEvent

-----------------------------------------------------------------------------
(***************************************************************************)
(* maybeInjectUsage.  A null stream_options decodes into a nil map without *)
(* an error, and the assignment to the nil map panics.                     *)
(***************************************************************************)
Injects == x.provider = "openai" /\ x.options \in {"absent", "object", "scalar"}
InjectPanics == x.provider = "openai" /\ x.options = "null"

Send ==
    /\ pc = "start"
    /\ pc' = IF InjectPanics THEN "panicked" ELSE "sent"
    /\ injected' = Injects
    /\ UNCHANGED <<x, streamVars, event>>

-----------------------------------------------------------------------------
(* enqueue *)

\* modelOr: the model the provider named, else the requested one.
ModelOr(named) == IF named THEN x.served ELSE x.asked

\* A token costs one unit; a model without a price costs nothing.
Cost(model, in, o) == IF model \in Priced THEN in + o ELSE 0

Enqueue(in, o, estimated, named) ==
    /\ event' = [in |-> in, out |-> o, estimated |-> estimated,
                 cost |-> Cost(ModelOr(named), in, o)]
    /\ pc' = "done"

\* client.Do failed: 502.
UpstreamFails ==
    /\ pc = "sent"
    /\ Enqueue(0, 0, FALSE, FALSE)
    /\ UNCHANGED <<x, injected, streamVars>>

\* bufferedResponse: an error status, a body with usage, or the chars/4
\* fallback (one token each way).
Buffered ==
    /\ pc = "sent"
    /\ \/ Enqueue(0, 0, FALSE, FALSE)
       \/ \E named \in BOOLEAN : Enqueue(2, 3, FALSE, named)
       \/ \E named \in BOOLEAN : Enqueue(1, 1, TRUE, named)
    /\ UNCHANGED <<x, injected, streamVars>>

StartStream ==
    /\ pc = "sent"
    /\ pc' = "streaming"
    /\ UNCHANGED <<x, injected, streamVars, event>>

-----------------------------------------------------------------------------
(* streamSSE *)

ObserveOpenAI(v, d) ==
    CASE d = "content"            -> [v EXCEPT !.named = TRUE]
      [] d \in {"usage", "both"}  -> [in |-> 2, out |-> 3, named |-> TRUE, has |-> TRUE]
      [] OTHER                    -> v

\* Slip: the provisional counts of message_start pass for authoritative.
ObserveAnthropicEarly(v, d) ==
    CASE d = "start" -> [v EXCEPT !.in = 2, !.out = 1, !.named = TRUE, !.has = TRUE]
      [] d = "delta" -> [v EXCEPT !.out = 3, !.has = TRUE]
      [] OTHER       -> v

ObserveAnthropic(v, d) ==
    CASE d = "start" -> [v EXCEPT !.in = 2, !.out = 1, !.named = TRUE]
      [] d = "delta" -> [v EXCEPT !.out = 3, !.has = TRUE]
      [] OTHER       -> v

Observe(v, d) ==
    IF x.provider = "anthropic" THEN ObserveAnthropic(v, d) ELSE ObserveOpenAI(v, d)

\* isOpenAIUsageOnly: usage and no choices.
IsUsageOnly(d) == d = "usage"

\* Slip: strips the frame whoever asked for it.
DropsAlways(ds) == \E i \in DOMAIN ds : IsUsageOnly(ds[i])
Drops(ds) == injected /\ \E i \in DOMAIN ds : IsUsageOnly(ds[i])

\* Slip: return instead of metering when the stream breaks.
AfterErrorReturn == "done"
AfterError == "ended"

\* The extractor sees the data lines of an event in order.
ObserveAll(v, ds) ==
    LET w[i \in 0..Len(ds)] == IF i = 0 THEN v ELSE Observe(w[i - 1], ds[i])
    IN  w[Len(ds)]

\* flushEvent: observe, then strip or write; a failed write ends the stream.
FlushEvent(r, ds, next) ==
    /\ u' = ObserveAll(u, ds)
    /\ raw' = <<>>
    /\ dataLines' = <<>>
    /\ \/ /\ Drops(ds)
          /\ pc' = next
          /\ UNCHANGED <<out, gone>>
       \/ /\ ~Drops(ds)
          /\ out' = out \o r
          /\ pc' = next
          /\ UNCHANGED gone
       \/ /\ ~Drops(ds)
          /\ gone' = TRUE
          /\ pc' = AfterError
          /\ UNCHANGED out

\* Slip: every line is taken for data.
IsDataAny(l) == TRUE
IsData(l) == l \in DataLines

ReadLine ==
    /\ pc = "streaming"
    /\ src # <<>>
    /\ src' = Tail(src)
    /\ seen' = Append(seen, Head(src))
    /\ IF Head(src) = "blank"
       THEN FlushEvent(Append(raw, "blank"), dataLines, "streaming")
       ELSE /\ raw' = Append(raw, Head(src))
            /\ dataLines' = IF IsData(Head(src)) THEN Append(dataLines, Head(src))
                                                 ELSE dataLines
            /\ UNCHANGED <<pc, out, u, gone>>
    /\ UNCHANGED <<x, injected, event>>

Closes(r, ds, next) ==
    IF r = <<>> THEN pc' = next /\ UNCHANGED <<raw, dataLines, out, u, gone>>
                ELSE FlushEvent(r, ds, next)

EndOfStream ==
    /\ pc = "streaming"
    /\ src = <<>>
    /\ Closes(raw, dataLines, "ended")
    /\ UNCHANGED <<x, injected, src, seen, event>>

(***************************************************************************)
(* Reading fails: the provider broke off, or the client's context was      *)
(* cancelled.  Part of the next line may have arrived: streamSSE takes it  *)
(* into the event it flushes, and what is no JSON is never stripped.  (The *)
(* whole line without its newline is as good as the line.)                 *)
(***************************************************************************)
StreamBreaks ==
    /\ pc = "streaming"
    /\ \/ Closes(raw, dataLines, AfterError) /\ UNCHANGED seen
       \/ /\ src # <<>> /\ Head(src) # "blank"
          /\ Closes(Append(raw, CutOf(Head(src))), dataLines, AfterError)
          /\ seen' = Append(seen, CutOf(Head(src)))
    /\ UNCHANGED <<x, injected, src, event>>

\* streamResponse, after streamSSE: no chars/4 here.
MeterStream ==
    /\ pc = "ended"
    /\ Enqueue(u.in, u.out, ~u.has, u.named)
    /\ UNCHANGED <<x, injected, streamVars>>

Finished == pc \in {"done", "panicked"} /\ UNCHANGED vars

Step ==
    \/ Send \/ UpstreamFails \/ Buffered \/ StartStream
    \/ ReadLine \/ EndOfStream \/ StreamBreaks \/ MeterStream

Next == Step \/ Finished

Spec == Init /\ [][Next]_vars

\* A stream goes on or ends; neither the proxy nor its client sets a timeout.
FairSpec == Spec /\ WF_vars(Step)

-----------------------------------------------------------------------------
(* The reference: events are what blank lines separate. *)

SameEvent(s, i, j) ==
    /\ i <= j => \A m \in i..(j - 1) : s[m] # "blank"
    /\ j <= i => \A m \in j..(i - 1) : s[m] # "blank"

\* The frame without choices, arrived whole, with its event: type, and blank
\* line.  The beginning of one is not part of it: InjectedNeverShown.
Synthetic(s, i) == \E j \in DOMAIN s : s[j] = "usage" /\ SameEvent(s, i, j)

Stripped(s) ==
    LET kept[i \in 0..Len(s)] ==
          IF i = 0 THEN <<>>
          ELSE IF Synthetic(s, i) THEN kept[i - 1] ELSE Append(kept[i - 1], s[i])
    IN  kept[Len(s)]

Original(s) == IF injected THEN Stripped(s) ELSE s

\* The lines of the events read to their end.
Flushed == SubSeq(seen, 1, Len(seen) - Len(raw))

(***************************************************************************)
(* The client receives what arrived of the provider's events unchanged and *)
(* in order, wherever the stream is cut, less every usage frame it did not *)
(* ask for that arrived whole; what it asked for itself is left alone      *)
(* (streamSSE, ADR-003).  A usage frame cut within its data line is not    *)
(* recognised, and passed on like any other line.                          *)
(***************************************************************************)
PassedThrough ==
    /\ IsPrefix(out, Original(Flushed))
    /\ ~gone => out = Original(Flushed)

(***************************************************************************)
(* README: the synthetic frame is stripped before the stream is passed to  *)
(* the client, so that metering does not leak into what the caller sees.   *)
(* Who did not ask for usage never receives any part of its frame.         *)
(***************************************************************************)
InjectedNeverShown ==
    injected => \A i \in DOMAIN out : out[i] \notin {"usage", "cutUsage"}

(***************************************************************************)
(* A streamed request is metered with the provider's authoritative counts  *)
(* exactly when their frame arrived before the stream ended, and marked    *)
(* estimated otherwise, even if the frame itself is stripped or could not  *)
(* be delivered (streamResponse).                                          *)
(***************************************************************************)
Authoritative == {"usage", "both", "delta"}

Arrived(l) == \E i \in DOMAIN seen : seen[i] = l

MeteredAsReported ==
    event # NoEvent /\ seen # <<>> =>
        /\ event.estimated = ~\E l \in Authoritative : Arrived(l)
        /\ ~event.estimated => event.out = 3
        /\ ~event.estimated /\ (x.provider = "anthropic" => Arrived("start")) =>
             event.in = 2

(***************************************************************************)
(* Every request sent to the provider is metered, whatever becomes of its  *)
(* response (streamResponse: we still meter).                              *)
(***************************************************************************)
AlwaysMetered == (pc = "sent") ~> (event # NoEvent)
=============================================================================
