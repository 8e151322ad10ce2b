----------------------------- MODULE MCExchange -----------------------------
(***************************************************************************)
(* Instances of Exchange for TLC.                                          *)
(***************************************************************************)
EXTENDS Exchange, TLC

CONSTANTS MaxLines, alias, snapshot

OpenAILines == OpenAIData \cup {"event", "blank"}
AnthropicLines == AnthropicData \cup {"event", "blank"}

MCExchangeOf(p, o, s) ==
    [provider |-> p, options |-> o, stream |-> s, asked |-> alias, served |-> snapshot]

\* Any lines in any order, and all the ways to ask for usage.
MCAnyStream ==
    {MCExchangeOf("openai", o, s) :
        o \in Options, s \in BoundedSeq(OpenAILines, MaxLines)}
    \cup {MCExchangeOf("anthropic", "nostream", s) :
              s \in {t \in BoundedSeq(AnthropicLines, MaxLines) : StartsFirst(t)}}

\* The shape of the recorded fixtures.
MCFixtures ==
    {MCExchangeOf("openai", o, s) :
        o \in Options,
        s \in {<<"content", "blank", "usage", "blank", "done", "blank">>,
               <<"content", "blank", "done", "blank">>}}
    \cup {MCExchangeOf("anthropic", "nostream",
             <<"event", "start", "blank", "event", "ping", "blank", "event", "delta", "blank">>)}

MCPriced == {alias, snapshot}
=============================================================================
