------------------------------- MODULE Prices --------------------------------
(***************************************************************************)
(* Prices and estimates: internal/prices, and the amounts internal/proxy   *)
(* computes with them.                                                     *)
(*                                                                         *)
(* Prices are naturals, Scale of whose units make a micro-USD, so that a   *)
(* cost is exact before it is rounded.  An int64 holds MinInt..MaxInt.     *)
(***************************************************************************)
EXTENDS Integers

CONSTANTS
    Priced,         \* the models prices.yaml lists
    InPrice,        \* of a token of the request
    OutPrice,       \* of a token of the response
    Scale,
    MaxInt,
    DefaultOutput   \* defaultEstOutputTokens

ASSUME PricesAssumption ==
    /\ InPrice \in [Priced -> Nat]
    /\ OutPrice \in [Priced -> Nat]
    /\ Scale \in Nat \ {0}
    /\ MaxInt \in Nat
    /\ DefaultOutput \in Nat \ {0}

MinInt == 0 - MaxInt - 1

\* A model without a price costs nothing.
Cost(model, in, out) ==
    IF model \in Priced THEN in * InPrice[model] + out * OutPrice[model] ELSE 0

Round(x) == (2 * x + Scale) \div (2 * Scale)

\* What the conversion of a float64 that int64 cannot hold yields is the
\* processor's choice.
ToMicro(x) == IF Round(x) <= MaxInt THEN {Round(x)} ELSE {MinInt, MaxInt}

\* Slip: max_completion_tokens is not looked at.
RequestMaxTokensOld(ask) == ask.maxTokens
RequestMaxTokens(ask) ==
    IF ask.maxTokens > 0 THEN ask.maxTokens ELSE ask.maxCompletion

OutputCeiling(ask) ==
    IF RequestMaxTokens(ask) <= 0 THEN DefaultOutput ELSE RequestMaxTokens(ask)

EstimateMicro(ask) == ToMicro(Cost(ask.model, ask.len \div 4, OutputCeiling(ask)))
=============================================================================
