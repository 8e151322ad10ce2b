----------------------------- MODULE MCGateway ------------------------------
(***************************************************************************)
(* An instance of Gateway for TLC: one priced model, half a micro-USD for  *)
(* a token of the request and one and a half for a token of the response.  *)
(***************************************************************************)
EXTENDS Gateway, TLC

CONSTANTS r1, r2, acme

MCRequests == {r1, r2}
MCTenants == {acme}
MCNone == {}
MCSymmetry == Permutations(MCRequests)
MCTenantOf == r1 :> acme @@ r2 :> acme
MCLimit == acme :> 5

MCPriced == {"gpt"}
MCInPrice == "gpt" :> 1
MCOutPrice == "gpt" :> 3

Body(model, len, tokens, completion) ==
    [model |-> model, len |-> len, maxTokens |-> tokens, maxCompletion |-> completion]

\* Estimates 4 and 2, and one beyond MaxInt.
MCAsks == {Body("gpt", 4, 0, 2), Body("gpt", 7, 0, 0), Body("gpt", 4, 9, 0)}

Usage(model, in, out) == [model |-> model, in |-> in, out |-> out]

\* A cost of 4, one the table does not take, and a model without a price.
MCReplies == {Usage("gpt", 1, 2), Usage("gpt", 3, 3), Usage("snapshot", 1, 1)}
=============================================================================
