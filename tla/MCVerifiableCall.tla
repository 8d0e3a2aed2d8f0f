-------------------------- MODULE MCVerifiableCall --------------------------
(***************************************************************************)
(* Two calls, so that the result of one may arrive for the other, over a   *)
(* set of requests in which every way a call can end occurs.               *)
(***************************************************************************)
EXTENDS VerifiableCall, TLC

CONSTANTS a, b

MCCalls == {a, b}
MCServerFormats == <<"demo-sig-v1", "noir-v1", "ezkl-v1">>
MCZkFormats == {"noir-v1", "ezkl-v1"}
MCDomainOf == ("noir-v1" :> {"small", "mid"}) @@ ("ezkl-v1" :> {"small"})
MCPrices == {1, 2}

\* Tools with arguments that they, or the circuits, tell apart, and with
\* requireInputProvenance where it makes a difference.
Arguable ==
    {<<"add", "small", TRUE>>, <<"add", "wide", FALSE>>, <<"riskScore", "small", FALSE>>,
     <<"riskScore", "small", TRUE>>, <<"priceQuote", "small", FALSE>>}

\* The client's formats and the one it asks for: the server's first, a zk
\* format, and one that it has not negotiated.
Offers ==
    {<<{"demo-sig-v1"}, None>>, <<{"demo-sig-v1", "ezkl-v1"}, "ezkl-v1">>, <<{"demo-sig-v1"}, "ezkl-v1">>}

\* requireProof and proofRequirement.
Stances == {<<TRUE, None>>, <<FALSE, None>>, <<TRUE, "preferred">>, <<FALSE, "none">>}

MCRequests ==
    {[tool |-> t[1], args |-> t[2], negotiated |-> TRUE, formats |-> o[1], requested |-> o[2],
      requireProof |-> s[1], proofRequirement |-> s[2], requireInputProvenance |-> t[3]] :
        t \in Arguable, s \in Stances, o \in Offers}
    \cup
    {[tool |-> "priceQuote", args |-> t, negotiated |-> FALSE, formats |-> {}, requested |-> None,
      requireProof |-> FALSE, proofRequirement |-> s, requireInputProvenance |-> FALSE] :
        t \in {"small", "bad"}, s \in {None, "required"}}

Symmetry == Permutations(MCCalls)

=============================================================================
