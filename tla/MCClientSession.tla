-------------------------- MODULE MCClientSession --------------------------
(***************************************************************************)
(* A server that lists its tools as toolList does, one that leaves the     *)
(* descriptors out, and one that lists a tool under another circuit; a     *)
(* client that changes its mind once.                                      *)
(***************************************************************************)
EXTENDS ClientSession, TLC

Meta(proofPolicy, externalInputs) ==
    [proofPolicy |-> proofPolicy, externalInputs |-> externalInputs, pinned |-> TRUE]

ToolList ==
    [privateCreditCheck |-> Meta("always", FALSE), riskScore |-> Meta("always", TRUE),
     priceQuote |-> Meta("onDemand", FALSE)]

MCFormats == <<"demo-sig-v1", "demo-commit-v1", "tee-nitro-v1">>

Standard == [formats |-> MCFormats, retains |-> TRUE, tools |-> ToolList]
Silent == [formats |-> <<"tee-nitro-v1", "demo-sig-v1">>, retains |-> FALSE,
           tools |-> [tool \in Tools |-> IF tool = "priceQuote" THEN Meta(None, None) ELSE None]]
Mislabelled == [Standard EXCEPT !.formats = <<"tee-nitro-v1">>, !.tools["riskScore"].pinned = FALSE]
MCFirstConfigs == {Standard, Silent}
MCConfigs == {Standard, Mislabelled}

MCCapabilities ==
    {[formats |-> Formats, blindExecution |-> TRUE, requireProof |-> FALSE, requireInputProvenance |-> FALSE],
     [formats |-> {"demo-sig-v1"}, blindExecution |-> FALSE, requireProof |-> TRUE,
      requireInputProvenance |-> TRUE]}

Call(tool, format, requirement) ==
    [kind |-> "call", tool |-> tool, format |-> format, proofRequirement |-> requirement]
Blind(format, encryptReply) ==
    [kind |-> "blind", tool |-> "privateCreditCheck", format |-> format, encryptReply |-> encryptReply]

MCWorks ==
    {[kind |-> "discover"], Blind("demo-sig-v1", TRUE), Blind("tee-nitro-v1", FALSE),
     Call("riskScore", "tee-nitro-v1", None), Call("priceQuote", None, None), Call("riskScore", None, "none")}

Symmetry == Permutations(Ops)

=============================================================================
