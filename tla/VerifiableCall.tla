--------------------------- MODULE VerifiableCall ---------------------------
(***************************************************************************)
(* A verifiable tool call end to end: the client sends tools/call with a   *)
(* fresh nonce and its proof requirement (packages/client/src/client.ts),  *)
(* the server negotiates a format, executes the tool and proves the result *)
(* or leaves it to be proven later (packages/server/src/index.ts), and the *)
(* client checks what it receives and decides whether to act on it         *)
(* (packages/verifier/src/verifier.ts).  A riskScore result also carries    *)
(* the attested price it was computed from (provenance.ts, pricefeed.ts).   *)
(*                                                                         *)
(* What the client receives need not be what the server sent for the call: *)
(* it may be the response to another call, or lack or misstate a field.    *)
(* Commitments are injective; a proof is a statement the prover has        *)
(* proven, an oracle's signature is what it has signed, and nobody else    *)
(* can make either.                                                        *)
(***************************************************************************)
EXTENDS Naturals, Sequences, FiniteSets, FiniteSetsExt, Functions

CONSTANTS
    Calls,          \* the calls the client makes
    Requests,       \* what a call may ask for
    ServerFormats,  \* the formats of the server's provers, in Map order
    ZkFormats,      \* isZkFormat
    DomainOf,       \* the arguments of `add` that each zk format accepts
    Undescribed,    \* the tools whose descriptor descriptorOverride takes away
    Prices,         \* what the price feed may return
    None            \* undefined

VARIABLES
    pc,        \* where each call stands
    request,   \* what was asked
    stage,     \* 1 for tools/call, 2 for verifiable-tools/prove
    output,    \* history: what executeTool computed for the call
    results,   \* the result store: resultId (the call's name) -> record
    proofs,    \* history: the statements the provers have proven
    sent,      \* history: every result the server has sent
    received,  \* what the client received for the call
    verdict    \* what verifyWithRequirement returned

vars == <<pc, request, stage, output, results, proofs, sent, received, verdict>>

\* What toolList promises of each tool that tools/call serves.
ToolDescriptors ==
    [add |-> [proofPolicy |-> "always", externalInputs |-> "no"],
     riskScore |-> [proofPolicy |-> "always", externalInputs |-> "yes"],
     priceQuote |-> [proofPolicy |-> "onDemand", externalInputs |-> "no"]]

Tools == DOMAIN ToolDescriptors

\* The descriptor as the client has it.
Descriptor(tool) ==
    IF tool \in Undescribed THEN [proofPolicy |-> "undeclared", externalInputs |-> "undeclared"]
    ELSE ToolDescriptors[tool]

Formats == Range(ServerFormats)
\* Arguments as the formats tell them apart: within every circuit's domain,
\* beyond ezkl's, beyond u32, and not acceptable to the tool.
Arguments == {"small", "mid", "wide", "bad"}
Requirements == {"required", "preferred", "none"}
Stages == {1, 2}

Request ==
    [tool : Tools, args : Arguments, negotiated : BOOLEAN, formats : SUBSET Formats,
     requested : Formats \cup {None}, requireProof : BOOLEAN,
     proofRequirement : Requirements \cup {None}, requireInputProvenance : BOOLEAN]

ASSUME CallAssumption ==
    /\ Requests \subseteq Request
    /\ ServerFormats \in Seq(Formats)
    /\ ZkFormats \subseteq Formats
    /\ DomainOf \in [ZkFormats -> SUBSET (Arguments \ {"bad"})]
    /\ Undescribed \subseteq Tools

-----------------------------------------------------------------------------
(***************************************************************************)
(* Negotiation (packages/protocol/src/meta.ts).                            *)
(***************************************************************************)
EffectiveProofRequirement(r) ==
    IF r.proofRequirement # None THEN r.proofRequirement
    ELSE IF r.negotiated /\ r.requireProof THEN "required" ELSE "preferred"

\* The positions of the formats offered for a tool: the circuits are compiled
\* for `add` only.
ToolFormats(tool) ==
    {i \in DOMAIN ServerFormats : ServerFormats[i] \notin ZkFormats \/ tool = "add"}

NegotiateProofFormatMutant(r) ==
    LET offered == ToolFormats(r.tool)
    IN  IF ~r.negotiated THEN None
        ELSE IF r.requested \in {ServerFormats[i] : i \in offered} THEN r.requested
        ELSE ServerFormats[Min(offered)]

\* The requested format if both sides have it, else the server's first that the
\* client has.
NegotiateProofFormat(r) ==
    LET common == {i \in ToolFormats(r.tool) : r.negotiated /\ ServerFormats[i] \in r.formats}
        named == {i \in common : ServerFormats[i] = r.requested}
        eligible == IF r.requested = None THEN common ELSE named
    IN  IF eligible = {} THEN None ELSE ServerFormats[Min(eligible)]

\* parseAddArguments and parseEzklAddArguments, before a zk format is used.
ProvableArguments(r, format) ==
    r.tool = "add" /\ format \in ZkFormats => r.args \in DomainOf[format]

-----------------------------------------------------------------------------
(***************************************************************************)
(* Commitments, statements and results.  circuitHash is the tool's own     *)
(* except for the zk formats, which have one each.                         *)
(***************************************************************************)
CircuitHash(tool, format) == <<tool, IF format \in ZkFormats THEN format ELSE "default">>
InputCommitment(args) == <<"inputCommitment", args>>
OutputCommitment(content) == <<"outputCommitment", content>>
Nonce(c, s) == <<"nonce", c, s>>

\* attestationCommitment, and what an oracle signs.
AttestationCommitment(data) == <<"attestationCommitment", data>>
OracleSignature(type, source, commitment) == <<type, source, commitment>>

\* The price feed's attestation of a symbol's price.
OracleAttestation(symbol, price) ==
    LET commitment == AttestationCommitment(<<symbol, price>>)
    IN  [type |-> "oracle-sig-v1", source |-> symbol, data |-> <<symbol, price>>,
         commitment |-> commitment, proof |-> OracleSignature("oracle-sig-v1", symbol, commitment)]

\* The tail of publicInputs; the other public inputs repeat fields of the meta.
AttestationCommits(attestation) == IF attestation = None THEN <<>> ELSE <<attestation.commitment>>

NoMeta ==
    [proof |-> None, proofFormat |-> None, circuitHash |-> None, inputCommitment |-> None,
     outputCommitment |-> None, nonce |-> None, publicInputs |-> <<>>, attestation |-> None,
     resultId |-> None]

Statement(tool, args, content, format, nonce, attestation) ==
    [proofFormat |-> format, circuitHash |-> CircuitHash(tool, format),
     inputCommitment |-> InputCommitment(args), outputCommitment |-> OutputCommitment(content),
     nonce |-> nonce, publicInputs |-> AttestationCommits(attestation)]

\* The meta that provenResult attaches: the proof and the fields it binds.
ProvenMeta(statement, attestation) ==
    [proof |-> statement, proofFormat |-> statement.proofFormat, circuitHash |-> statement.circuitHash,
     inputCommitment |-> statement.inputCommitment, outputCommitment |-> statement.outputCommitment,
     nonce |-> statement.nonce, publicInputs |-> statement.publicInputs, attestation |-> attestation,
     resultId |-> None]

Result(c, s, content, meta) == [call |-> c, stage |-> s, content |-> content, meta |-> meta]

NoVerdict == [outcome |-> "none", act |-> FALSE]

\* undefined is no commitment and nothing an oracle states.
ASSUME UndefinedAssumption ==
    \A args \in Arguments, price \in Prices \cup {None} :
        /\ None # InputCommitment(args)
        /\ \A tool \in Tools : None # OutputCommitment(<<tool, args, price>>)
        /\ None # <<args, price>>

Init ==
    /\ pc = [c \in Calls |-> "idle"]
    /\ request = [c \in Calls |-> None]
    /\ stage = [c \in Calls |-> 1]
    /\ output = [c \in Calls |-> None]
    /\ results = {}
    /\ proofs = {}
    /\ sent = {}
    /\ received = [c \in Calls |-> None]
    /\ verdict = [c \in Calls |-> NoVerdict]

Goto(c, state) == pc' = [pc EXCEPT ![c] = state]

-----------------------------------------------------------------------------
(***************************************************************************)
(* The client sends the call.                                              *)
(***************************************************************************)
CallTool(c, r) ==
    /\ pc[c] = "idle"
    /\ request' = [request EXCEPT ![c] = r]
    /\ Goto(c, "sent")
    /\ UNCHANGED <<stage, output, results, proofs, sent, received, verdict>>

(***************************************************************************)
(* The server's callTool, one action per way it ends.                      *)
(***************************************************************************)
\* Negotiation fails or the arguments are refused, before execution or by it.
Refused(c) ==
    LET r == request[c]
        format == NegotiateProofFormat(r)
    IN  \/ EffectiveProofRequirement(r) = "required" /\ format = None
        \/ ~ProvableArguments(r, format)
        \/ r.args = "bad"

\* A deferred result is for callers that negotiated and prefer a proof.
Deferred(c) ==
    /\ request[c].tool = "priceQuote"
    /\ request[c].negotiated
    /\ EffectiveProofRequirement(request[c]) = "preferred"

WantsProof(c) ==
    /\ NegotiateProofFormat(request[c]) # None
    /\ EffectiveProofRequirement(request[c]) # "none"

\* The price feed answers anew for every riskScore call.
Outputs(r) == {<<r.tool, r.args, price>> : price \in IF r.tool = "riskScore" THEN Prices ELSE {None}}

Send(c, result) ==
    /\ sent' = sent \cup {result}
    /\ Goto(c, "answered")

\* An error: callTool of the client throws.
Fail(c) ==
    /\ Goto(c, "failed")
    /\ UNCHANGED <<request, stage, output, results, proofs, sent, received, verdict>>

Refuse(c) == pc[c] = "sent" /\ Refused(c) /\ Fail(c)

\* The price feed cannot be reached.
FeedFails(c) ==
    pc[c] = "sent" /\ ~Refused(c) /\ request[c].tool = "riskScore" /\ Fail(c)

\* inputAttestations of the call: what the price came with.
Attested(tool, args, content) ==
    IF tool = "riskScore" THEN OracleAttestation(args, content[3]) ELSE None

\* executeTool has run, on the price that the attestation states.
Execute(c, content) ==
    /\ pc[c] = "sent"
    /\ ~Refused(c)
    /\ content \in Outputs(request[c])
    /\ output' = [output EXCEPT ![c] = content]
    /\ UNCHANGED <<request, stage, received, verdict>>

AnswerDeferred(c, content) ==
    /\ Deferred(c)
    /\ Execute(c, content)
    /\ results' = results \cup {[id |-> c, tool |-> request[c].tool, args |-> request[c].args, content |-> content]}
    /\ Send(c, Result(c, 1, content, [NoMeta EXCEPT !.resultId = c]))
    /\ UNCHANGED proofs

AnswerPlain(c, content) ==
    /\ ~Deferred(c) /\ ~WantsProof(c)
    /\ Execute(c, content)
    /\ Send(c, Result(c, 1, content, NoMeta))
    /\ UNCHANGED <<results, proofs>>

\* provenResult(): the prover proves the statement and it is attached.
SendProven(c, s, tool, args, content, format, attestation) ==
    LET statement == Statement(tool, args, content, format, Nonce(c, s), attestation)
    IN  /\ proofs' = proofs \cup {statement}
        /\ Send(c, Result(c, s, content, ProvenMeta(statement, attestation)))

AnswerProven(c, content) ==
    /\ ~Deferred(c) /\ WantsProof(c)
    /\ Execute(c, content)
    /\ LET r == request[c]
       IN  SendProven(c, 1, r.tool, r.args, content, NegotiateProofFormat(r),
                      Attested(r.tool, r.args, content))
    /\ UNCHANGED results

ProverFailsMutant(c, content) ==
    /\ ~Deferred(c) /\ WantsProof(c)
    /\ Execute(c, content)
    /\ Send(c, Result(c, 1, content, NoMeta))
    /\ UNCHANGED <<results, proofs>>

\* The prover fails: proofUnavailable if a proof is required, else the bare
\* result.
ProverFails(c, content) ==
    /\ ~Deferred(c) /\ WantsProof(c)
    /\ Execute(c, content)
    /\ IF EffectiveProofRequirement(request[c]) = "required"
       THEN Goto(c, "failed") /\ UNCHANGED sent
       ELSE Send(c, Result(c, 1, content, NoMeta))
    /\ UNCHANGED <<results, proofs>>

-----------------------------------------------------------------------------
(***************************************************************************)
(* Delivery.  Any result the server has sent may arrive, as it was sent or *)
(* with one field missing or wrong, or with the attestation of another.    *)
(***************************************************************************)
AlteredAttestations(attestation) ==
    IF attestation = None THEN {}
    ELSE {[attestation EXCEPT !.type = "unknown"],
          [attestation EXCEPT !.data = None],
          [attestation EXCEPT !.data = <<"garbled">>],
          [attestation EXCEPT !.proof = <<"garbled">>]}

Altered(result, c) ==
    {[result EXCEPT !.content = <<"garbled">>],
     [result EXCEPT !.meta = NoMeta],
     [result EXCEPT !.meta.outputCommitment = None],
     [result EXCEPT !.meta.nonce = Nonce(c, stage[c])]}
    \cup {[result EXCEPT !.meta.attestation = attestation] :
              attestation \in AlteredAttestations(result.meta.attestation)}
    \cup {[result EXCEPT !.meta.attestation = other.meta.attestation,
                         !.meta.publicInputs = other.meta.publicInputs] : other \in sent}

Deliver(c) ==
    /\ pc[c] = "answered"
    /\ \E result \in sent :
           \E arriving \in {result} \cup Altered(result, c) :
               received' = [received EXCEPT ![c] = arriving]
    /\ Goto(c, "received")
    /\ UNCHANGED <<request, stage, output, results, proofs, sent, verdict>>

-----------------------------------------------------------------------------
(***************************************************************************)
(* The client's checks, in the order of verifyResult: the first that fails *)
(* is the reason.                                                          *)
(***************************************************************************)
\* verifier.verify: the proof verifies, and binds the fields of the meta.
ProofVerifiesMutant(meta) == meta.proof \in proofs

ProofVerifies(meta) ==
    /\ meta.proof \in proofs
    /\ \A field \in DOMAIN meta.proof : meta[field] = meta.proof[field]
    /\ meta.publicInputs = AttestationCommits(meta.attestation)

\* parseInputAttestation; None stands for a field of another type.
WellFormed(attestation) == attestation.data # None

\* OracleSigVerifier.verify; the oracle's key is at hand.
OracleSigVerifies(attestation) ==
    /\ AttestationCommitment(attestation.data) = attestation.commitment
    /\ attestation.proof = OracleSignature(attestation.type, attestation.source, attestation.commitment)

\* Only a descriptor that says "no" waives the attestation.
ProvenanceRequired(r) == r.requireInputProvenance /\ Descriptor(r.tool).externalInputs # "no"

ProvenanceChecksMutant(meta, required) ==
    <<<<"provenanceMissing", ~required \/ meta.attestation # None>>>>

\* verifyProvenance; a check of an attestation that is not there passes.
ProvenanceChecks(meta, required) ==
    LET attestation == meta.attestation
        absent == attestation = None
    IN  <<<<"provenanceMissing", ~required \/ ~absent>>,
          <<"provenanceMalformed", absent \/ WellFormed(attestation)>>,
          <<"provenanceUnbound", absent \/ attestation.commitment \in Range(meta.publicInputs)>>,
          <<"provenanceInvalid", absent \/ AttestationCommitment(attestation.data) = attestation.commitment>>,
          <<"provenanceUnsupported", absent \/ attestation.type = "oracle-sig-v1">>,
          <<"provenanceInvalid", absent \/ OracleSigVerifies(attestation)>>>>

Checks(meta, content, r, nonce) ==
    <<<<"noProof", meta.proof # None>>,
      <<"formatNotNegotiated", meta.proofFormat \in r.formats>>,
      <<"circuitHashMismatch", meta.circuitHash = CircuitHash(r.tool, meta.proofFormat)>>,
      <<"missingCommitment", meta.inputCommitment # None /\ meta.outputCommitment # None>>,
      <<"inputCommitmentMismatch", meta.inputCommitment = InputCommitment(r.args)>>,
      <<"outputCommitmentMismatch", meta.outputCommitment = OutputCommitment(content)>>,
      <<"nonceMismatch", meta.nonce = nonce>>,
      <<"proofInvalid", ProofVerifies(meta)>>>>
    \o ProvenanceChecks(meta, ProvenanceRequired(r))

FirstFailed(checks) ==
    LET failed == {i \in DOMAIN checks : ~checks[i][2]}
    IN  IF failed = {} THEN "ok" ELSE checks[Min(failed)][1]

ClassifyOutcome(reason) ==
    CASE reason = "ok" -> "verified"
      [] reason \in {"noProof", "missingCommitment"} -> "absent"
      [] OTHER -> "invalid"

\* The server breaks the promise of its descriptor with an absent proof.
DescriptorViolation(tool, meta) ==
    \/ Descriptor(tool).proofPolicy = "always"
    \/ Descriptor(tool).proofPolicy \in {"onDemand", "sampled"} /\ meta.resultId = None

MayActMutant(outcome, requirement, violation) ==
    outcome = "verified" \/ (outcome = "absent" /\ ~violation)

MayAct(outcome, requirement, violation) ==
    \/ outcome = "verified"
    \/ outcome = "absent" /\ requirement = "preferred" /\ ~violation

\* verifyWithRequirement: under "none" nothing is evaluated and all accepted.
VerifyWithRequirement(c) ==
    LET r == request[c]
        result == received[c]
        requirement == EffectiveProofRequirement(r)
        outcome == ClassifyOutcome(FirstFailed(Checks(result.meta, result.content, r, Nonce(c, stage[c]))))
    IN  IF requirement = "none"
        THEN [outcome |-> "absent", act |-> TRUE]
        ELSE [outcome |-> outcome,
              act |-> MayAct(outcome, requirement, DescriptorViolation(r.tool, result.meta))]

\* Only a client that negotiated the extension verifies.
Verify(c) ==
    /\ pc[c] = "received"
    /\ request[c].negotiated
    /\ verdict' = [verdict EXCEPT ![c] = VerifyWithRequirement(c)]
    /\ Goto(c, "decided")
    /\ UNCHANGED <<request, stage, output, results, proofs, sent, received>>

-----------------------------------------------------------------------------
(***************************************************************************)
(* verifiable-tools/prove, for a result that came with a resultId.         *)
(***************************************************************************)
Prove(c) ==
    /\ pc[c] = "decided"
    /\ verdict[c].outcome = "absent"
    /\ stage[c] = 1
    /\ received[c].meta.resultId # None
    /\ stage' = [stage EXCEPT ![c] = 2]
    /\ verdict' = [verdict EXCEPT ![c] = NoVerdict]
    /\ Goto(c, "proving")
    /\ UNCHANGED <<request, output, results, proofs, sent, received>>

\* The server proves the retained record.
AnswerProve(c) ==
    /\ pc[c] = "proving"
    /\ \E record \in results :
           LET format == NegotiateProofFormat([request[c] EXCEPT !.tool = record.tool])
           IN  /\ record.id = received[c].meta.resultId
               /\ format # None
               /\ SendProven(c, 2, record.tool, record.args, record.content, format, None)
    /\ UNCHANGED <<request, stage, output, results, received, verdict>>

\* The record has expired, no format fits, or the prover fails.
ProveFails(c) == pc[c] = "proving" /\ Fail(c)

CallStep(c) ==
    \/ \E r \in Requests : CallTool(c, r)
    \/ Refuse(c) \/ FeedFails(c)
    \/ /\ pc[c] = "sent"
       /\ \E content \in Outputs(request[c]) :
             \/ AnswerDeferred(c, content) \/ AnswerPlain(c, content)
             \/ AnswerProven(c, content) \/ ProverFails(c, content)
    \/ Deliver(c) \/ Verify(c)
    \/ Prove(c) \/ AnswerProve(c) \/ ProveFails(c)

Next == \E c \in Calls : CallStep(c)

Spec == Init /\ [][Next]_vars

-----------------------------------------------------------------------------
\* A call that requires a proof is never answered with a result that lacks one:
\* whatever fails, and on deferred tools too, the result carries a proof of this
\* call, with its nonce (server index.ts:178, 205-215;
\* docs/spec/verifiable-tools.md on "required").
RequiredIsProven ==
    \A result \in sent :
        LET r == request[result.call] IN
        result.stage = 1 /\ EffectiveProofRequirement(r) = "required" =>
            /\ ProofVerifies(result.meta)
            /\ result.meta.proof = Statement(r.tool, r.args, output[result.call],
                                            result.meta.proofFormat, Nonce(result.call, 1),
                                            Attested(r.tool, r.args, output[result.call]))

\* A verified result is the one the server computed for this very call, proven
\* for its nonce, although results of other calls and altered ones arrive
\* (verifier.ts:37-66).  An attestation that came with it states, over the
\* oracle's signature, the very price the result was computed from, and where
\* the client demands provenance a riskScore has one, whatever the descriptor
\* leaves undeclared (provenance.ts:40-66, client.ts:153-156).
VerifiedIsGenuine ==
    \A c \in Calls : verdict[c].outcome = "verified" =>
        LET r == request[c]
            attestation == received[c].meta.attestation
        IN  /\ received[c].content = output[c]
            /\ \E statement \in proofs :
                   /\ statement.nonce = Nonce(c, stage[c])
                   /\ statement.outputCommitment = OutputCommitment(output[c])
            /\ attestation # None => attestation = OracleAttestation(r.args, output[c][3])
            /\ r.tool = "riskScore" /\ r.requireInputProvenance => attestation # None

\* The client acts on a foreign or altered result only where it asked for no
\* evidence, or preferred it, got none and was promised none: never under
\* "required", never on a tool that is always proven, and never when complete
\* evidence came with it.  A proof without its commitments counts as none, so
\* it protects no more than a missing one (client.ts:158-177,
\* verifier.ts:25-28).
ActIsGenuine ==
    \A c \in Calls :
        LET r == request[c]
            meta == received[c].meta
        IN  /\ verdict[c].act
            /\ EffectiveProofRequirement(r) # "none"
            /\ \/ EffectiveProofRequirement(r) = "required"
               \/ Descriptor(r.tool).proofPolicy = "always"
               \/ meta.proof # None /\ meta.inputCommitment # None /\ meta.outputCommitment # None
            => received[c].content = output[c]

\* A proven result that arrives as it was sent is verified: server and client
\* agree on format, circuit, commitments and nonce, for eager and for deferred
\* proofs (server index.ts:229-241, 292-313; client.ts:124-157).  The one reason
\* to refuse it is an attestation that the client demands, because the descriptor
\* does not waive it, of a tool that has none (provenance.ts:46-49).
HonestVerifies ==
    \A c \in Calls :
        /\ pc[c] = "decided"
        /\ EffectiveProofRequirement(request[c]) # "none"
        /\ received[c] \in sent
        /\ received[c].call = c /\ received[c].stage = stage[c]
        /\ received[c].content = output[c]
        /\ received[c].meta.proof # None
        /\ ProvenanceRequired(request[c]) => received[c].meta.attestation # None
        => verdict[c].outcome = "verified"

=============================================================================
