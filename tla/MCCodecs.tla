------------------------------ MODULE MCCodecs ------------------------------
(***************************************************************************)
(* The pure parts of the protocol over bounded inputs: the CBOR codec of   *)
(* MCCbor, and the proof formats, where two calls of `add` are proven and  *)
(* fields of the one's result replaced by the other's, as when a result is *)
(* stored, delivered twice or relayed by another implementation.           *)
(***************************************************************************)
EXTENDS MCCbor, ProofFormats

VARIABLES
    format,  \* the proof format, or None in a behaviour of the codec
    call,    \* the input of the call that is verified
    other,   \* the input of another call
    meta     \* the metadata that arrives, Undefined before the proof

formatVars == <<format, call, other, meta>>
codecVars == <<value, bytes>>

None == "none"

\* Arguments at the limits of each domain; commitments and nonces that differ
\* only by a multiple of the field's order, a leading zero or their case.
Arguments ==
    {<<1, 2>>, <<2, 1>>, <<EZKL_MAX_INPUT, EZKL_MAX_INPUT>>, <<0, EZKL_MAX_INPUT + 1>>, <<U32_MAX, 0>>,
     <<U32_MAX, 1>>, <<0, U32_MAX + 1>>}
Hex(n) == Numeral("0x", n)
Commitment1 == Hex(LimbBase + 1)
Commitments == {Commitment1, [Commitment1 EXCEPT !.upper = TRUE], Hex(LimbBase + 1 + BN254_SCALAR_FIELD)}
Nonces ==
    {Undefined, Hex(0), Hex(2), [Hex(2) EXCEPT !.zeros = 1], Hex(2 + BN254_SCALAR_FIELD),
     Hex(BN254_SCALAR_FIELD - 1)}

Input(f, arguments, commitment, nonce) ==
    [arguments |-> arguments, output |-> Decimal(Total(arguments)), circuitHash |-> f,
     outputCommitment |-> commitment, inputCommitment |-> Hex(Total(arguments)), nonce |-> nonce,
     inputAttestations |-> Undefined]

Inputs(f) == {Input(f, a, c, n) : a \in Arguments, c \in Commitments, n \in Nonces}

\* Inputs that a prover has to refuse, or to leave out of its format.
OddInputs(f) ==
    LET input == Input(f, <<1, 2>>, Commitment1, Hex(2))
    IN {input, [input EXCEPT !.circuitHash = "unknown"], [input EXCEPT !.output = Decimal(4)],
        [input EXCEPT !.output = Undefined], [input EXCEPT !.inputAttestations = <<Hex(5)>>]}

Others(f) ==
    OddInputs(f) \cup {Input(f, a, Commitment1, n) : a \in {<<2, 1>>, <<0, U32_MAX>>}, n \in {Undefined, Hex(2)}}

FormatInit ==
    /\ format \in Formats
    /\ call \in Inputs(format) \cup OddInputs(format)
    /\ other \in Others(format)
    /\ meta = Undefined

ProveCall ==
    /\ format # None /\ meta = Undefined
    /\ meta' = Prove(format, call)
    /\ UNCHANGED <<format, call, other>>

Arrived == format # None /\ meta \notin {Undefined, Refused}

\* A field arrives with the value it has in the result of the other call.
Replace(field) ==
    /\ Arrived
    /\ Prove(format, other) # Refused
    /\ meta[field] # Prove(format, other)[field]
    /\ meta' = [meta EXCEPT ![field] = Prove(format, other)[field]]
    /\ UNCHANGED <<format, call, other>>

\* A proof arrives with the public values of the other one.
ReplaceShown ==
    /\ Arrived /\ format \in SidecarFormats
    /\ Prove(format, other) # Refused
    /\ meta.proof.shown # Prove(format, other).proof.shown
    /\ meta' = [meta EXCEPT !.proof.shown = Prove(format, other).proof.shown]
    /\ UNCHANGED <<format, call, other>>

\* The last public value arrives with a leading zero.
Respell ==
    /\ Arrived
    /\ Last(meta.publicInputs).zeros = 0
    /\ meta' = [meta EXCEPT !.publicInputs[Len(meta.publicInputs)].zeros = 1]
    /\ UNCHANGED <<format, call, other>>

Replaceable ==
    {"proof", "publicInputs", "circuitHash", "outputCommitment", "inputCommitment", "nonce",
     "inputAttestations"}

FormatNext ==
    \/ ProveCall
    \/ \E field \in Replaceable : Replace(field)
    \/ ReplaceShown
    \/ Respell

CodecInit ==
    \/ Init /\ format = None /\ call = None /\ other = None /\ meta = Undefined
    \/ FormatInit /\ value = Failed /\ bytes = <<>>

CodecNext ==
    \/ format = None /\ Next /\ UNCHANGED formatVars
    \/ FormatNext /\ UNCHANGED codecVars

CodecSpec == CodecInit /\ [][CodecNext]_<<codecVars, formatVars>>

-----------------------------------------------------------------------------
Contexts ==
    {[arguments |-> input.arguments, text |-> text.output, expectedCircuitHash |-> hash] :
        input \in {call, other}, text \in {call, other}, hash \in {format, "unknown"}}

\* What the prover answers for these arguments and the rest as it arrived.
Honest(arguments) == Prove(format, AsInput(meta, arguments))

\* The format that only hashes what it is given sees neither the arguments nor
\* the text.
InProcessIsExact ==
    \A context \in Contexts :
        VerifyInProcess(format, meta, context) <=>
            /\ meta = Honest(context.arguments)
            /\ format # "demo-commit-v1" =>
                   /\ context.text = Decimal(Total(context.arguments))
                   /\ context.expectedCircuitHash = format

\* The ezkl sidecar reads numbers as Python does, leading zeros or not.
Spelling ==
    IF format = "ezkl-v1"
    THEN [meta EXCEPT !.publicInputs = [i \in DOMAIN @ |-> IF i > 3 THEN [@[i] EXCEPT !.zeros = 0] ELSE @[i]]]
    ELSE meta

SidecarIsExact ==
    \A hash \in {format, "unknown"} :
        SidecarVerify(format, meta, hash) <=>
            hash = format /\ \E input \in {call, other} : Spelling = Honest(input.arguments)

\* As much of a string as a proof of the format depends on.
Resolved(hex) ==
    CASE format = "demo-commit-v1" -> hex
      [] format = "risc0-v1" -> [hex EXCEPT !.upper = FALSE]
      [] OTHER -> hex.value % BN254_SCALAR_FIELD

ProofsAreBound ==
    (Prove(format, call) # Refused /\ Prove(format, other) # Refused) =>
        ( Prove(format, call).proof = Prove(format, other).proof <=>
            /\ \A i \in 1..3 : Resolved(Bound(call)[i]) = Resolved(Bound(other)[i])
            /\ IF format = "demo-commit-v1"
               THEN call.circuitHash = other.circuitHash /\ call.inputAttestations = other.inputAttestations
               ELSE call.arguments = other.arguments )

LimbsAgree ==
    \A i \in 1..3 :
        LET limbs == CommitmentToLimbs(Bound(call)[i])
        IN /\ limbs = CommitmentToU16Limbs(Bound(call)[i])
           /\ LimbsToField(Written(FeltHex, limbs), 0) = CommitmentToField(Bound(call)[i])

\* Every verifier of `add` accepts exactly what the prover of its format answers
\* for the arguments of the call and the commitments and nonce that arrive: the
\* languages agree on layouts, limbs and the limits of each domain, and a proof
\* passes for another call only if arguments and bound values coincide in the
\* circuit (binding.ts:25).  In process the text must be their sum as well; the
\* sidecars see no call and vouch for some arguments.
FormatsAreExact ==
    Arrived =>
        /\ InProcessIsExact
        /\ format \in SidecarFormats => SidecarIsExact
        /\ ProofsAreBound
        /\ LimbsAgree

=============================================================================
