---------------------------- MODULE ProofFormats ----------------------------
(***************************************************************************)
(* The provers and verifiers of the tool `add`, as pure functions: each    *)
(* format lays the sum, the commitments and the nonce of a call out as the *)
(* public values of its circuit, in one language, and reads them back in   *)
(* another.  demo-commit-v1 hashes them, snarkjs-v2 and noir-v1 take       *)
(* residues in the scalar field, ezkl-v1 takes limbs of the residues and   *)
(* risc0-v1 digests; the last two are proved by a sidecar and may also be  *)
(* verified there.                                                         *)
(*                                                                         *)
(* A proof is what was proven, which nobody can choose, beside the public  *)
(* values an ezkl or risc0 proof shows of itself.  A hash is its argument. *)
(* The verification keys are at hand (KeyRegistry models how they get      *)
(* there), and an HTTP exchange with the sidecar succeeds: its failures    *)
(* count as a refusal on either side (ProofSlots models them).             *)
(***************************************************************************)
EXTENDS Naturals, Sequences, SequencesExt

CONSTANTS
    BN254_SCALAR_FIELD,  \* order of the field, scaled down
    LimbBase, LimbCount, \* 2^16 and 16, scaled down
    U32_MAX,             \* 2^32 - 1, scaled down
    EZKL_MAX_INPUT,      \* 2^24, the last integer a 32-bit float counts to, scaled down
    Refused,             \* the answer that is an error
    Undefined            \* a field that is not there

ASSUME ProofFormatsAssumption ==
    /\ {BN254_SCALAR_FIELD, LimbBase, LimbCount, U32_MAX, EZKL_MAX_INPUT} \subseteq Nat \ {0}
    /\ \A i \in 0..LimbCount : LimbBase^i \in Nat \ {0}
    /\ 2 * EZKL_MAX_INPUT <= U32_MAX
    /\ U32_MAX < BN254_SCALAR_FIELD
    /\ LimbBase - 1 <= EZKL_MAX_INPUT
    /\ BN254_SCALAR_FIELD <= LimbBase^LimbCount
    /\ Refused \notin Nat \cup (Nat \X Nat)

Formats == {"demo-commit-v1", "snarkjs-v2", "noir-v1", "ezkl-v1", "risc0-v1"}
SidecarFormats == {"ezkl-v1", "risc0-v1"}

\* A number as text: `zeros` leading zeros more than the base writes by itself,
\* in upper or lower case.
Numeral(base, value) == [base |-> base, value |-> value, zeros |-> 0, upper |-> FALSE]
Decimal(value) == Numeral("decimal", value)
Padded(value) == Numeral("hex64", value)
EMPTY_NONCE == Numeral("0x", 0)

NonceOf(record) == IF record.nonce = Undefined THEN EMPTY_NONCE ELSE record.nonce
Bound(record) == <<record.outputCommitment, record.inputCommitment, NonceOf(record)>>

ParseAddArguments(arguments) ==
    IF arguments[1] <= U32_MAX /\ arguments[2] <= U32_MAX /\ arguments[1] + arguments[2] <= U32_MAX
    THEN arguments ELSE Refused

ParseEzklAddArguments(arguments) ==
    IF ParseAddArguments(arguments) # Refused
       /\ arguments[1] <= EZKL_MAX_INPUT /\ arguments[2] <= EZKL_MAX_INPUT
    THEN arguments ELSE Refused

Total(arguments) == arguments[1] + arguments[2]

CommitmentToField(hex) == hex.value % BN254_SCALAR_FIELD

BoundFields(record) == [i \in 1..3 |-> CommitmentToField(Bound(record)[i])]

\* A proof of the public values `public` for the circuit of a format.
Proof(format, public) == [circuit |-> format, proven |-> public, shown |-> public]

\* The proof system's own check, against given public values or its own.
Proves(proof, format, public) == proof.circuit = format /\ proof.proven = public

Meta(format, circuitHash, input, proof, publicInputs) ==
    [proof |-> proof, proofFormat |-> format, circuitHash |-> circuitHash,
     inputCommitment |-> input.inputCommitment, outputCommitment |-> input.outputCommitment,
     nonce |-> input.nonce, publicInputs |-> publicInputs, inputAttestations |-> Undefined]

\* The circuit of a format, its hash, is named by the format.
SameCircuit(meta, context, format) ==
    meta.proofFormat = format /\ meta.circuitHash = context.expectedCircuitHash

-----------------------------------------------------------------------------
(***************************************************************************)
(* demo-commit-v1.                                                         *)
(***************************************************************************)
CommitInputs(record) ==
    Bound(record) \o (IF record.inputAttestations = Undefined THEN <<>> ELSE record.inputAttestations)

DemoCommitProve(input) ==
    [Meta("demo-commit-v1", input.circuitHash, input, Proof(input.circuitHash, CommitInputs(input)),
          CommitInputs(input))
        EXCEPT !.inputAttestations = input.inputAttestations]

DemoCommitVerify(meta) ==
    /\ meta.proofFormat = "demo-commit-v1"
    /\ meta.publicInputs = CommitInputs(meta)
    /\ Proves(meta.proof, meta.circuitHash, CommitInputs(meta))

-----------------------------------------------------------------------------
(***************************************************************************)
(* snarkjs-v2 and noir-v1: the same statement, with its public values in   *)
(* different orders and notations.                                         *)
(***************************************************************************)
AddCircom(a, b, fields) == <<(a + b) % BN254_SCALAR_FIELD, a, b>> \o fields
AddNoir(a, b, fields) == <<a, b>> \o fields \o <<a + b>>

Written(notation(_), values) == [i \in DOMAIN values |-> notation(values[i])]

SnarkjsProve(input) ==
    LET args == ParseAddArguments(input.arguments)
        signals == AddCircom(args[1], args[2], BoundFields(input))
    IN IF args = Refused THEN Refused
       ELSE Meta("snarkjs-v2", "snarkjs-v2", input, Proof("snarkjs-v2", signals),
                 Bound(input) \o Written(Decimal, signals))

VerifySnarkjs(meta, context) ==
    LET args == ParseAddArguments(context.arguments)
        expectedTail == <<Total(args), args[1], args[2]>> \o BoundFields(meta)
    IN /\ SameCircuit(meta, context, "snarkjs-v2") /\ meta.circuitHash = "snarkjs-v2"
       /\ args # Refused
       /\ context.text = Decimal(Total(args))
       /\ meta.publicInputs = Bound(meta) \o Written(Decimal, expectedTail)
       /\ Proves(meta.proof, "snarkjs-v2", expectedTail)

NoirProve(input) ==
    LET args == ParseAddArguments(input.arguments)
        signals == AddNoir(args[1], args[2], BoundFields(input))
    IN IF args = Refused THEN Refused
       ELSE Meta("noir-v1", "noir-v1", input, Proof("noir-v1", signals),
                 Bound(input) \o Written(Padded, signals))

VerifyNoir(meta, context) ==
    LET args == ParseAddArguments(context.arguments)
        expectedTail == <<args[1], args[2]>> \o BoundFields(meta) \o <<Total(args)>>
    IN /\ SameCircuit(meta, context, "noir-v1") /\ meta.circuitHash = "noir-v1"
       /\ args # Refused
       /\ context.text = Decimal(Total(args))
       /\ Len(meta.publicInputs) = 9
       /\ SubSeq(meta.publicInputs, 4, 9) = Written(Padded, expectedTail)
       /\ SubSeq(meta.publicInputs, 1, 3) = Bound(meta)
       /\ Proves(meta.proof, "noir-v1", expectedTail)

-----------------------------------------------------------------------------
(***************************************************************************)
(* ezkl-v1: commitments and nonce enter as limbs, as the circuit reads its *)
(* inputs through 32-bit floats.                                           *)
(***************************************************************************)
\* The limbs of protocol/binding.ts, from the least significant one.
CommitmentToU16Limbs(hex) ==
    LET limb(i) == (CommitmentToField(hex) \div LimbBase^i) % LimbBase
    IN [k \in 1..LimbCount |-> limb(LimbCount - k)]

CommitmentToLimbsMutant(hex) ==
    [i \in 1..LimbCount |-> (hex.value \div LimbBase^(LimbCount - i)) % LimbBase]

\* The limbs of the sidecar, from the most significant one.
CommitmentToLimbs(hex) ==
    LET fe == hex.value % BN254_SCALAR_FIELD
    IN [i \in 1..LimbCount |-> (fe \div LimbBase^(LimbCount - i)) % LimbBase]

FeltHex(value) == Numeral("feltLE", value)

BoundInstances(a, b, total, bound) ==
    Written(FeltHex, <<a, b>> \o CommitmentToLimbs(bound[1]) \o CommitmentToLimbs(bound[2])
                     \o CommitmentToLimbs(bound[3]) \o <<total>>)

\* An integer as a 32-bit float: of two beyond the exact range, one is lost.
Ingest(value) == IF value <= EZKL_MAX_INPUT THEN value ELSE 2 * (value \div 2)

\* What the circuit shows for the inputs in `instances`.
ProveJob(a, b, instances) ==
    LET inputs == <<a, b>> \o [i \in 1..3 * LimbCount |-> instances[i + 2].value]
        ingested == [i \in DOMAIN inputs |-> Ingest(inputs[i])]
    IN Written(FeltHex, Append(ingested, ingested[1] + ingested[2]))

HandleProve(body) ==
    LET a == body.arguments[1]
        b == body.arguments[2]
        expected == BoundInstances(a, b, a + b, Bound(body))
        instances == ProveJob(a, b, expected)
    IN IF \/ body.circuitHash # "ezkl-v1"
          \/ a > EZKL_MAX_INPUT \/ b > EZKL_MAX_INPUT
          \/ body.output \notin {Undefined, Decimal(a + b)}
          \/ instances # expected
       THEN Refused
       ELSE Meta("ezkl-v1", "ezkl-v1", body, Proof("ezkl-v1", instances),
                 Bound(body) \o Written(Decimal, <<a + b, a, b>>))

HandleVerify(meta, expectedCircuitHash) ==
    LET inputs == meta.publicInputs
        total == inputs[4].value
        a == inputs[5].value
        b == inputs[6].value
    IN /\ meta.proofFormat = "ezkl-v1"
       /\ meta.circuitHash = expectedCircuitHash /\ expectedCircuitHash = "ezkl-v1"
       /\ Len(inputs) = 6
       /\ SubSeq(inputs, 1, 3) = Bound(meta)
       /\ \A i \in 4..6 : inputs[i].base = "decimal"
       /\ a + b = total /\ a <= EZKL_MAX_INPUT /\ b <= EZKL_MAX_INPUT /\ total <= 2 * EZKL_MAX_INPUT
       /\ meta.proof.shown = BoundInstances(a, b, total, Bound(meta))
       /\ Proves(meta.proof, "ezkl-v1", meta.proof.shown)

DecodeU32Felt(felt) == IF felt.value <= U32_MAX THEN felt.value ELSE Refused

LimbsToField(instances, offset) ==
    LET limbs == [i \in 1..LimbCount |-> instances[offset + i].value]
        shiftIn(fe, limb) == fe * LimbBase + limb
    IN IF \E i \in DOMAIN limbs : limbs[i] >= LimbBase THEN Refused ELSE FoldLeft(shiftIn, 0, limbs)

VerifyEzkl(meta, context) ==
    LET instances == meta.proof.shown
        a == DecodeU32Felt(instances[1])
        b == DecodeU32Felt(instances[2])
        sum == DecodeU32Felt(instances[3 * LimbCount + 3])
    IN /\ SameCircuit(meta, context, "ezkl-v1")
       /\ Len(instances) = 3 * LimbCount + 3
       /\ a # Refused /\ b # Refused /\ sum # Refused
       /\ \A i \in 1..3 : LimbsToField(instances, 2 + (i - 1) * LimbCount) = BoundFields(meta)[i]
       /\ ParseEzklAddArguments(context.arguments) = <<a, b>>
       /\ sum = a + b
       /\ context.text = Decimal(sum)
       /\ meta.publicInputs = Bound(meta) \o Written(Decimal, <<sum, a, b>>)
       /\ Proves(meta.proof, "ezkl-v1", instances)

-----------------------------------------------------------------------------
(***************************************************************************)
(* risc0-v1: a receipt with a journal, a and b and their sum and three     *)
(* digests.                                                                *)
(***************************************************************************)
BoundDigest(hex) == [hex EXCEPT !.upper = FALSE]

Digests(record) == [i \in 1..3 |-> BoundDigest(Bound(record)[i])]

Journal(a, b, sum, digests) == [words |-> <<a, b, sum>>, digests |-> digests]

\* checked_add, in the guest and in the host.
CheckedAdd(a, b) == IF a + b <= U32_MAX THEN a + b ELSE Refused

Risc0Prove(input) ==
    LET a == input.arguments[1]
        b == input.arguments[2]
        sum == CheckedAdd(a, b)
        journal == Journal(a, b, sum, Digests(input))
    IN IF \/ input.circuitHash # "risc0-v1"
          \/ input.inputAttestations # Undefined
          \/ a > U32_MAX \/ b > U32_MAX
          \/ sum = Refused
          \/ input.output # Decimal(sum)
       THEN Refused
       ELSE Meta("risc0-v1", "risc0-v1", input, Proof("risc0-v1", journal),
                 Bound(input) \o Written(Decimal, <<sum, a, b>>))

Risc0SidecarVerify(meta, expectedCircuitHash) ==
    LET journal == meta.proof.shown
        a == journal.words[1]
        b == journal.words[2]
        sum == journal.words[3]
    IN /\ meta.proofFormat = "risc0-v1" /\ meta.circuitHash = expectedCircuitHash
       /\ Proves(meta.proof, expectedCircuitHash, journal)
       /\ CheckedAdd(a, b) = sum
       /\ Len(meta.publicInputs) = 6
       /\ SubSeq(meta.publicInputs, 1, 3) = Bound(meta)
       /\ journal.digests = Digests(meta)
       /\ SubSeq(meta.publicInputs, 4, 6) = Written(Decimal, <<sum, a, b>>)

VerifyRisc0(meta, context) ==
    LET journal == meta.proof.shown
        sum == journal.words[3]
    IN /\ SameCircuit(meta, context, "risc0-v1")
       /\ Proves(meta.proof, context.expectedCircuitHash, journal)
       /\ ParseAddArguments(context.arguments) = SubSeq(journal.words, 1, 2)
       /\ context.text = Decimal(sum)
       /\ journal.digests = Digests(meta)
       /\ meta.publicInputs =
              Bound(meta) \o Written(Decimal, <<sum, journal.words[1], journal.words[2]>>)

-----------------------------------------------------------------------------
\* SidecarProver.prove: what the sidecar answers must be about the input.
SidecarProve(format, input) ==
    LET meta == IF format = "ezkl-v1" THEN HandleProve(input) ELSE Risc0Prove(input)
        compared == {"circuitHash", "inputCommitment", "outputCommitment", "nonce", "inputAttestations"}
    IN IF meta # Refused /\ meta.proofFormat = format
          /\ \A field \in compared : meta[field] = input[field]
       THEN meta ELSE Refused

SidecarVerify(format, meta, expectedCircuitHash) ==
    IF format = "ezkl-v1" THEN HandleVerify(meta, expectedCircuitHash)
    ELSE Risc0SidecarVerify(meta, expectedCircuitHash)

Prove(format, input) ==
    CASE format = "demo-commit-v1" -> DemoCommitProve(input)
      [] format = "snarkjs-v2" -> SnarkjsProve(input)
      [] format = "noir-v1" -> NoirProve(input)
      [] format \in SidecarFormats -> SidecarProve(format, input)

VerifyInProcess(format, meta, context) ==
    CASE format = "demo-commit-v1" -> DemoCommitVerify(meta)
      [] format = "snarkjs-v2" -> VerifySnarkjs(meta, context)
      [] format = "noir-v1" -> VerifyNoir(meta, context)
      [] format = "ezkl-v1" -> VerifyEzkl(meta, context)
      [] format = "risc0-v1" -> VerifyRisc0(meta, context)

\* The input to which metadata with these arguments would be the answer.
AsInput(meta, arguments) ==
    [arguments |-> arguments, output |-> Decimal(Total(arguments)), circuitHash |-> meta.circuitHash,
     outputCommitment |-> meta.outputCommitment, inputCommitment |-> meta.inputCommitment,
     nonce |-> meta.nonce, inputAttestations |-> meta.inputAttestations]

=============================================================================
