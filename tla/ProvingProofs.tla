--------------------------- MODULE ProvingProofs ---------------------------
(***************************************************************************)
(* Proving, by the sidecars and in process: a proof is made when there is  *)
(* a slot for it, and accepted exactly if it is of the call.               *)
(*                                                                         *)
(* ProofSlots: the risc0 sidecar's counter is the number of its proofs in  *)
(* flight, and its lock-free admission implements the semaphore of         *)
(* JobSlots, for every finite set of threads and every limit.              *)
(*                                                                         *)
(* ProofFormats: what the verifiers of `add` accept is what its provers    *)
(* answer, and a proof fits two calls only if they coincide in its         *)
(* circuit, for every order of the field, limit of the arguments and size  *)
(* of the limbs.                                                           *)
(***************************************************************************)
EXTENDS ProofSlots, ProofFormats, FiniteSetTheorems, SequenceTheorems, TLAPS

(***************************************************************************)
(* The slots of the risc0 sidecar.                                         *)
(***************************************************************************)
\* What try_acquire_proof_slot has loaded, and goes on with, is below the limit
\* (main.rs:36); it may be out of date, but then the compare-exchange fails.
LoadedBelowLimit == \A t \in Threads : pc[t] = "loaded" => current[t] < Limit

IInv == TypeOK /\ LoadedBelowLimit /\ CounterIsExact

-----------------------------------------------------------------------------
\* The threads with a slot are finitely many.
LEMMA HoldersFinite ==
    /\ IsFiniteSet(Holders)
    /\ Cardinality(Holders) \in Nat
<1>1. Holders \subseteq Threads
  BY DEF Holders
<1>2. IsFiniteSet(Holders)
  BY <1>1, FS_Subset, ProofSlotsAssumption
<1>3. QED
  BY <1>2, FS_CardinalityType

\* JobSlots counts as this module does.
LEMMA SameCardinality == ASSUME NEW S PROVE Slots!Cardinality(S) = Cardinality(S)
  BY DEF Cardinality, Slots!Cardinality

\* Taking the slot: one more holder.
LEMMA TakesSlot ==
    ASSUME TypeOK, NEW t \in Threads, pc[t] = "loaded", Goto(t, "reading")
    PROVE  /\ t \notin Holders
           /\ Holders' = Holders \cup {t}
           /\ Cardinality(Holders') = Cardinality(Holders) + 1
<1>1. t \notin Holders /\ Holders' = Holders \cup {t}
  BY DEF TypeOK, Holders, Goto
<1>2. Cardinality(Holders \cup {t}) = Cardinality(Holders) + 1
  BY <1>1, HoldersFinite, FS_AddElement
<1>3. QED
  BY <1>1, <1>2

\* Dropping the guard: one holder less.
LEMMA DropsSlot ==
    ASSUME TypeOK, NEW t \in Threads, pc[t] \in {"reading", "proving"}, Goto(t, "responding")
    PROVE  /\ t \in Holders
           /\ Holders' = Holders \ {t}
           /\ Cardinality(Holders') = Cardinality(Holders) - 1
<1>1. t \in Holders /\ Holders' = Holders \ {t}
  BY DEF TypeOK, Holders, Goto
<1>2. Cardinality(Holders \ {t}) = Cardinality(Holders) - 1
  BY <1>1, HoldersFinite, FS_RemoveElement
<1>3. QED
  BY <1>1, <1>2

\* Every other move of a thread leaves the holders alone.
LEMMA KeepsSlots ==
    ASSUME TypeOK, NEW t \in Threads, NEW state \in ProofStates, Goto(t, state),
           pc[t] \in {"reading", "proving"} <=> state \in {"reading", "proving"}
    PROVE  Holders' = Holders
  BY DEF TypeOK, Holders, Goto

\* What one step does: the invariant stays, and the holders change as the
\* abstract semaphore allows, or not at all.
Step(t) ==
    /\ IInv'
    /\ Slots!Acquire(t) \/ Slots!Release(t) \/ UNCHANGED Holders

LEMMA ThreadStepCorrect ==
    ASSUME IInv, NEW t \in Threads, Request(t) \/ GiveUp(t) \/ ThreadStep(t)
    PROVE  Step(t)
<1> USE HoldersFinite
<1>1. CASE Request(t)
  <2>1. Holders' = Holders
    BY <1>1, KeepsSlots DEF IInv, Request, ProofStates
  <2>2. QED
    BY <1>1, <2>1 DEF IInv, TypeOK, LoadedBelowLimit, CounterIsExact, Step, Request, Goto,
                      ProofStates, ClientStates
<1>2. CASE GiveUp(t)
  <2>1. Holders' = Holders
    BY <1>2 DEF GiveUp, Holders
  <2>2. QED
    BY <1>2, <2>1 DEF IInv, TypeOK, LoadedBelowLimit, CounterIsExact, Step, GiveUp, ClientStates
<1>3. CASE Load(t)
  <2>1. Holders' = Holders
    <3>1. CASE inFlight >= Limit
      BY <1>3, <3>1, KeepsSlots DEF IInv, Load, ProofStates
    <3>2. CASE ~(inFlight >= Limit)
      BY <1>3, <3>2, KeepsSlots DEF IInv, Load, ProofStates
    <3>3. QED
      BY <3>1, <3>2
  <2>2. QED
    BY <1>3, <2>1, ProofSlotsAssumption
       DEF IInv, TypeOK, LoadedBelowLimit, CounterIsExact, Step, Load, Goto, ProofStates
<1>4. CASE CompareExchange(t) /\ inFlight = current[t]
  <2>1. pc[t] = "loaded" /\ inFlight' = inFlight + 1 /\ Goto(t, "reading")
        /\ UNCHANGED <<current, client>>
    BY <1>4 DEF CompareExchange
  <2>2. /\ t \notin Holders
        /\ Holders' = Holders \cup {t}
        /\ Cardinality(Holders') = Cardinality(Holders) + 1
    BY <2>1, TakesSlot DEF IInv
  <2>3. inFlight < Limit
    BY <1>4, <2>1 DEF IInv, LoadedBelowLimit
  <2>4. Slots!Acquire(t)
    BY <2>2, <2>3, SameCardinality DEF IInv, CounterIsExact, Slots!Acquire
  <2>5. QED
    BY <2>1, <2>2, <2>4
       DEF IInv, TypeOK, LoadedBelowLimit, CounterIsExact, Step, Goto, ProofStates
<1>5. CASE CompareExchange(t) /\ inFlight # current[t]
  <2>1. Holders' = Holders
    BY <1>5, KeepsSlots DEF IInv, CompareExchange, ProofStates
  <2>2. QED
    BY <1>5, <2>1
       DEF IInv, TypeOK, LoadedBelowLimit, CounterIsExact, Step, CompareExchange, Goto, ProofStates
<1>6. CASE StartJob(t)
  <2>1. Holders' = Holders
    BY <1>6, KeepsSlots DEF IInv, StartJob, ProofStates
  <2>2. QED
    BY <1>6, <2>1
       DEF IInv, TypeOK, LoadedBelowLimit, CounterIsExact, Step, StartJob, Goto, ProofStates
<1>7. CASE Reject(t) \/ JobEnds(t)
  <2>1. pc[t] \in {"reading", "proving"} /\ inFlight' = inFlight - 1 /\ Goto(t, "responding")
        /\ UNCHANGED <<current, client>>
    BY <1>7 DEF Reject, JobEnds
  <2>2. /\ t \in Holders
        /\ Holders' = Holders \ {t}
        /\ Cardinality(Holders') = Cardinality(Holders) - 1
    BY <2>1, DropsSlot DEF IInv
  <2>3. Cardinality(Holders') \in Nat
    <3>1. IsFiniteSet(Holders \ {t})
      BY FS_RemoveElement
    <3>2. QED
      BY <2>2, <3>1, FS_CardinalityType
  <2>4. Slots!Release(t)
    BY <2>2 DEF Slots!Release
  <2>5. QED
    BY <2>1, <2>2, <2>3, <2>4
       DEF IInv, TypeOK, LoadedBelowLimit, CounterIsExact, Step, Goto, ProofStates
<1>8. CASE Respond(t)
  <2>1. Holders' = Holders
    BY <1>8, KeepsSlots DEF IInv, Respond, ProofStates
  <2>2. QED
    BY <1>8, <2>1 DEF IInv, TypeOK, LoadedBelowLimit, CounterIsExact, Step, Respond, Goto,
                      ProofStates, ClientStates
<1>9. QED
  BY <1>1, <1>2, <1>3, <1>4, <1>5, <1>6, <1>7, <1>8 DEF ThreadStep

-----------------------------------------------------------------------------
\* At first no thread holds a slot.
LEMMA InitCorrect == Init => IInv /\ Slots!SlotsInit
<1> SUFFICES ASSUME Init PROVE IInv /\ Slots!SlotsInit
  OBVIOUS
<1>1. Holders = {}
  BY DEF Init, Holders
<1>2. Cardinality(Holders) = 0
  BY <1>1, FS_EmptySet
<1>3. QED
  BY <1>1, <1>2 DEF Init, IInv, TypeOK, LoadedBelowLimit, CounterIsExact, Slots!SlotsInit,
                    ProofStates, ClientStates

\* The inductive invariant of the sidecar's admission (main.rs:23-46, 130-209).
THEOREM SlotsInvariant == Spec => []IInv
<1>1. Init => IInv
  BY InitCorrect
<1>2. IInv /\ [Next]_vars => IInv'
  <2> SUFFICES ASSUME IInv, [Next]_vars PROVE IInv'
    OBVIOUS
  <2>1. CASE Next
    BY <2>1, ThreadStepCorrect DEF Next, Step
  <2>2. CASE UNCHANGED vars
    BY <2>2 DEF vars, IInv, TypeOK, LoadedBelowLimit, CounterIsExact, Holders
  <2>3. QED
    BY <2>1, <2>2
<1>3. QED
  BY <1>1, <1>2, PTL DEF Spec

\* The counter is exact: IN_FLIGHT_PROOFS is the number of threads between
\* taking a slot and dropping the guard, so none leaks or is freed twice.
THEOREM CounterExact == Spec => []CounterIsExact
<1>1. IInv => CounterIsExact
  BY DEF IInv
<1>2. QED
  BY <1>1, SlotsInvariant, PTL

\* The load, the compare-exchange and the guard implement a semaphore of
\* max_concurrent_proofs() slots, whichever threads race and clients vanish.
THEOREM SlotsRefinement == Spec => ImplementsJobSlots
<1>1. Init => Slots!SlotsInit
  BY InitCorrect
<1>2. IInv /\ [Next]_vars => [Slots!SlotsNext]_Holders
  <2> SUFFICES ASSUME IInv, [Next]_vars PROVE [Slots!SlotsNext]_Holders
    OBVIOUS
  <2>1. CASE Next
    BY <2>1, ThreadStepCorrect DEF Next, Step, Slots!SlotsNext
  <2>2. CASE UNCHANGED vars
    BY <2>2 DEF vars, Holders
  <2>3. QED
    BY <2>1, <2>2
<1>3. QED
  BY <1>1, <1>2, SlotsInvariant, PTL DEF Spec, ImplementsJobSlots, Slots!SlotsSpec

-----------------------------------------------------------------------------
(***************************************************************************)
(* Metadata as it may arrive, of whatever values.                          *)
(***************************************************************************)
Arrivals(S) ==
    [proof : [circuit : S, proven : S, shown : S], proofFormat : S, circuitHash : S,
     inputCommitment : S, outputCommitment : S, nonce : S, publicInputs : Seq(S),
     inputAttestations : S]

\* The arguments of a call of `add`, after the schema has accepted them.
Pairs == Nat \X Nat

\* Metadata is what Meta builds exactly if it agrees in every field.
LEMMA MetaEqual ==
    ASSUME NEW S, NEW meta \in Arrivals(S), NEW format, NEW hash, NEW input,
           input.inputCommitment = meta.inputCommitment,
           input.outputCommitment = meta.outputCommitment, input.nonce = meta.nonce,
           NEW circuit, NEW public, NEW publicInputs
    PROVE  meta = Meta(format, hash, input, Proof(circuit, public), publicInputs) <=>
             /\ meta.proofFormat = format /\ meta.circuitHash = hash
             /\ meta.proof.circuit = circuit
             /\ meta.proof.proven = public /\ meta.proof.shown = public
             /\ meta.publicInputs = publicInputs /\ meta.inputAttestations = Undefined
<1> DEFINE built == Meta(format, hash, input, Proof(circuit, public), publicInputs)
<1>1. meta.proof = Proof(circuit, public) <=>
        meta.proof.circuit = circuit /\ meta.proof.proven = public /\ meta.proof.shown = public
  BY DEF Arrivals, Proof
<1> PICK proof : proof = Proof(circuit, public)
  OBVIOUS
<1>2. meta = built <=>
        /\ meta.proof = proof /\ meta.proofFormat = format /\ meta.circuitHash = hash
        /\ meta.publicInputs = publicInputs /\ meta.inputAttestations = Undefined
  BY DEF Arrivals, Meta
<1> QED
  BY <1>1, <1>2

\* The input that the answer is about binds the same values.
LEMMA SameBound ==
    ASSUME NEW meta, NEW arguments
    PROVE  LET input == AsInput(meta, arguments)
           IN  /\ input.arguments = arguments /\ input.output = Decimal(Total(arguments))
               /\ input.circuitHash = meta.circuitHash
               /\ input.inputAttestations = meta.inputAttestations
               /\ input.inputCommitment = meta.inputCommitment
               /\ input.outputCommitment = meta.outputCommitment /\ input.nonce = meta.nonce
               /\ Bound(input) = Bound(meta)
BY DEF AsInput, Bound, NonceOf

\* Arguments are refused exactly if they or their sum leave the range of 32 bits.
LEMMA ParsedArguments ==
    ASSUME NEW arguments \in Pairs
    PROVE  /\ ParseAddArguments(arguments) \in {arguments, Refused} /\ arguments # Refused
           /\ ParseAddArguments(arguments) # Refused => Total(arguments) \in 0..U32_MAX
BY ProofFormatsAssumption DEF Pairs, ParseAddArguments, Total

-----------------------------------------------------------------------------
(***************************************************************************)
(* snarkjs-v2.                                                             *)
(***************************************************************************)
\* The verifier accepts exactly what the prover answers for the arguments of the
\* call, with their sum as the text: the sum that the circuit reduces in the field
\* is the one that the verifier expects (prover-snarkjs and verifier-snarkjs).
THEOREM SnarkjsIsExact ==
    ASSUME NEW S, NEW meta \in Arrivals(S), meta # Refused,
           meta.inputAttestations = Undefined, meta.proof.shown = meta.proof.proven,
           NEW context, context.arguments \in Pairs
    PROVE  VerifySnarkjs(meta, context) <=>
             /\ meta = SnarkjsProve(AsInput(meta, context.arguments))
             /\ context.text = Decimal(Total(context.arguments))
             /\ context.expectedCircuitHash = "snarkjs-v2"
<1> PICK arguments \in Pairs : arguments = context.arguments
  OBVIOUS
<1> PICK input : input = AsInput(meta, arguments)
  OBVIOUS
<1> DEFINE args == ParseAddArguments(arguments)
           signals == AddCircom(arguments[1], arguments[2], BoundFields(input))
           publicInputs == Bound(input) \o Written(Decimal, signals)
<1>1. /\ input.arguments = arguments /\ Bound(input) = Bound(meta)
      /\ input.inputCommitment = meta.inputCommitment
      /\ input.outputCommitment = meta.outputCommitment /\ input.nonce = meta.nonce
  BY SameBound
<1>2. CASE args = Refused
  <2>1. SnarkjsProve(input) = Refused
    BY <1>1, <1>2 DEF SnarkjsProve
  <2>2. ~VerifySnarkjs(meta, context)
    BY <1>2 DEF VerifySnarkjs
  <2> QED
    BY <2>1, <2>2
<1>3. CASE args # Refused
  <2>1. args = arguments /\ Total(arguments) \in 0..U32_MAX
    BY <1>3, ParsedArguments
  <2>2. SnarkjsProve(input) =
          Meta("snarkjs-v2", "snarkjs-v2", input, Proof("snarkjs-v2", signals), publicInputs)
    BY <1>1, <1>3, <2>1 DEF SnarkjsProve
  <2>3. signals = <<Total(arguments), arguments[1], arguments[2]>> \o BoundFields(meta)
    <3>1. (arguments[1] + arguments[2]) % BN254_SCALAR_FIELD = Total(arguments)
      BY <2>1, ProofFormatsAssumption DEF Total, Pairs
    <3>2. BoundFields(input) = BoundFields(meta)
      BY <1>1 DEF BoundFields
    <3> QED
      BY <3>1, <3>2 DEF AddCircom
  <2> HIDE DEF signals
  <2>4. VerifySnarkjs(meta, context) <=>
          /\ SameCircuit(meta, context, "snarkjs-v2") /\ meta.circuitHash = "snarkjs-v2"
          /\ context.text = Decimal(Total(arguments))
          /\ meta.publicInputs = publicInputs
          /\ Proves(meta.proof, "snarkjs-v2", signals)
    BY <1>1, <1>3, <2>1, <2>3 DEF VerifySnarkjs
  <2> HIDE DEF publicInputs
  <2>5. meta = SnarkjsProve(input) <=>
          /\ meta.proofFormat = "snarkjs-v2" /\ meta.circuitHash = "snarkjs-v2"
          /\ meta.proof.circuit = "snarkjs-v2"
          /\ meta.proof.proven = signals /\ meta.proof.shown = signals
          /\ meta.publicInputs = publicInputs /\ meta.inputAttestations = Undefined
    BY <1>1, <2>2, MetaEqual
  <2> QED
    BY <2>4, <2>5 DEF SameCircuit, Proves
<1> QED
  BY <1>2, <1>3

-----------------------------------------------------------------------------
(***************************************************************************)
(* noir-v1.                                                                *)
(***************************************************************************)
\* A function on the first n numbers is a sequence.
LEMMA FunctionIsSeq ==
    ASSUME NEW T, NEW n \in Nat, NEW f \in [1..n -> T]
    PROVE  f \in Seq(T) /\ Len(f) = n
<1>1. f \in Seq(T)
  BY SeqDef
<1>2. Len(f) \in Nat /\ 1..Len(f) = 1..n
  BY <1>1, LenProperties
<1> QED
  BY <1>1, <1>2

\* A verifier takes the list of public inputs apart, a prover puts it together.
TakesApart(s, first, last) ==
    /\ Len(s) = 3 + Len(last)
    /\ SubSeq(s, 1, 3) = first
    /\ SubSeq(s, 4, 3 + Len(last)) = last

PutsTogether(s, first, last) == s = first \o last

\* The one undoes the other.
LEMMA ApartIsTogether ==
    ASSUME NEW S, NEW s \in Seq(S), NEW T1, NEW first \in Seq(T1), Len(first) = 3,
           NEW T2, NEW last \in Seq(T2)
    PROVE  TakesApart(s, first, last) <=> PutsTogether(s, first, last)
<1> PICK T : T = T1 \cup T2
  OBVIOUS
<1> PICK n \in Nat : n = Len(last)
  OBVIOUS
<1>1. first \in Seq(T) /\ last \in Seq(T)
  BY SeqMonotonic
<1>2. ASSUME Len(s) = 3 + n, SubSeq(s, 1, 3) = first, SubSeq(s, 4, 3 + n) = last
      PROVE  s = first \o last
  <2>1. SubSeq(s, 1, 3) \o SubSeq(s, 3 + 1, Len(s)) = SubSeq(s, 1, Len(s))
    <3>1. Len(s) \in Nat /\ 1 \in 1..(Len(s) + 1) /\ 3 \in (1 - 1)..Len(s) /\ Len(s) \in 3..Len(s)
      BY <1>2
    <3> QED
      BY <3>1, ConcatAdjacentSubSeq
  <2>2. SubSeq(s, 1, Len(s)) = s
    BY SubSeqFull
  <2>3. 3 + 1 = 4
    OBVIOUS
  <2> QED
    BY <1>2, <2>1, <2>2, <2>3
<1>3. ASSUME s = first \o last
      PROVE  Len(s) = 3 + n /\ SubSeq(s, 1, 3) = first /\ SubSeq(s, 4, 3 + n) = last
  <2> DEFINE joined == first \o last
  <2>1. /\ joined \in Seq(T) /\ Len(joined) = Len(first) + Len(last)
    BY <1>1, ConcatProperties
  <2>2. \A i \in 1..Len(first) + Len(last) :
            joined[i] = IF i <= Len(first) THEN first[i] ELSE last[i - Len(first)]
    BY <1>1, ConcatProperties
  <2> HIDE DEF joined
  <2>3. /\ s \in Seq(T) /\ Len(s) = 3 + n
        /\ \A i \in 1..3 : s[i] = first[i]
        /\ \A i \in 1..n : s[3 + i] = last[i]
    <3>1. s = joined
      BY <1>3 DEF joined
    <3>2. \A i \in 1..n : 3 + i \in 1..Len(first) + Len(last) /\ (3 + i) - 3 = i /\ ~(3 + i <= 3)
      OBVIOUS
    <3> QED
      BY <2>1, <2>2, <3>1, <3>2
  <2>4. \A i \in 1..(3 + n) : s[i] \in T
    BY <1>1, <2>3
  <2>5. SubSeq(s, 1, 3) = first
    <3>1. \A i \in 1..3 : s[i] \in T /\ s[i] = first[i]
      BY <1>1, <2>3, <2>4
    <3>2. /\ SubSeq(s, 1, 3) \in Seq(T) /\ Len(SubSeq(s, 1, 3)) = 3
          /\ \A i \in 1..3 : SubSeq(s, 1, 3)[i] = s[i]
      BY <3>1, SubSeqProperties
    <3> QED
      BY <3>1, <3>2, <1>1, SeqEqual
  <2>6. SubSeq(s, 4, 3 + n) = last
    <3>1. 4 \in Int /\ 3 + n \in Int /\ \A i \in 4..(3 + n) : s[i] \in T
      BY <2>4
    <3>2. /\ SubSeq(s, 4, 3 + n) \in Seq(T)
          /\ Len(SubSeq(s, 4, 3 + n)) = IF 4 <= 3 + n THEN 3 + n - 4 + 1 ELSE 0
          /\ \A i \in 1..(3 + n - 4 + 1) : SubSeq(s, 4, 3 + n)[i] = s[4 + i - 1]
      BY <3>1, SubSeqProperties
    <3>3. /\ Len(SubSeq(s, 4, 3 + n)) = n
          /\ \A i \in 1..n : SubSeq(s, 4, 3 + n)[i] = s[3 + i]
      <4>1. (IF 4 <= 3 + n THEN 3 + n - 4 + 1 ELSE 0) = n /\ 3 + n - 4 + 1 = n
        OBVIOUS
      <4>2. \A i \in 1..n : 4 + i - 1 = 3 + i
        OBVIOUS
      <4> QED
        BY <3>2, <4>1, <4>2
    <3> QED
      BY <2>3, <3>2, <3>3, <1>1, SeqEqual
  <2> QED
    BY <2>3, <2>5, <2>6
<1> QED
  BY <1>2, <1>3 DEF TakesApart, PutsTogether

\* The bound values are three.
LEMMA BoundIsTriple ==
    ASSUME NEW record
    PROVE  \E T : Bound(record) \in Seq(T) /\ Len(Bound(record)) = 3
<1> DEFINE T == {record.outputCommitment, record.inputCommitment, NonceOf(record)}
<1>1. Bound(record) \in Seq(T) /\ Len(Bound(record)) = 3
  BY DEF Bound
<1> QED
  BY <1>1

\* The public values of the circuit, by their places.
LEMMA AddNoirValues ==
    ASSUME NEW a, NEW b, NEW F, NEW fields \in [1..3 -> F]
    PROVE  LET signals == AddNoir(a, b, fields)
           IN  /\ \E T : signals \in Seq(T) /\ Len(signals) = 6
               /\ signals[1] = a /\ signals[2] = b /\ signals[3] = fields[1]
               /\ signals[4] = fields[2] /\ signals[5] = fields[3] /\ signals[6] = a + b
<1> DEFINE T == F \cup {a, b, a + b}
           pair == <<a, b>>
           sum == <<a + b>>
<1>1. fields \in Seq(T) /\ Len(fields) = 3
  <2>1. fields \in [1..3 -> T] /\ 3 \in Nat
    OBVIOUS
  <2> HIDE DEF T
  <2> QED
    BY <2>1, FunctionIsSeq
<1>2. pair \in Seq(T) /\ Len(pair) = 2 /\ pair[1] = a /\ pair[2] = b
  OBVIOUS
<1>3. sum \in Seq(T) /\ Len(sum) = 1 /\ sum[1] = a + b
  OBVIOUS
<1>4. AddNoir(a, b, fields) = (pair \o fields) \o sum
  BY DEF AddNoir
<1> HIDE DEF T, pair, sum
<1> DEFINE five == pair \o fields
           signals == five \o sum
<1>5. /\ five \in Seq(T) /\ Len(five) = Len(pair) + Len(fields)
      /\ \A i \in 1..Len(pair) + Len(fields) :
             five[i] = IF i <= Len(pair) THEN pair[i] ELSE fields[i - Len(pair)]
  <2>1. five \in Seq(T) /\ Len(five) = Len(pair) + Len(fields)
    BY <1>1, <1>2, ConcatProperties
  <2>2. \A i \in 1..Len(pair) + Len(fields) :
             five[i] = IF i <= Len(pair) THEN pair[i] ELSE fields[i - Len(pair)]
    BY <1>1, <1>2, ConcatProperties
  <2> QED
    BY <2>1, <2>2
<1> HIDE DEF five
<1>6. /\ five \in Seq(T) /\ Len(five) = 5
      /\ \A i \in 1..2 : five[i] = pair[i]
      /\ \A i \in 1..3 : five[2 + i] = fields[i]
  <2>1. \A i \in 1..3 : 2 + i \in 1..Len(pair) + Len(fields) /\ (2 + i) - 2 = i /\ ~(2 + i <= 2)
    BY <1>1, <1>2
  <2> QED
    BY <1>1, <1>2, <1>5, <2>1
<1>7. /\ signals \in Seq(T) /\ Len(signals) = Len(five) + Len(sum)
      /\ \A i \in 1..Len(five) + Len(sum) :
             signals[i] = IF i <= Len(five) THEN five[i] ELSE sum[i - Len(five)]
  <2>1. signals \in Seq(T) /\ Len(signals) = Len(five) + Len(sum)
    BY <1>3, <1>6, ConcatProperties
  <2>2. \A i \in 1..Len(five) + Len(sum) :
             signals[i] = IF i <= Len(five) THEN five[i] ELSE sum[i - Len(five)]
    BY <1>3, <1>6, ConcatProperties
  <2> QED
    BY <2>1, <2>2
<1> HIDE DEF signals
<1>8. five[2 + 1] = fields[1] /\ five[2 + 2] = fields[2] /\ five[2 + 3] = fields[3]
  BY <1>6
<1>9. /\ signals[1] = a /\ signals[2] = b /\ signals[3] = fields[1]
      /\ signals[4] = fields[2] /\ signals[5] = fields[3] /\ signals[5 + 1] = a + b
  BY <1>2, <1>3, <1>6, <1>7, <1>8
<1>10. signals \in Seq(T) /\ Len(signals) = 6 /\ signals[6] = a + b
  BY <1>3, <1>6, <1>7, <1>9
<1> QED
  BY <1>4, <1>9, <1>10 DEF signals, five

\* The residues of the bound values are three.
LEMMA BoundFieldsAreThree ==
    ASSUME NEW record
    PROVE  \E F : BoundFields(record) \in [1..3 -> F]
<1> DEFINE F == {CommitmentToField(Bound(record)[i]) : i \in 1..3}
<1>1. BoundFields(record) \in [1..3 -> F]
  BY DEF BoundFields
<1> QED
  BY <1>1

\* The verifier takes the list of public inputs apart and the prover puts it
\* together: it accepts exactly what the prover answers for the arguments of the
\* call, with their sum as the text (prover-noir and verifier-noir).
THEOREM NoirIsExact ==
    ASSUME NEW S, NEW meta \in Arrivals(S), meta # Refused,
           meta.inputAttestations = Undefined, meta.proof.shown = meta.proof.proven,
           NEW context, context.arguments \in Pairs
    PROVE  VerifyNoir(meta, context) <=>
             /\ meta = NoirProve(AsInput(meta, context.arguments))
             /\ context.text = Decimal(Total(context.arguments))
             /\ context.expectedCircuitHash = "noir-v1"
<1> PICK arguments \in Pairs : arguments = context.arguments
  OBVIOUS
<1> PICK input : input = AsInput(meta, arguments)
  OBVIOUS
<1> DEFINE args == ParseAddArguments(arguments)
           signals == AddNoir(arguments[1], arguments[2], BoundFields(input))
           values == Written(Padded, signals)
           publicInputs == Bound(input) \o values
<1>1. /\ input.arguments = arguments /\ Bound(input) = Bound(meta)
      /\ input.inputCommitment = meta.inputCommitment
      /\ input.outputCommitment = meta.outputCommitment /\ input.nonce = meta.nonce
  BY SameBound
<1>2. CASE args = Refused
  <2>1. NoirProve(input) = Refused
    BY <1>1, <1>2 DEF NoirProve
  <2>2. ~VerifyNoir(meta, context)
    BY <1>2 DEF VerifyNoir
  <2> QED
    BY <2>1, <2>2
<1>3. CASE args # Refused
  <2>1. args = arguments
    BY <1>3, ParsedArguments
  <2>2. NoirProve(input) = Meta("noir-v1", "noir-v1", input, Proof("noir-v1", signals), publicInputs)
    BY <1>1, <1>3, <2>1 DEF NoirProve
  <2>3. signals = <<arguments[1], arguments[2]>> \o BoundFields(meta) \o <<Total(arguments)>>
    <3>1. BoundFields(input) = BoundFields(meta)
      BY <1>1 DEF BoundFields
    <3> QED
      BY <3>1 DEF AddNoir, Total
  <2>4. \E T : signals \in Seq(T) /\ Len(signals) = 6
    BY BoundFieldsAreThree, AddNoirValues
  <2> HIDE DEF signals
  <2>5. \E T : values \in Seq(T) /\ Len(values) = 6
    <3> DEFINE T == {Padded(signals[i]) : i \in 1..6}
    <3>1. DOMAIN signals = 1..6 /\ 6 \in Nat
      BY <2>4
    <3>2. values = [i \in DOMAIN signals |-> Padded(signals[i])]
      BY DEF Written
    <3>3. values \in [1..6 -> T]
      BY <3>1, <3>2
    <3> QED
      BY <3>1, <3>3, FunctionIsSeq
  <2>6. VerifyNoir(meta, context) <=>
          /\ SameCircuit(meta, context, "noir-v1") /\ meta.circuitHash = "noir-v1"
          /\ context.text = Decimal(Total(arguments))
          /\ Len(meta.publicInputs) = 9
          /\ SubSeq(meta.publicInputs, 4, 9) = values
          /\ SubSeq(meta.publicInputs, 1, 3) = Bound(input)
          /\ Proves(meta.proof, "noir-v1", signals)
    BY <1>1, <1>3, <2>1, <2>3 DEF VerifyNoir
  <2> HIDE DEF values
  <2>7. meta.publicInputs = publicInputs <=>
          /\ Len(meta.publicInputs) = 9
          /\ SubSeq(meta.publicInputs, 1, 3) = Bound(input)
          /\ SubSeq(meta.publicInputs, 4, 9) = values
    <3>1. PICK T1 : Bound(input) \in Seq(T1) /\ Len(Bound(input)) = 3
      BY BoundIsTriple
    <3>2. PICK T2 : values \in Seq(T2) /\ Len(values) = 6
      BY <2>5
    <3>3. meta.publicInputs \in Seq(S)
      BY DEF Arrivals
    <3>4. TakesApart(meta.publicInputs, Bound(input), values) <=>
            PutsTogether(meta.publicInputs, Bound(input), values)
      BY <3>1, <3>2, <3>3, ApartIsTogether
    <3>5. 3 + Len(values) = 9
      BY <3>2
    <3> QED
      BY <3>4, <3>5 DEF TakesApart, PutsTogether
  <2> HIDE DEF publicInputs
  <2>8. meta = NoirProve(input) <=>
          /\ meta.proofFormat = "noir-v1" /\ meta.circuitHash = "noir-v1"
          /\ meta.proof.circuit = "noir-v1"
          /\ meta.proof.proven = signals /\ meta.proof.shown = signals
          /\ meta.publicInputs = publicInputs /\ meta.inputAttestations = Undefined
    BY <1>1, <2>2, MetaEqual
  <2> QED
    BY <2>6, <2>7, <2>8 DEF SameCircuit, Proves
<1> QED
  BY <1>2, <1>3

-----------------------------------------------------------------------------
(***************************************************************************)
(* demo-commit-v1.                                                         *)
(***************************************************************************)
\* The verifier accepts exactly what the prover answers: circuit, commitments,
\* nonce and attestations are all under the hash, the arguments are not
\* (prover/src/demo-commit.ts and verifier/src/demo-commit.ts).
THEOREM DemoCommitIsExact ==
    ASSUME NEW S, NEW meta \in Arrivals(S), meta.proof.shown = meta.proof.proven,
           NEW arguments \in Pairs
    PROVE  DemoCommitVerify(meta) <=> meta = DemoCommitProve(AsInput(meta, arguments))
<1> PICK input : input = AsInput(meta, arguments)
  OBVIOUS
<1> PICK inputs : inputs = CommitInputs(meta)
  OBVIOUS
<1>1. /\ input.circuitHash = meta.circuitHash /\ input.inputAttestations = meta.inputAttestations
      /\ Bound(input) = Bound(meta) /\ input.nonce = meta.nonce
      /\ input.inputCommitment = meta.inputCommitment
      /\ input.outputCommitment = meta.outputCommitment
  BY SameBound
<1>2. CommitInputs(input) = inputs
  BY <1>1 DEF CommitInputs
<1> PICK proof : proof = Proof(meta.circuitHash, inputs)
  OBVIOUS
<1>3. DemoCommitProve(input) =
        [Meta("demo-commit-v1", meta.circuitHash, input, proof, inputs)
            EXCEPT !.inputAttestations = meta.inputAttestations]
  BY <1>1, <1>2 DEF DemoCommitProve
<1>4. meta = DemoCommitProve(input) <=>
        meta.proofFormat = "demo-commit-v1" /\ meta.publicInputs = inputs /\ meta.proof = proof
  BY <1>1, <1>3 DEF Meta, Arrivals
<1>5. meta.proof = proof <=> meta.proof.circuit = meta.circuitHash /\ meta.proof.proven = inputs
  BY DEF Arrivals, Proof
<1> QED
  BY <1>4, <1>5 DEF DemoCommitVerify, Proves

-----------------------------------------------------------------------------
(***************************************************************************)
(* risc0-v1.                                                               *)
(***************************************************************************)
\* What a receipt may show as its journal.
Journals(D) == [words : Nat \X Nat \X Nat, digests : D]

\* The sidecar's answer passes the comparison of SidecarProver, and is refused
\* exactly for another circuit, for provenance and for arguments out of range.
LEMMA Risc0Answers ==
    ASSUME NEW meta, NEW arguments \in Pairs
    PROVE  LET input == AsInput(meta, arguments)
               a == arguments[1]
               b == arguments[2]
           IN  SidecarProve("risc0-v1", input) =
                 IF /\ meta.circuitHash = "risc0-v1" /\ meta.inputAttestations = Undefined
                    /\ a + b <= U32_MAX
                 THEN Meta("risc0-v1", "risc0-v1", input,
                           Proof("risc0-v1", Journal(a, b, a + b, Digests(meta))),
                           Bound(meta) \o Written(Decimal, <<a + b, a, b>>))
                 ELSE Refused
<1> PICK input : input = AsInput(meta, arguments)
  OBVIOUS
<1> PICK a \in Nat : a = arguments[1]
  BY DEF Pairs
<1> PICK b \in Nat : b = arguments[2]
  BY DEF Pairs
<1>1. /\ input.arguments = arguments /\ input.output = Decimal(Total(arguments))
      /\ input.circuitHash = meta.circuitHash
      /\ input.inputAttestations = meta.inputAttestations /\ Bound(input) = Bound(meta)
  BY SameBound
<1>2. Digests(input) = Digests(meta)
  BY <1>1 DEF Digests
<1> DEFINE publicInputs == Bound(meta) \o Written(Decimal, <<a + b, a, b>>)
           answer == Meta("risc0-v1", "risc0-v1", input,
                          Proof("risc0-v1", Journal(a, b, a + b, Digests(meta))), publicInputs)
           fits == meta.circuitHash = "risc0-v1" /\ meta.inputAttestations = Undefined /\ a + b <= U32_MAX
<1>3. a + b <= U32_MAX => a <= U32_MAX /\ b <= U32_MAX
  BY ProofFormatsAssumption
<1>4. Total(arguments) = a + b /\ a + b # Refused
  BY ProofFormatsAssumption DEF Total
<1>5. CASE ~(a + b <= U32_MAX)
  <2>1. CheckedAdd(a, b) = Refused
    BY <1>5 DEF CheckedAdd
  <2>2. Risc0Prove(input) = Refused
    BY <1>1, <2>1 DEF Risc0Prove
  <2>3. SidecarProve("risc0-v1", input) = Refused
    BY <2>2 DEF SidecarProve
  <2> QED
    BY <1>5, <2>3
<1>6. CASE a + b <= U32_MAX
  <2>1. CheckedAdd(a, b) = a + b
    BY <1>6 DEF CheckedAdd
  <2>2. ~(a > U32_MAX) /\ ~(b > U32_MAX)
    BY <1>3, <1>6, ProofFormatsAssumption
  <2>3. Risc0Prove(input) = IF fits THEN answer ELSE Refused
    BY <1>1, <1>2, <1>4, <1>6, <2>1, <2>2 DEF Risc0Prove
  <2>4. ASSUME fits
        PROVE  \A field \in {"circuitHash", "inputCommitment", "outputCommitment", "nonce", "inputAttestations"} :
                 answer[field] = input[field]
    BY <1>1, <2>4 DEF Meta
  <2>5. answer.proofFormat = "risc0-v1"
    BY DEF Meta
  <2> HIDE DEF answer
  <2>6. SidecarProve("risc0-v1", input) = IF fits THEN answer ELSE Refused
    BY <2>3, <2>4, <2>5 DEF SidecarProve
  <2> QED
    BY <2>6 DEF answer
<1> QED
  BY <1>5, <1>6

\* The arguments are the first two words of the journal.
LEMMA FirstTwo ==
    ASSUME NEW x \in Nat, NEW y \in Nat, NEW z \in Nat
    PROVE  SubSeq(<<x, y, z>>, 1, 2) = <<x, y>>
<1> DEFINE words == <<x, y, z>>
           pair == <<x, y>>
<1>1. words[1] = x /\ words[2] = y
  OBVIOUS
<1>2. pair \in Seq(Nat) /\ Len(pair) = 2 /\ pair[1] = x /\ pair[2] = y
  OBVIOUS
<1> HIDE DEF words, pair
<1>3. 1 \in Int /\ 2 \in Int /\ \A i \in 1..2 : words[i] \in Nat
  BY <1>1
<1>4. /\ SubSeq(words, 1, 2) \in Seq(Nat)
      /\ Len(SubSeq(words, 1, 2)) = IF 1 <= 2 THEN 2 - 1 + 1 ELSE 0
      /\ \A i \in 1..(2 - 1 + 1) : SubSeq(words, 1, 2)[i] = words[1 + i - 1]
  BY <1>3, SubSeqProperties
<1> PICK taken : taken = SubSeq(words, 1, 2)
  OBVIOUS
<1>5. taken \in Seq(Nat) /\ Len(taken) = 2 /\ \A i \in 1..2 : taken[i] = words[i]
  BY <1>4
<1>6. Len(taken) = Len(pair) /\ \A i \in 1..Len(taken) : taken[i] = pair[i]
  BY <1>1, <1>2, <1>5
<1>7. taken = pair
  BY <1>2, <1>5, <1>6, SeqEqual
<1> QED
  BY <1>7 DEF words, pair

\* A receipt that the client's verifier accepts is exactly what the sidecar answers
\* for the arguments of the call, if the guest adds (the journal it commits to is
\* that of a checked sum), with the sum as the text (verifier-risc0/src/index.ts;
\* sidecars/risc0).
THEOREM Risc0IsExact ==
    ASSUME NEW S, NEW meta \in Arrivals(S), meta # Refused, meta.inputAttestations = Undefined,
           NEW D, meta.proof.shown \in Journals(D),
           NEW context, context.arguments \in Pairs, context.expectedCircuitHash = "risc0-v1",
           LET words == meta.proof.proven.words
           IN  meta.proof.circuit = "risc0-v1" => words[3] = CheckedAdd(words[1], words[2])
    PROVE  VerifyRisc0(meta, context) <=>
             /\ meta = SidecarProve("risc0-v1", AsInput(meta, context.arguments))
             /\ context.text = Decimal(Total(context.arguments))
<1> PICK arguments \in Pairs : arguments = context.arguments
  OBVIOUS
<1> PICK a \in Nat : a = arguments[1]
  BY DEF Pairs
<1> PICK b \in Nat : b = arguments[2]
  BY DEF Pairs
<1> PICK input : input = AsInput(meta, arguments)
  OBVIOUS
<1> PICK journal : journal = meta.proof.shown
  OBVIOUS
<1> DEFINE publicInputs == Bound(meta) \o Written(Decimal, <<a + b, a, b>>)
           expected == Journal(a, b, a + b, Digests(meta))
<1>1. /\ input.inputCommitment = meta.inputCommitment
      /\ input.outputCommitment = meta.outputCommitment /\ input.nonce = meta.nonce
  BY SameBound
<1>2. arguments = <<a, b>> /\ Total(arguments) = a + b
  BY DEF Pairs, Total
<1>3. journal = expected <=>
        /\ journal.words[1] = a /\ journal.words[2] = b /\ journal.words[3] = a + b
        /\ journal.digests = Digests(meta)
  BY DEF Journals, Journal
<1>4. SidecarProve("risc0-v1", input) =
        IF meta.circuitHash = "risc0-v1" /\ a + b <= U32_MAX
        THEN Meta("risc0-v1", "risc0-v1", input, Proof("risc0-v1", expected), publicInputs)
        ELSE Refused
  BY Risc0Answers
<1>5. ParseAddArguments(arguments) = SubSeq(journal.words, 1, 2) <=>
        a + b <= U32_MAX /\ journal.words[1] = a /\ journal.words[2] = b
  <2>1. journal.words \in Nat \X Nat \X Nat
    BY DEF Journals
  <2>2. PICK x \in Nat, y \in Nat, z \in Nat : journal.words = <<x, y, z>>
    BY <2>1
  <2>3. SubSeq(journal.words, 1, 2) = <<x, y>>
    BY <2>2, FirstTwo
  <2>4. ParseAddArguments(arguments) = IF a + b <= U32_MAX THEN arguments ELSE Refused
    <3>1. a + b <= U32_MAX => a <= U32_MAX /\ b <= U32_MAX
      BY ProofFormatsAssumption
    <3> QED
      BY <3>1 DEF ParseAddArguments
  <2>5. <<x, y>> # Refused
    BY ProofFormatsAssumption
  <2>6. journal.words[1] = x /\ journal.words[2] = y
    BY <2>2
  <2>7. arguments = <<x, y>> <=> a = x /\ b = y
    BY <1>2
  <2> QED
    BY <2>3, <2>4, <2>5, <2>6, <2>7
<1> HIDE DEF expected
<1>6. ASSUME a + b <= U32_MAX, journal.words[1] = a, journal.words[2] = b,
             meta.proof.circuit = "risc0-v1", meta.proof.proven = journal
      PROVE  journal.words[3] = a + b
  BY <1>6 DEF CheckedAdd
<1>7. VerifyRisc0(meta, context) <=>
        /\ meta.proofFormat = "risc0-v1" /\ meta.circuitHash = "risc0-v1"
        /\ meta.proof.circuit = "risc0-v1" /\ meta.proof.proven = journal
        /\ ParseAddArguments(arguments) = SubSeq(journal.words, 1, 2)
        /\ context.text = Decimal(journal.words[3])
        /\ journal.digests = Digests(meta)
        /\ meta.publicInputs =
             Bound(meta) \o Written(Decimal, <<journal.words[3], journal.words[1], journal.words[2]>>)
  BY DEF VerifyRisc0, SameCircuit, Proves
<1>8. VerifyRisc0(meta, context) <=>
        /\ meta.proofFormat = "risc0-v1" /\ meta.circuitHash = "risc0-v1"
        /\ meta.proof.circuit = "risc0-v1" /\ meta.proof.proven = journal
        /\ a + b <= U32_MAX /\ journal = expected
        /\ context.text = Decimal(a + b) /\ meta.publicInputs = publicInputs
  <2>1. ASSUME journal.words[1] = a, journal.words[2] = b, journal.words[3] = a + b
        PROVE  /\ Bound(meta) \o Written(Decimal, <<journal.words[3], journal.words[1], journal.words[2]>>)
                    = publicInputs
               /\ Decimal(journal.words[3]) = Decimal(a + b)
    BY <2>1
  <2>2. ASSUME VerifyRisc0(meta, context)
        PROVE  journal.words[1] = a /\ journal.words[2] = b /\ journal.words[3] = a + b /\ a + b <= U32_MAX
    BY <1>5, <1>6, <1>7, <2>2
  <2> HIDE DEF publicInputs
  <2>3. VerifyRisc0(meta, context) =>
          /\ journal = expected /\ a + b <= U32_MAX /\ context.text = Decimal(a + b)
          /\ meta.publicInputs = publicInputs
    BY <1>3, <1>7, <2>1, <2>2
  <2> QED
    BY <1>3, <1>5, <1>7, <2>1, <2>3
<1> HIDE DEF publicInputs
<1>9. ASSUME meta.circuitHash = "risc0-v1", a + b <= U32_MAX
      PROVE  meta = SidecarProve("risc0-v1", input) <=>
               /\ meta.proofFormat = "risc0-v1" /\ meta.circuitHash = "risc0-v1"
               /\ meta.proof.circuit = "risc0-v1"
               /\ meta.proof.proven = expected /\ meta.proof.shown = expected
               /\ meta.publicInputs = publicInputs /\ meta.inputAttestations = Undefined
  BY <1>1, <1>4, <1>9, MetaEqual
<1> QED
  BY <1>2, <1>4, <1>8, <1>9

\* The three numbers as they are written among the public inputs.
LEMMA WrittenTriple ==
    ASSUME NEW x, NEW y, NEW z
    PROVE  \E T : /\ Written(Decimal, <<x, y, z>>) \in Seq(T)
                  /\ Len(Written(Decimal, <<x, y, z>>)) = 3
<1> DEFINE values == <<x, y, z>>
           written == Written(Decimal, values)
           T == {Decimal(x), Decimal(y), Decimal(z)}
<1>1. DOMAIN values = 1..3 /\ values[1] = x /\ values[2] = y /\ values[3] = z
  OBVIOUS
<1> HIDE DEF values
<1>2. written = [i \in DOMAIN values |-> Decimal(values[i])]
  BY DEF Written
<1>3. written \in [1..3 -> T] /\ 3 \in Nat
  BY <1>1, <1>2
<1> HIDE DEF written, T
<1>4. written \in Seq(T) /\ Len(written) = 3
  BY <1>3, FunctionIsSeq
<1> QED
  BY <1>4 DEF written, values

\* What the sidecar's own /verify accepts is exactly what the sidecar answers for
\* some arguments: it sees no call, and checks the sum itself (sidecars/risc0,
\* verify).
THEOREM Risc0SidecarIsExact ==
    ASSUME NEW S, NEW meta \in Arrivals(S), meta # Refused, meta.inputAttestations = Undefined,
           NEW D, meta.proof.shown \in Journals(D)
    PROVE  Risc0SidecarVerify(meta, "risc0-v1") <=>
             \E arguments \in Pairs : meta = SidecarProve("risc0-v1", AsInput(meta, arguments))
<1> PICK journal : journal = meta.proof.shown
  OBVIOUS
<1>1. PICK x \in Nat, y \in Nat, z \in Nat : journal.words = <<x, y, z>>
  <2>1. journal.words \in Nat \X Nat \X Nat
    BY DEF Journals
  <2> QED
    BY <2>1
<1>2. journal.words[1] = x /\ journal.words[2] = y /\ journal.words[3] = z
  BY <1>1
<1> DEFINE values == Written(Decimal, <<z, x, y>>)
<1>3. \E T : values \in Seq(T) /\ Len(values) = 3
  BY WrittenTriple
<1>4. Risc0SidecarVerify(meta, "risc0-v1") <=>
        /\ meta.proofFormat = "risc0-v1" /\ meta.circuitHash = "risc0-v1"
        /\ meta.proof.circuit = "risc0-v1" /\ meta.proof.proven = journal
        /\ CheckedAdd(x, y) = z
        /\ Len(meta.publicInputs) = 6
        /\ SubSeq(meta.publicInputs, 1, 3) = Bound(meta)
        /\ journal.digests = Digests(meta)
        /\ SubSeq(meta.publicInputs, 4, 6) = values
  BY <1>2 DEF Risc0SidecarVerify, Proves
<1> HIDE DEF values
<1>5. (/\ Len(meta.publicInputs) = 6 /\ SubSeq(meta.publicInputs, 1, 3) = Bound(meta)
       /\ SubSeq(meta.publicInputs, 4, 6) = values) <=> meta.publicInputs = Bound(meta) \o values
  <2>1. PICK T1 : Bound(meta) \in Seq(T1) /\ Len(Bound(meta)) = 3
    BY BoundIsTriple
  <2>2. PICK T2 : values \in Seq(T2) /\ Len(values) = 3
    BY <1>3
  <2>3. meta.publicInputs \in Seq(S)
    BY DEF Arrivals
  <2>4. TakesApart(meta.publicInputs, Bound(meta), values) <=>
          PutsTogether(meta.publicInputs, Bound(meta), values)
    BY <2>1, <2>2, <2>3, ApartIsTogether
  <2>5. 3 + Len(values) = 6
    BY <2>2
  <2> QED
    BY <2>4, <2>5 DEF TakesApart, PutsTogether
<1>6. CheckedAdd(x, y) = z <=> x + y = z /\ x + y <= U32_MAX
  BY ProofFormatsAssumption DEF CheckedAdd
<1> DEFINE Inputs(a, b) == Bound(meta) \o Written(Decimal, <<a + b, a, b>>)
<1>7. ASSUME NEW a \in Nat, NEW b \in Nat
      PROVE  meta = SidecarProve("risc0-v1", AsInput(meta, <<a, b>>)) <=>
               /\ meta.circuitHash = "risc0-v1" /\ a + b <= U32_MAX
               /\ meta.proofFormat = "risc0-v1" /\ meta.proof.circuit = "risc0-v1"
               /\ meta.proof.proven = journal
               /\ a = x /\ b = y /\ a + b = z /\ journal.digests = Digests(meta)
               /\ meta.publicInputs = Inputs(a, b)
  <2> DEFINE expected == Journal(a, b, a + b, Digests(meta))
             publicInputs == Inputs(a, b)
  <2> PICK input : input = AsInput(meta, <<a, b>>)
    OBVIOUS
  <2>1. /\ input.inputCommitment = meta.inputCommitment
        /\ input.outputCommitment = meta.outputCommitment /\ input.nonce = meta.nonce
    BY SameBound
  <2>2. SidecarProve("risc0-v1", input) =
          IF meta.circuitHash = "risc0-v1" /\ a + b <= U32_MAX
          THEN Meta("risc0-v1", "risc0-v1", input, Proof("risc0-v1", expected), publicInputs)
          ELSE Refused
    <3>1. <<a, b>> \in Pairs /\ <<a, b>>[1] = a /\ <<a, b>>[2] = b
      BY DEF Pairs
    <3> QED
      BY <3>1, Risc0Answers
  <2>3. journal = expected <=> a = x /\ b = y /\ a + b = z /\ journal.digests = Digests(meta)
    BY <1>1 DEF Journals, Journal
  <2> HIDE DEF expected, publicInputs
  <2>4. ASSUME meta.circuitHash = "risc0-v1", a + b <= U32_MAX
        PROVE  meta = SidecarProve("risc0-v1", input) <=>
                 /\ meta.proofFormat = "risc0-v1" /\ meta.circuitHash = "risc0-v1"
                 /\ meta.proof.circuit = "risc0-v1"
                 /\ meta.proof.proven = expected /\ meta.proof.shown = expected
                 /\ meta.publicInputs = publicInputs /\ meta.inputAttestations = Undefined
    BY <2>1, <2>2, <2>4, MetaEqual
  <2> QED
    BY <2>2, <2>3, <2>4 DEF publicInputs
<1> HIDE DEF Inputs
<1>8. ASSUME Risc0SidecarVerify(meta, "risc0-v1")
      PROVE  meta = SidecarProve("risc0-v1", AsInput(meta, <<x, y>>))
  <2>1. x + y = z /\ x + y <= U32_MAX
    BY <1>4, <1>6, <1>8
  <2>2. Inputs(x, y) = Bound(meta) \o values
    BY <2>1 DEF values, Inputs
  <2>3. meta.publicInputs = Inputs(x, y)
    BY <1>4, <1>5, <1>8, <2>2
  <2> QED
    BY <1>4, <1>7, <1>8, <2>1, <2>3
<1>9. ASSUME NEW arguments \in Pairs, meta = SidecarProve("risc0-v1", AsInput(meta, arguments))
      PROVE  Risc0SidecarVerify(meta, "risc0-v1")
  <2>1. PICK a \in Nat, b \in Nat : arguments = <<a, b>>
    BY DEF Pairs
  <2>2. meta = SidecarProve("risc0-v1", AsInput(meta, <<a, b>>))
    BY <1>9, <2>1
  <2>3. /\ meta.circuitHash = "risc0-v1" /\ a + b <= U32_MAX
        /\ meta.proofFormat = "risc0-v1" /\ meta.proof.circuit = "risc0-v1"
        /\ meta.proof.proven = journal
        /\ a = x /\ b = y /\ a + b = z /\ journal.digests = Digests(meta)
        /\ meta.publicInputs = Inputs(a, b)
    BY <1>7, <2>2
  <2>4. Inputs(a, b) = Bound(meta) \o values
    BY <2>3 DEF values, Inputs
  <2>5. meta.publicInputs = Bound(meta) \o values
    BY <2>3, <2>4
  <2> QED
    BY <1>4, <1>5, <1>6, <2>3, <2>5
<1>10. <<x, y>> \in Pairs
  BY DEF Pairs
<1> QED
  BY <1>8, <1>9, <1>10

-----------------------------------------------------------------------------
(***************************************************************************)
(* What a proof is bound to.                                               *)
(***************************************************************************)
\* The public values of the circom circuit, by their places.
LEMMA AddCircomValues ==
    ASSUME NEW a, NEW b, NEW F, NEW fields \in [1..3 -> F]
    PROVE  LET signals == AddCircom(a, b, fields)
           IN  /\ signals[2] = a /\ signals[3] = b /\ signals[4] = fields[1]
               /\ signals[5] = fields[2] /\ signals[6] = fields[3]
<1> DEFINE sum == (a + b) % BN254_SCALAR_FIELD
           T == F \cup {sum, a, b}
           triple == <<sum, a, b>>
           signals == triple \o fields
<1>1. fields \in Seq(T) /\ Len(fields) = 3
  <2>1. fields \in [1..3 -> T] /\ 3 \in Nat
    OBVIOUS
  <2> HIDE DEF T
  <2> QED
    BY <2>1, FunctionIsSeq
<1>2. triple \in Seq(T) /\ Len(triple) = 3 /\ triple[2] = a /\ triple[3] = b
  <2> HIDE DEF sum
  <2> QED
    OBVIOUS
<1>3. AddCircom(a, b, fields) = signals
  BY DEF AddCircom
<1> HIDE DEF sum, T, triple
<1>4. \A i \in 1..Len(triple) + Len(fields) :
         signals[i] = IF i <= Len(triple) THEN triple[i] ELSE fields[i - Len(triple)]
  BY <1>1, <1>2, ConcatProperties
<1> HIDE DEF signals
<1>5. /\ signals[2] = triple[2] /\ signals[3] = triple[3] /\ signals[4] = fields[4 - 3]
      /\ signals[5] = fields[5 - 3] /\ signals[6] = fields[6 - 3]
  BY <1>1, <1>2, <1>4
<1> QED
  BY <1>2, <1>3, <1>5

\* Residues agree if they agree in all three places.
LEMMA SameFields ==
    ASSUME NEW x, NEW y
    PROVE  BoundFields(x) = BoundFields(y) <=>
             /\ BoundFields(x)[1] = BoundFields(y)[1] /\ BoundFields(x)[2] = BoundFields(y)[2]
             /\ BoundFields(x)[3] = BoundFields(y)[3]
BY DEF BoundFields

\* A snarkjs or noir proof of one call is one of another exactly if both have the
\* same arguments, and commitments and nonces with the same residues in the field,
\* which is the only freedom (commitmentToField, protocol/src/binding.ts:23-26).
\* A risc0 receipt leaves less: the digests must agree but for their case.
THEOREM ProofsBindCalls ==
    ASSUME NEW x, x.arguments \in Pairs, NEW y, y.arguments \in Pairs
    PROVE  /\ (SnarkjsProve(x) # Refused /\ SnarkjsProve(y) # Refused) =>
                (SnarkjsProve(x).proof = SnarkjsProve(y).proof <=>
                   x.arguments = y.arguments /\ BoundFields(x) = BoundFields(y))
           /\ (NoirProve(x) # Refused /\ NoirProve(y) # Refused) =>
                (NoirProve(x).proof = NoirProve(y).proof <=>
                   x.arguments = y.arguments /\ BoundFields(x) = BoundFields(y))
           /\ (Risc0Prove(x) # Refused /\ Risc0Prove(y) # Refused) =>
                (Risc0Prove(x).proof = Risc0Prove(y).proof <=>
                   x.arguments = y.arguments /\ Digests(x) = Digests(y))
<1>1. PICK a \in Nat, b \in Nat : x.arguments = <<a, b>> /\ x.arguments[1] = a /\ x.arguments[2] = b
  BY DEF Pairs
<1>2. PICK c \in Nat, d \in Nat : y.arguments = <<c, d>> /\ y.arguments[1] = c /\ y.arguments[2] = d
  BY DEF Pairs
<1>3. x.arguments = y.arguments <=> a = c /\ b = d
  BY <1>1, <1>2
<1>4. PICK F : BoundFields(x) \in [1..3 -> F]
  BY BoundFieldsAreThree
<1>5. PICK G : BoundFields(y) \in [1..3 -> G]
  BY BoundFieldsAreThree
<1>6. ASSUME SnarkjsProve(x) # Refused, SnarkjsProve(y) # Refused
      PROVE  SnarkjsProve(x).proof = SnarkjsProve(y).proof <=>
               x.arguments = y.arguments /\ BoundFields(x) = BoundFields(y)
  <2> DEFINE here == AddCircom(a, b, BoundFields(x))
             there == AddCircom(c, d, BoundFields(y))
  <2>1. /\ here[2] = a /\ here[3] = b /\ here[4] = BoundFields(x)[1]
        /\ here[5] = BoundFields(x)[2] /\ here[6] = BoundFields(x)[3]
    BY <1>4, AddCircomValues
  <2>2. /\ there[2] = c /\ there[3] = d /\ there[4] = BoundFields(y)[1]
        /\ there[5] = BoundFields(y)[2] /\ there[6] = BoundFields(y)[3]
    BY <1>5, AddCircomValues
  <2>3. SnarkjsProve(x).proof = Proof("snarkjs-v2", here)
    <3>1. ParseAddArguments(x.arguments) = x.arguments
      BY <1>6, ParsedArguments DEF SnarkjsProve
    <3> QED
      BY <1>1, <1>6, <3>1 DEF SnarkjsProve, Meta
  <2>4. SnarkjsProve(y).proof = Proof("snarkjs-v2", there)
    <3>1. ParseAddArguments(y.arguments) = y.arguments
      BY <1>6, ParsedArguments DEF SnarkjsProve
    <3> QED
      BY <1>2, <1>6, <3>1 DEF SnarkjsProve, Meta
  <2>5. a = c /\ b = d /\ BoundFields(x) = BoundFields(y) => here = there
    OBVIOUS
  <2> HIDE DEF here, there
  <2>6. SnarkjsProve(x).proof = SnarkjsProve(y).proof <=> here = there
    BY <2>3, <2>4 DEF Proof
  <2> QED
    BY <1>3, <2>1, <2>2, <2>5, <2>6, SameFields
<1>7. ASSUME NoirProve(x) # Refused, NoirProve(y) # Refused
      PROVE  NoirProve(x).proof = NoirProve(y).proof <=>
               x.arguments = y.arguments /\ BoundFields(x) = BoundFields(y)
  <2> DEFINE here == AddNoir(a, b, BoundFields(x))
             there == AddNoir(c, d, BoundFields(y))
  <2>1. /\ here[1] = a /\ here[2] = b /\ here[3] = BoundFields(x)[1]
        /\ here[4] = BoundFields(x)[2] /\ here[5] = BoundFields(x)[3]
    BY <1>4, AddNoirValues
  <2>2. /\ there[1] = c /\ there[2] = d /\ there[3] = BoundFields(y)[1]
        /\ there[4] = BoundFields(y)[2] /\ there[5] = BoundFields(y)[3]
    BY <1>5, AddNoirValues
  <2>3. NoirProve(x).proof = Proof("noir-v1", here)
    <3>1. ParseAddArguments(x.arguments) = x.arguments
      BY <1>7, ParsedArguments DEF NoirProve
    <3> QED
      BY <1>1, <1>7, <3>1 DEF NoirProve, Meta
  <2>4. NoirProve(y).proof = Proof("noir-v1", there)
    <3>1. ParseAddArguments(y.arguments) = y.arguments
      BY <1>7, ParsedArguments DEF NoirProve
    <3> QED
      BY <1>2, <1>7, <3>1 DEF NoirProve, Meta
  <2>5. a = c /\ b = d /\ BoundFields(x) = BoundFields(y) => here = there
    OBVIOUS
  <2> HIDE DEF here, there
  <2>6. NoirProve(x).proof = NoirProve(y).proof <=> here = there
    BY <2>3, <2>4 DEF Proof
  <2> QED
    BY <1>3, <2>1, <2>2, <2>5, <2>6, SameFields
<1>8. ASSUME Risc0Prove(x) # Refused, Risc0Prove(y) # Refused
      PROVE  Risc0Prove(x).proof = Risc0Prove(y).proof <=>
               x.arguments = y.arguments /\ Digests(x) = Digests(y)
  <2> DEFINE here == Journal(a, b, CheckedAdd(a, b), Digests(x))
             there == Journal(c, d, CheckedAdd(c, d), Digests(y))
  <2>1. Risc0Prove(x).proof = Proof("risc0-v1", here)
    BY <1>1, <1>8 DEF Risc0Prove, Meta
  <2>2. Risc0Prove(y).proof = Proof("risc0-v1", there)
    BY <1>2, <1>8 DEF Risc0Prove, Meta
  <2>3. here = there <=> a = c /\ b = d /\ Digests(x) = Digests(y)
    BY DEF Journal
  <2> HIDE DEF here, there
  <2>4. Risc0Prove(x).proof = Risc0Prove(y).proof <=> here = there
    BY <2>1, <2>2 DEF Proof
  <2> QED
    BY <1>3, <2>3, <2>4
<1> QED
  BY <1>6, <1>7, <1>8


-----------------------------------------------------------------------------
(***************************************************************************)
(* ezkl-v1.                                                                *)
(***************************************************************************)
\* Every limb fits in the exact range of a 32-bit float.
LEMMA LimbsAreSmall ==
    ASSUME NEW hex, hex.value \in Nat
    PROVE  CommitmentToLimbs(hex) \in Seq(0..EZKL_MAX_INPUT) /\ Len(CommitmentToLimbs(hex)) = LimbCount
<1> PICK fe \in Nat : fe = hex.value % BN254_SCALAR_FIELD
  BY ProofFormatsAssumption
<1> DEFINE limb(i) == (fe \div LimbBase^(LimbCount - i)) % LimbBase
<1>1. ASSUME NEW i \in 1..LimbCount
      PROVE  limb(i) \in 0..EZKL_MAX_INPUT
  <2>1. LimbCount - i \in 0..LimbCount
    BY ProofFormatsAssumption
  <2>2. LimbBase^(LimbCount - i) \in Nat \ {0}
    BY <2>1, ProofFormatsAssumption
  <2> PICK power \in Nat \ {0} : power = LimbBase^(LimbCount - i)
    BY <2>2
  <2>3. fe \div power \in Nat
    OBVIOUS
  <2> PICK quotient \in Nat : quotient = fe \div power
    BY <2>3
  <2>4. quotient % LimbBase \in 0..(LimbBase - 1)
    BY ProofFormatsAssumption
  <2>5. limb(i) = quotient % LimbBase
    OBVIOUS
  <2> HIDE DEF limb
  <2> QED
    BY <2>4, <2>5, ProofFormatsAssumption
<1>2. CommitmentToLimbs(hex) = [i \in 1..LimbCount |-> limb(i)]
  BY DEF CommitmentToLimbs
<1> HIDE DEF limb
<1>3. CommitmentToLimbs(hex) \in [1..LimbCount -> 0..EZKL_MAX_INPUT] /\ LimbCount \in Nat
  BY <1>1, <1>2, ProofFormatsAssumption
<1> QED
  BY <1>3, FunctionIsSeq

\* The inputs of the circuit.
CircuitInputs(a, b, one, two, three) == <<a, b>> \o one \o two \o three

\* The inputs of the circuit, the arguments and three times the limbs, are as many
\* as its instances but for the sum, and all of them small.
LEMMA CircuitInputsValues ==
    ASSUME NEW S, NEW a \in S, NEW b \in S, NEW n \in Nat,
           NEW one \in Seq(S), NEW two \in Seq(S), NEW three \in Seq(S),
           Len(one) = n, Len(two) = n, Len(three) = n
    PROVE  LET inputs == CircuitInputs(a, b, one, two, three)
           IN  inputs \in Seq(S) /\ Len(inputs) = 3 * n + 2 /\ inputs[1] = a /\ inputs[2] = b
<1> DEFINE pair == <<a, b>>
           first == pair \o one
           second == first \o two
           inputs == second \o three
<1>1. pair \in Seq(S) /\ Len(pair) = 2 /\ pair[1] = a /\ pair[2] = b
  OBVIOUS
<1> HIDE DEF pair
<1>2. first \in Seq(S) /\ Len(first) = n + 2 /\ \A i \in 1..2 : first[i] = pair[i]
  <2>1. first \in Seq(S) /\ Len(first) = Len(pair) + Len(one)
    BY <1>1, ConcatProperties
  <2>2. \A i \in 1..Len(pair) + Len(one) : first[i] = IF i <= Len(pair) THEN pair[i] ELSE one[i - Len(pair)]
    BY <1>1, ConcatProperties
  <2> HIDE DEF first
  <2> QED
    BY <1>1, <2>1, <2>2
<1> HIDE DEF first
<1>3. second \in Seq(S) /\ Len(second) = n + n + 2 /\ \A i \in 1..2 : second[i] = first[i]
  <2>1. second \in Seq(S) /\ Len(second) = Len(first) + Len(two)
    BY <1>2, ConcatProperties
  <2>2. \A i \in 1..Len(first) + Len(two) : second[i] = IF i <= Len(first) THEN first[i] ELSE two[i - Len(first)]
    BY <1>2, ConcatProperties
  <2> HIDE DEF second
  <2> QED
    BY <1>2, <2>1, <2>2
<1> HIDE DEF second
<1>4. inputs \in Seq(S) /\ Len(inputs) = 3 * n + 2 /\ \A i \in 1..2 : inputs[i] = second[i]
  <2>1. inputs \in Seq(S) /\ Len(inputs) = Len(second) + Len(three)
    BY <1>3, ConcatProperties
  <2>2. \A i \in 1..Len(second) + Len(three) :
            inputs[i] = IF i <= Len(second) THEN second[i] ELSE three[i - Len(second)]
    BY <1>3, ConcatProperties
  <2> HIDE DEF inputs
  <2> QED
    BY <1>3, <2>1, <2>2
<1> HIDE DEF inputs
<1>5. inputs[1] = a /\ inputs[2] = b
  BY <1>1, <1>2, <1>3, <1>4
<1> QED
  BY <1>4, <1>5 DEF CircuitInputs, inputs, second, first, pair

\* The arguments and limbs that the circuit reads, the start of the instances.
EzklInputs(a, b, bound) ==
    CircuitInputs(a, b, CommitmentToLimbs(bound[1]), CommitmentToLimbs(bound[2]),
                  CommitmentToLimbs(bound[3]))

\* Read through 32-bit floats, arguments in range and limbs are themselves again,
\* so that the circuit shows the instances the sidecar expects.
LEMMA IngestIsExact ==
    ASSUME NEW a \in 0..EZKL_MAX_INPUT, NEW b \in 0..EZKL_MAX_INPUT, NEW bound,
           \A i \in 1..3 : bound[i].value \in Nat
    PROVE  LET expected == BoundInstances(a, b, a + b, bound)
           IN  ProveJob(a, b, expected) = expected
<1> DEFINE S == 0..EZKL_MAX_INPUT
           inputs == EzklInputs(a, b, bound)
           sum == <<a + b>>
           values == inputs \o sum
           expected == Written(FeltHex, values)
<1> PICK n \in Nat : n = LimbCount
  BY ProofFormatsAssumption
<1>1. inputs \in Seq(S) /\ Len(inputs) = 3 * n + 2 /\ inputs[1] = a /\ inputs[2] = b
  <2>1. \A i \in 1..3 : CommitmentToLimbs(bound[i]) \in Seq(S) /\ Len(CommitmentToLimbs(bound[i])) = n
    BY LimbsAreSmall
  <2> PICK one \in Seq(S), two \in Seq(S), three \in Seq(S) :
        /\ one = CommitmentToLimbs(bound[1]) /\ two = CommitmentToLimbs(bound[2])
        /\ three = CommitmentToLimbs(bound[3])
        /\ Len(one) = n /\ Len(two) = n /\ Len(three) = n
    BY <2>1
  <2>2. inputs = CircuitInputs(a, b, one, two, three)
    BY DEF EzklInputs
  <2>3. a \in S /\ b \in S
    OBVIOUS
  <2> HIDE DEF inputs, S
  <2> QED
    BY <2>2, <2>3, CircuitInputsValues
<1>2. BoundInstances(a, b, a + b, bound) = expected
  BY DEF BoundInstances, EzklInputs, CircuitInputs
<1>3. S \subseteq Nat /\ \A v \in S : Ingest(v) = v
  BY ProofFormatsAssumption DEF Ingest
<1>4. a + b \in Nat
  BY ProofFormatsAssumption
<1>5. sum \in Seq(Nat) /\ Len(sum) = 1 /\ sum[1] = a + b
  BY <1>4
<1> HIDE DEF inputs, S, sum
<1>6. inputs \in Seq(Nat)
  BY <1>1, <1>3, SeqMonotonic
<1>7. values \in Seq(Nat) /\ Len(values) = 3 * n + 3
  <2>1. values \in Seq(Nat) /\ Len(values) = Len(inputs) + Len(sum)
    BY <1>5, <1>6, ConcatProperties
  <2> HIDE DEF values
  <2> QED
    BY <1>1, <1>5, <2>1
<1>8. \A i \in 1..(3 * n + 2) : values[i] = inputs[i]
  <2>1. \A i \in 1..Len(inputs) + Len(sum) : values[i] = IF i <= Len(inputs) THEN inputs[i] ELSE sum[i - Len(inputs)]
    BY <1>5, <1>6, ConcatProperties
  <2> HIDE DEF values
  <2> QED
    BY <1>1, <1>5, <2>1
<1>9. Append(inputs, a + b) = values
  BY <1>1, <1>4, <1>6, AppendIsConcat DEF sum
<1> HIDE DEF values
<1>10. expected = [i \in 1..(3 * n + 3) |-> FeltHex(values[i])]
  BY <1>7 DEF Written
<1> HIDE DEF expected
<1> DEFINE rest == [i \in 1..3 * n |-> expected[i + 2].value]
           again == <<a, b>> \o rest
           ingested == [i \in DOMAIN again |-> Ingest(again[i])]
<1>11. rest \in [1..3 * n -> Nat] /\ \A i \in 1..3 * n : rest[i] = inputs[i + 2]
  <2>1. ASSUME NEW i \in 1..3 * n
        PROVE  expected[i + 2].value = inputs[i + 2] /\ inputs[i + 2] \in Nat
    <3>1. i + 2 \in 1..(3 * n + 3) /\ i + 2 \in 1..(3 * n + 2)
      OBVIOUS
    <3>2. expected[i + 2] = FeltHex(values[i + 2])
      BY <1>10, <3>1
    <3> QED
      BY <1>1, <1>6, <1>8, <3>1, <3>2 DEF FeltHex, Numeral
  <2> QED
    BY <2>1
<1> HIDE DEF rest
<1>12. again = inputs
  <2> DEFINE pair == <<a, b>>
  <2>1. pair \in Seq(Nat) /\ Len(pair) = 2 /\ pair[1] = a /\ pair[2] = b
    BY <1>3 DEF S
  <2>2. rest \in Seq(Nat) /\ Len(rest) = 3 * n
    <3>1. 3 * n \in Nat
      OBVIOUS
    <3> QED
      BY <1>11, <3>1, FunctionIsSeq
  <2> HIDE DEF pair
  <2> DEFINE joined == pair \o rest
  <2>3. joined \in Seq(Nat) /\ Len(joined) = Len(pair) + Len(rest)
    BY <2>1, <2>2, ConcatProperties
  <2>4. \A i \in 1..Len(pair) + Len(rest) : joined[i] = IF i <= Len(pair) THEN pair[i] ELSE rest[i - Len(pair)]
    BY <2>1, <2>2, ConcatProperties
  <2> HIDE DEF joined
  <2>5. ASSUME NEW i \in 1..(3 * n + 2)
        PROVE  joined[i] = inputs[i]
    <3>1. CASE i <= 2
      <4>1. i \in 1..Len(pair) + Len(rest) /\ i <= Len(pair)
        BY <2>1, <2>2, <3>1
      <4>2. joined[i] = pair[i]
        BY <2>4, <4>1
      <4>3. i = 1 \/ i = 2
        BY <3>1
      <4> QED
        BY <1>1, <2>1, <4>2, <4>3
    <3>2. CASE ~(i <= 2)
      <4>1. i - 2 \in 1..3 * n /\ (i - 2) + 2 = i
        BY <3>2
      <4>2. rest[i - 2] = inputs[i]
        BY <1>11, <4>1
      <4>3. i \in 1..Len(pair) + Len(rest) /\ ~(i <= Len(pair)) /\ i - Len(pair) = i - 2
        BY <2>1, <2>2, <3>2
      <4>4. joined[i] = rest[i - Len(pair)]
        BY <2>4, <4>3
      <4> QED
        BY <4>2, <4>3, <4>4
    <3> QED
      BY <3>1, <3>2
  <2>6. Len(joined) = Len(inputs)
    BY <1>1, <2>1, <2>2, <2>3
  <2>7. joined = inputs
    BY <1>1, <1>6, <2>3, <2>5, <2>6, SeqEqual
  <2> QED
    BY <2>7 DEF joined, pair
<1>13. ingested = inputs
  <2>1. \A i \in DOMAIN inputs : inputs[i] \in S
    BY <1>1
  <2>2. inputs = [i \in DOMAIN inputs |-> inputs[i]]
    BY <1>1
  <2> QED
    BY <1>3, <1>12, <2>1, <2>2
<1>14. ProveJob(a, b, expected) = Written(FeltHex, Append(ingested, ingested[1] + ingested[2]))
  BY DEF ProveJob, rest
<1> HIDE DEF ingested
<1>15. ProveJob(a, b, expected) = Written(FeltHex, values)
  BY <1>1, <1>9, <1>13, <1>14
<1> QED
  BY <1>2, <1>15 DEF expected

\* Within the range of the arguments the sidecar never refuses for its own
\* instances: the check that they are the expected ones (sidecars/ezkl/server.py,
\* the last of /prove) guards against the engine, and floats lose nothing of an
\* argument or a limb.
THEOREM EzklAnswers ==
    ASSUME NEW body, body.arguments \in Pairs, \A i \in 1..3 : Bound(body)[i].value \in Nat
    PROVE  LET a == body.arguments[1]
               b == body.arguments[2]
           IN  HandleProve(body) =
                 IF /\ body.circuitHash = "ezkl-v1"
                    /\ a <= EZKL_MAX_INPUT /\ b <= EZKL_MAX_INPUT
                    /\ body.output \in {Undefined, Decimal(a + b)}
                 THEN Meta("ezkl-v1", "ezkl-v1", body,
                           Proof("ezkl-v1", BoundInstances(a, b, a + b, Bound(body))),
                           Bound(body) \o Written(Decimal, <<a + b, a, b>>))
                 ELSE Refused
<1> PICK a \in Nat : a = body.arguments[1]
  BY DEF Pairs
<1> PICK b \in Nat : b = body.arguments[2]
  BY DEF Pairs
<1>1. (a > EZKL_MAX_INPUT <=> ~(a <= EZKL_MAX_INPUT)) /\ (b > EZKL_MAX_INPUT <=> ~(b <= EZKL_MAX_INPUT))
  <2>1. EZKL_MAX_INPUT \in Nat
    BY ProofFormatsAssumption
  <2> QED
    BY <2>1
<1> PICK expected : expected = BoundInstances(a, b, a + b, Bound(body))
  OBVIOUS
<1> PICK publicInputs : publicInputs = Bound(body) \o Written(Decimal, <<a + b, a, b>>)
  OBVIOUS
<1>2. a <= EZKL_MAX_INPUT /\ b <= EZKL_MAX_INPUT => ProveJob(a, b, expected) = expected
  <2> SUFFICES ASSUME a <= EZKL_MAX_INPUT, b <= EZKL_MAX_INPUT
               PROVE  ProveJob(a, b, expected) = expected
    OBVIOUS
  <2>1. a \in 0..EZKL_MAX_INPUT /\ b \in 0..EZKL_MAX_INPUT
    BY ProofFormatsAssumption
  <2> QED
    BY <2>1, IngestIsExact
<1>3. HandleProve(body) =
        IF \/ body.circuitHash # "ezkl-v1"
           \/ a > EZKL_MAX_INPUT \/ b > EZKL_MAX_INPUT
           \/ body.output \notin {Undefined, Decimal(a + b)}
           \/ ProveJob(a, b, expected) # expected
        THEN Refused
        ELSE Meta("ezkl-v1", "ezkl-v1", body, Proof("ezkl-v1", ProveJob(a, b, expected)), publicInputs)
  BY DEF HandleProve
<1> QED
  BY <1>1, <1>2, <1>3

\* Public inputs that differ only in how the numbers after the first three are
\* written, with leading zeros or without.
Respells(s, t) ==
    /\ Len(s) = Len(t)
    /\ \A i \in 1..3 : s[i] = t[i]
    /\ \A i \in 4..Len(t) : s[i].base = t[i].base /\ s[i].value = t[i].value

\* The public inputs of the sidecar's answer.
AnsweredInputs(record, x, y, z) == Bound(record) \o Written(Decimal, <<x, y, z>>)

\* They are six, by their places.
LEMMA AnsweredInputsValues ==
    ASSUME NEW record, NEW x, NEW y, NEW z
    PROVE  LET inputs == AnsweredInputs(record, x, y, z)
           IN  /\ Len(inputs) = 6 /\ \A i \in 1..3 : inputs[i] = Bound(record)[i]
               /\ inputs[4] = Decimal(x) /\ inputs[5] = Decimal(y) /\ inputs[6] = Decimal(z)
<1> DEFINE values == <<x, y, z>>
           last == Written(Decimal, values)
<1>1. DOMAIN values = 1..3 /\ values[1] = x /\ values[2] = y /\ values[3] = z
  OBVIOUS
<1>2. PICK T2 : last \in Seq(T2) /\ Len(last) = 3
  BY WrittenTriple
<1> HIDE DEF values
<1>3. last = [i \in DOMAIN values |-> Decimal(values[i])]
  BY DEF Written
<1>4. last[1] = Decimal(x) /\ last[2] = Decimal(y) /\ last[3] = Decimal(z)
  BY <1>1, <1>3
<1> HIDE DEF last
<1>5. PICK T1 : Bound(record) \in Seq(T1) /\ Len(Bound(record)) = 3
  BY BoundIsTriple
<1> PICK first \in Seq(T1) : first = Bound(record) /\ Len(first) = 3
  BY <1>5
<1> PICK T : T = T1 \cup T2
  OBVIOUS
<1>6. first \in Seq(T) /\ last \in Seq(T)
  BY <1>2, SeqMonotonic
<1> DEFINE joined == first \o last
<1>7. joined \in Seq(T) /\ Len(joined) = Len(first) + Len(last)
  BY <1>6, ConcatProperties
<1>8. \A i \in 1..Len(first) + Len(last) : joined[i] = IF i <= Len(first) THEN first[i] ELSE last[i - Len(first)]
  BY <1>6, ConcatProperties
<1> HIDE DEF joined
<1>9. Len(joined) = 6 /\ \A i \in 1..3 : joined[i] = first[i]
  BY <1>2, <1>7, <1>8
<1>10. joined[4] = last[4 - 3] /\ joined[5] = last[5 - 3] /\ joined[6] = last[6 - 3]
  BY <1>2, <1>8
<1>11. joined[4] = Decimal(x) /\ joined[5] = Decimal(y) /\ joined[6] = Decimal(z)
  BY <1>4, <1>10
<1>12. AnsweredInputs(record, x, y, z) = joined
  BY DEF AnsweredInputs, joined, last, values
<1> QED
  BY <1>9, <1>11, <1>12

\* What the sidecar reads off the public inputs is whether they respell the
\* prover's.
LEMMA ReadsRespelled ==
    ASSUME NEW S, NEW s \in Seq(S), NEW record, NEW x, NEW y, NEW z
    PROVE  Respells(s, AnsweredInputs(record, x, y, z)) <=>
             /\ Len(s) = 6 /\ SubSeq(s, 1, 3) = Bound(record)
             /\ \A i \in 4..6 : s[i].base = "decimal"
             /\ s[4].value = x /\ s[5].value = y /\ s[6].value = z
<1>1. PICK t : t = AnsweredInputs(record, x, y, z)
  OBVIOUS
<1>2. /\ Len(t) = 6 /\ \A i \in 1..3 : t[i] = Bound(record)[i]
      /\ t[4] = Decimal(x) /\ t[5] = Decimal(y) /\ t[6] = Decimal(z)
  BY <1>1, AnsweredInputsValues
<1>3. PICK T1 : Bound(record) \in Seq(T1) /\ Len(Bound(record)) = 3
  BY BoundIsTriple
<1>4. ASSUME Len(s) = 6
      PROVE  SubSeq(s, 1, 3) = Bound(record) <=> \A i \in 1..3 : s[i] = t[i]
  <2>1. 1 \in Int /\ 3 \in Int /\ \A i \in 1..3 : s[i] \in S
    BY <1>4
  <2>2. /\ SubSeq(s, 1, 3) \in Seq(S) /\ Len(SubSeq(s, 1, 3)) = 3
        /\ \A i \in 1..3 : SubSeq(s, 1, 3)[i] = s[i]
    BY <2>1, SubSeqProperties
  <2> PICK taken \in Seq(S) : taken = SubSeq(s, 1, 3)
    BY <2>2
  <2> PICK first \in Seq(T1) : first = Bound(record) /\ Len(first) = 3
    BY <1>3
  <2>3. taken = first <=> \A i \in 1..3 : taken[i] = first[i]
    <3>1. Len(taken) = 3 /\ Len(first) = 3
      BY <2>2
    <3>2. taken \in Seq(S \cup T1) /\ first \in Seq(S \cup T1)
      BY SeqMonotonic
    <3> QED
      BY <3>1, <3>2, SeqEqual
  <2> QED
    BY <1>2, <2>2, <2>3
<1>5. (\A i \in 4..Len(t) : s[i].base = t[i].base /\ s[i].value = t[i].value) <=>
        /\ \A i \in 4..6 : s[i].base = "decimal"
        /\ s[4].value = x /\ s[5].value = y /\ s[6].value = z
  <2>1. /\ t[4].base = "decimal" /\ t[5].base = "decimal" /\ t[6].base = "decimal"
        /\ t[4].value = x /\ t[5].value = y /\ t[6].value = z
    BY <1>2 DEF Decimal, Numeral
  <2>2. \A i \in 4..Len(t) : i = 4 \/ i = 5 \/ i = 6
    BY <1>2
  <2>3. \A i \in 4..6 : i = 4 \/ i = 5 \/ i = 6
    OBVIOUS
  <2>4. 4 \in 4..Len(t) /\ 5 \in 4..Len(t) /\ 6 \in 4..Len(t) /\ 4 \in 4..6 /\ 5 \in 4..6 /\ 6 \in 4..6
    BY <1>2
  <2> QED
    BY <2>1, <2>2, <2>3, <2>4
<1>6. Respells(s, t) <=>
        /\ Len(s) = 6 /\ \A i \in 1..3 : s[i] = t[i]
        /\ \A i \in 4..Len(t) : s[i].base = t[i].base /\ s[i].value = t[i].value
  BY <1>2 DEF Respells
<1>7. Respells(s, t) <=>
        /\ Len(s) = 6 /\ SubSeq(s, 1, 3) = Bound(record)
        /\ \A i \in 4..6 : s[i].base = "decimal"
        /\ s[4].value = x /\ s[5].value = y /\ s[6].value = z
  BY <1>4, <1>5, <1>6
<1> QED
  BY <1>1, <1>7

\* The sidecar's answer passes the comparison of SidecarProver, and is refused
\* exactly for another circuit, for provenance and for arguments out of range.
LEMMA EzklSidecarAnswers ==
    ASSUME NEW meta, NEW a \in Nat, NEW b \in Nat, \A i \in 1..3 : Bound(meta)[i].value \in Nat
    PROVE  LET input == AsInput(meta, <<a, b>>)
               answer == Meta("ezkl-v1", "ezkl-v1", input,
                              Proof("ezkl-v1", BoundInstances(a, b, a + b, Bound(meta))),
                              Bound(meta) \o Written(Decimal, <<a + b, a, b>>))
           IN  SidecarProve("ezkl-v1", input) =
                 IF /\ meta.circuitHash = "ezkl-v1" /\ meta.inputAttestations = Undefined
                    /\ a <= EZKL_MAX_INPUT /\ b <= EZKL_MAX_INPUT
                 THEN answer ELSE Refused
<1> PICK arguments : arguments = <<a, b>>
  OBVIOUS
<1>1. arguments \in Pairs /\ arguments[1] = a /\ arguments[2] = b /\ Total(arguments) = a + b
  BY DEF Pairs, Total
<1> PICK input : input = AsInput(meta, arguments)
  OBVIOUS
<1>2. /\ input.arguments = arguments /\ input.output = Decimal(Total(arguments))
      /\ input.circuitHash = meta.circuitHash
      /\ input.inputAttestations = meta.inputAttestations /\ Bound(input) = Bound(meta)
  BY SameBound
<1> DEFINE answer == Meta("ezkl-v1", "ezkl-v1", input,
                          Proof("ezkl-v1", BoundInstances(a, b, a + b, Bound(meta))),
                          Bound(meta) \o Written(Decimal, <<a + b, a, b>>))
           fits == meta.circuitHash = "ezkl-v1" /\ a <= EZKL_MAX_INPUT /\ b <= EZKL_MAX_INPUT
<1>3. \A i \in 1..3 : Bound(input)[i].value \in Nat
  BY <1>2
<1>4. HandleProve(input) = IF fits THEN answer ELSE Refused
  BY <1>1, <1>2, <1>3, EzklAnswers
<1>5. /\ answer.proofFormat = "ezkl-v1" /\ answer.circuitHash = "ezkl-v1"
      /\ answer.inputCommitment = input.inputCommitment
      /\ answer.outputCommitment = input.outputCommitment /\ answer.nonce = input.nonce
      /\ answer.inputAttestations = Undefined
  BY DEF Meta
<1> HIDE DEF answer
<1>6. SidecarProve("ezkl-v1", input) = IF fits /\ meta.inputAttestations = Undefined THEN answer ELSE Refused
  BY <1>2, <1>4, <1>5 DEF SidecarProve
<1> QED
  BY <1>6 DEF answer

\* The ezkl sidecar's own /verify accepts metadata exactly if, but for how the sum
\* and the arguments are spelled, it is what the sidecar answers for some
\* arguments: it sees no call, reads decimals as Python does, and its limbs and
\* limits are those of /prove (sidecars/ezkl/server.py).
THEOREM EzklSidecarIsExact ==
    ASSUME NEW S, NEW meta \in Arrivals(S), meta.inputAttestations = Undefined,
           \A i \in 1..3 : Bound(meta)[i].value \in Nat,
           Len(meta.publicInputs) = 6 => \A i \in 4..6 : meta.publicInputs[i].value \in Nat,
           \A spelled : [meta EXCEPT !.publicInputs = spelled] # Refused
    PROVE  HandleVerify(meta, "ezkl-v1") <=>
             \E arguments \in Pairs : \E spelled :
                 /\ Respells(meta.publicInputs, spelled)
                 /\ [meta EXCEPT !.publicInputs = spelled]
                      = SidecarProve("ezkl-v1", AsInput(meta, arguments))
<1> DEFINE Spelled(a, b) == AnsweredInputs(meta, a + b, a, b)
           Shown(a, b) == BoundInstances(a, b, a + b, Bound(meta))
           s == meta.publicInputs
<1>1. s \in Seq(S)
  BY DEF Arrivals
<1>2. ASSUME NEW a \in Nat, NEW b \in Nat, NEW spelled
      PROVE  [meta EXCEPT !.publicInputs = spelled] = SidecarProve("ezkl-v1", AsInput(meta, <<a, b>>)) <=>
               /\ meta.proofFormat = "ezkl-v1" /\ meta.circuitHash = "ezkl-v1"
               /\ a <= EZKL_MAX_INPUT /\ b <= EZKL_MAX_INPUT
               /\ meta.proof.circuit = "ezkl-v1"
               /\ meta.proof.proven = Shown(a, b) /\ meta.proof.shown = Shown(a, b)
               /\ spelled = Spelled(a, b)
  <2> PICK input : input = AsInput(meta, <<a, b>>)
    OBVIOUS
  <2> PICK proof : proof = Proof("ezkl-v1", Shown(a, b))
    OBVIOUS
  <2> PICK public : public = Spelled(a, b)
    OBVIOUS
  <2>1. SidecarProve("ezkl-v1", input) =
          IF /\ meta.circuitHash = "ezkl-v1" /\ a <= EZKL_MAX_INPUT /\ b <= EZKL_MAX_INPUT
          THEN Meta("ezkl-v1", "ezkl-v1", input, proof, public) ELSE Refused
    BY EzklSidecarAnswers DEF AnsweredInputs
  <2>2. /\ input.inputCommitment = meta.inputCommitment
        /\ input.outputCommitment = meta.outputCommitment /\ input.nonce = meta.nonce
    BY SameBound
  <2>3. meta.proof = proof <=>
          /\ meta.proof.circuit = "ezkl-v1"
          /\ meta.proof.proven = Shown(a, b) /\ meta.proof.shown = Shown(a, b)
    <3> HIDE DEF Shown
    <3> QED
      BY DEF Arrivals, Proof
  <2>4. [meta EXCEPT !.publicInputs = spelled] = Meta("ezkl-v1", "ezkl-v1", input, proof, public) <=>
          /\ meta.proof = proof /\ meta.proofFormat = "ezkl-v1" /\ meta.circuitHash = "ezkl-v1"
          /\ spelled = public
    <3> HIDE DEF Shown, Spelled
    <3> QED
      BY <2>2 DEF Arrivals, Meta
  <2> HIDE DEF Shown, Spelled
  <2> QED
    BY <2>1, <2>3, <2>4
<1>3. ASSUME NEW a \in Nat, NEW b \in Nat
      PROVE  Respells(s, Spelled(a, b)) <=>
               /\ Len(s) = 6 /\ SubSeq(s, 1, 3) = Bound(meta)
               /\ \A i \in 4..6 : s[i].base = "decimal"
               /\ s[4].value = a + b /\ s[5].value = a /\ s[6].value = b
  BY <1>1, ReadsRespelled
<1>4. HandleVerify(meta, "ezkl-v1") <=>
        /\ meta.proofFormat = "ezkl-v1" /\ meta.circuitHash = "ezkl-v1"
        /\ Len(s) = 6 /\ SubSeq(s, 1, 3) = Bound(meta)
        /\ \A i \in 4..6 : s[i].base = "decimal"
        /\ s[5].value + s[6].value = s[4].value
        /\ s[5].value <= EZKL_MAX_INPUT /\ s[6].value <= EZKL_MAX_INPUT
        /\ s[4].value <= 2 * EZKL_MAX_INPUT
        /\ meta.proof.shown = BoundInstances(s[5].value, s[6].value, s[4].value, Bound(meta))
        /\ meta.proof.circuit = "ezkl-v1" /\ meta.proof.proven = meta.proof.shown
  BY DEF HandleVerify, Proves
<1> HIDE DEF s, Spelled
<1>5. ASSUME HandleVerify(meta, "ezkl-v1")
      PROVE  \E arguments \in Pairs : \E spelled :
                 /\ Respells(s, spelled)
                 /\ [meta EXCEPT !.publicInputs = spelled]
                      = SidecarProve("ezkl-v1", AsInput(meta, arguments))
  <2>1. Len(s) = 6
    BY <1>4, <1>5
  <2>2. \A i \in 4..6 : s[i].value \in Nat
    BY <2>1 DEF s
  <2> PICK a \in Nat : a = s[5].value
    BY <2>2
  <2> PICK b \in Nat : b = s[6].value
    BY <2>2
  <2>3. a + b = s[4].value
    BY <1>4, <1>5
  <2>4. meta.proof.shown = Shown(a, b)
    BY <1>4, <1>5, <2>3
  <2> HIDE DEF Shown
  <2>5. Respells(s, Spelled(a, b))
    BY <1>3, <1>4, <1>5, <2>3
  <2>6. [meta EXCEPT !.publicInputs = Spelled(a, b)] = SidecarProve("ezkl-v1", AsInput(meta, <<a, b>>))
    <3>1. /\ meta.proofFormat = "ezkl-v1" /\ meta.circuitHash = "ezkl-v1"
          /\ a <= EZKL_MAX_INPUT /\ b <= EZKL_MAX_INPUT
          /\ meta.proof.circuit = "ezkl-v1" /\ meta.proof.proven = meta.proof.shown
      BY <1>4, <1>5
    <3> PICK spelled : spelled = Spelled(a, b)
      OBVIOUS
    <3>2. [meta EXCEPT !.publicInputs = spelled] = SidecarProve("ezkl-v1", AsInput(meta, <<a, b>>))
      BY <1>2, <2>4, <3>1
    <3> QED
      BY <3>2
  <2>7. <<a, b>> \in Pairs
    BY DEF Pairs
  <2> WITNESS <<a, b>> \in Pairs
  <2> WITNESS Spelled(a, b)
  <2> QED
    BY <2>5, <2>6
<1>6. ASSUME NEW arguments \in Pairs, NEW spelled, Respells(s, spelled),
             [meta EXCEPT !.publicInputs = spelled] = SidecarProve("ezkl-v1", AsInput(meta, arguments))
      PROVE  HandleVerify(meta, "ezkl-v1")
  <2>1. PICK a \in Nat, b \in Nat : arguments = <<a, b>>
    BY DEF Pairs
  <2>2. /\ meta.proofFormat = "ezkl-v1" /\ meta.circuitHash = "ezkl-v1"
        /\ a <= EZKL_MAX_INPUT /\ b <= EZKL_MAX_INPUT
        /\ meta.proof.circuit = "ezkl-v1"
        /\ meta.proof.proven = Shown(a, b) /\ meta.proof.shown = Shown(a, b)
        /\ spelled = Spelled(a, b)
    <3> HIDE DEF Shown
    <3>1. [meta EXCEPT !.publicInputs = spelled] = SidecarProve("ezkl-v1", AsInput(meta, <<a, b>>))
      BY <1>6, <2>1
    <3> QED
      BY <1>2, <3>1
  <2>3. /\ Len(s) = 6 /\ SubSeq(s, 1, 3) = Bound(meta)
        /\ \A i \in 4..6 : s[i].base = "decimal"
        /\ s[4].value = a + b /\ s[5].value = a /\ s[6].value = b
    BY <1>3, <1>6, <2>2
  <2>4. a + b <= 2 * EZKL_MAX_INPUT
    <3>1. EZKL_MAX_INPUT \in Nat
      BY ProofFormatsAssumption
    <3> QED
      BY <2>2, <3>1
  <2>5. BoundInstances(s[5].value, s[6].value, s[4].value, Bound(meta)) = Shown(a, b)
    BY <2>3
  <2> HIDE DEF Shown
  <2> QED
    BY <1>4, <2>2, <2>3, <2>4, <2>5
<1> QED
  BY <1>5, <1>6 DEF s
=============================================================================
