------------------------ MODULE VerifiableCallProofs ------------------------
(***************************************************************************)
(* What a client verifies is what the server computed for the very call,   *)
(* from the price its attestation states; what it acts on without a proof  *)
(* it was free to; a required proof is always there; and a proven result   *)
(* that arrives as it was sent is verified.  For every set of calls,       *)
(* requests, formats and prices, and whichever descriptors are missing.    *)
(***************************************************************************)
EXTENDS VerifiableCall, SequenceTheorems, WellFoundedInduction, TLAPS

Places == {"idle", "sent", "answered", "received", "decided", "proving", "failed"}

\* The server has executed the tool for the call, or refused to.
Served(c) == pc[c] \notin {"idle", "sent"}

Types ==
    /\ pc \in [Calls -> Places]
    /\ request \in [Calls -> Requests \cup {None}]
    /\ stage \in [Calls -> Stages]
    /\ DOMAIN output = Calls /\ DOMAIN received = Calls /\ DOMAIN verdict = Calls

-----------------------------------------------------------------------------
(***************************************************************************)
(* The server.                                                             *)
(***************************************************************************)
\* What is retained is the output of a priceQuote, which depends on its
\* arguments only.
RecordInv(record) ==
    /\ record.tool = "priceQuote"
    /\ record.args \in Arguments
    /\ record.content = <<"priceQuote", record.args, None>>

\* The statements a call's nonces stand in: of its own output under the nonce
\* of tools/call, and of some retained result, whichever was asked for, under
\* the nonce of verifiable-tools/prove.
EagerStatement(c, format) ==
    Statement(request[c].tool, request[c].args, output[c], format, Nonce(c, 1),
              Attested(request[c].tool, request[c].args, output[c]))

DeferredStatement(c, record, format) ==
    Statement(record.tool, record.args, record.content, format, Nonce(c, 2), None)

ProofInv(statement) ==
    \E c \in Calls :
        /\ Served(c)
        /\ \/ /\ output[c] \in Outputs(request[c])
              /\ \E format \in Formats : statement = EagerStatement(c, format)
           \/ \E record \in results, format \in Formats : statement = DeferredStatement(c, record, format)

\* A result without a proof, which the server owed nobody.
BareInv(result) ==
    /\ result.meta.proof = None
    /\ result.meta.attestation = None
    /\ result.stage = 1 => EffectiveProofRequirement(request[result.call]) # "required"

EagerInv(result) ==
    LET c == result.call IN
    \E format \in Formats \cap request[c].formats :
        /\ result.stage = 1
        /\ result.content = output[c] /\ output[c] \in Outputs(request[c])
        /\ EagerStatement(c, format) \in proofs
        /\ result.meta = ProvenMeta(EagerStatement(c, format),
                                    Attested(request[c].tool, request[c].args, output[c]))

DeferredInv(result) ==
    LET c == result.call IN
    \E record \in results, format \in Formats \cap request[c].formats :
        /\ result.stage = 2
        /\ result.content = record.content
        /\ DeferredStatement(c, record, format) \in proofs
        /\ result.meta = ProvenMeta(DeferredStatement(c, record, format), None)

SentInv(result) ==
    /\ DOMAIN result = {"call", "stage", "content", "meta"}
    /\ DOMAIN result.meta = DOMAIN NoMeta
    /\ result.call \in Calls /\ Served(result.call)
    /\ BareInv(result) \/ EagerInv(result) \/ DeferredInv(result)

-----------------------------------------------------------------------------
(***************************************************************************)
(* The calls.                                                              *)
(***************************************************************************)
\* An attestation that can arrive: none, an oracle's, or an altered one.
Known(attestation) ==
    \/ attestation = None
    \/ \E symbol \in Arguments, price \in Prices \cup {None} :
           \/ attestation = OracleAttestation(symbol, price)
           \/ attestation \in AlteredAttestations(OracleAttestation(symbol, price))

\* VerifiedIsGenuine, ActIsGenuine and HonestVerifies of one call.
Genuine(c) ==
    LET r == request[c]
        attestation == received[c].meta.attestation
    IN  /\ received[c].content = output[c]
        /\ \E statement \in proofs :
               /\ statement.nonce = Nonce(c, stage[c])
               /\ statement.outputCommitment = OutputCommitment(output[c])
        /\ attestation # None => attestation = OracleAttestation(r.args, output[c][3])
        /\ r.tool = "riskScore" /\ r.requireInputProvenance => attestation # None

\* The client may do without a proof: it asked for none, or it preferred one, has
\* got no evidence and was promised none.
AtLiberty(c) ==
    LET r == request[c]
        meta == received[c].meta
    IN  \/ EffectiveProofRequirement(r) = "none"
        \/ /\ EffectiveProofRequirement(r) = "preferred"
           /\ Descriptor(r.tool).proofPolicy # "always"
           /\ meta.proof = None \/ meta.inputCommitment = None \/ meta.outputCommitment = None

\* The call's own proven result, as it was sent.
Honest(c) ==
    /\ EffectiveProofRequirement(request[c]) # "none"
    /\ received[c] \in sent
    /\ received[c].call = c /\ received[c].stage = stage[c]
    /\ received[c].content = output[c]
    /\ received[c].meta.proof # None
    /\ ProvenanceRequired(request[c]) => received[c].meta.attestation # None

CallInv(c) ==
    /\ pc[c] # "idle" => request[c] \in Requests
    /\ Served(c) /\ pc[c] # "failed" => output[c] \in Outputs(request[c])
    /\ pc[c] = "received" => Known(received[c].meta.attestation)
    /\ pc[c] # "decided" => verdict[c] = NoVerdict
    /\ verdict[c].outcome = "verified" => Genuine(c)
    /\ verdict[c].act => verdict[c].outcome = "verified" \/ AtLiberty(c)
    /\ pc[c] = "decided" /\ Honest(c) => verdict[c].outcome = "verified"

IInv ==
    /\ Types
    /\ \A record \in results : RecordInv(record)
    /\ \A statement \in proofs : ProofInv(statement)
    /\ \A result \in sent : SentInv(result)
    /\ \A c \in Calls : CallInv(c)

-----------------------------------------------------------------------------
(***************************************************************************)
(* Frames.                                                                 *)
(***************************************************************************)
\* A step of one call leaves the others alone, adds to the histories, and fixes
\* what was asked and answered once the call is served.
StepBy(c) ==
    /\ \A x \in Calls : Served(x) =>
           Served(x)' /\ request'[x] = request[x] /\ output'[x] = output[x]
    /\ \A x \in Calls \ {c} :
           /\ pc'[x] = pc[x] /\ request'[x] = request[x] /\ stage'[x] = stage[x]
           /\ output'[x] = output[x] /\ received'[x] = received[x] /\ verdict'[x] = verdict[x]
    /\ results \subseteq results' /\ proofs \subseteq proofs' /\ sent \subseteq sent'
    /\ \A result \in sent' \ sent : result.call = c

LEMMA ProofStays ==
    ASSUME NEW c \in Calls, StepBy(c), NEW statement, ProofInv(statement)
    PROVE  ProofInv(statement)'
<1>1. PICK x \in Calls :
          /\ Served(x)
          /\ \/ /\ output[x] \in Outputs(request[x])
                /\ \E format \in Formats : statement = EagerStatement(x, format)
             \/ \E record \in results, format \in Formats : statement = DeferredStatement(x, record, format)
  BY DEF ProofInv
<1>2. Served(x)' /\ request'[x] = request[x] /\ output'[x] = output[x] /\ results \subseteq results'
  BY <1>1 DEF StepBy
<1>3. /\ \A format : EagerStatement(x, format)' = EagerStatement(x, format)
      /\ Outputs(request[x])' = Outputs(request[x])
  BY <1>2 DEF EagerStatement, Outputs
<1>4. \A record, format : DeferredStatement(x, record, format)' = DeferredStatement(x, record, format)
  BY DEF DeferredStatement
<1>5. QED
  BY <1>1, <1>2, <1>3, <1>4 DEF ProofInv

LEMMA SentStays ==
    ASSUME NEW c \in Calls, StepBy(c), NEW result, SentInv(result)
    PROVE  SentInv(result)'
<1> DEFINE x == result.call
<1>1. x \in Calls /\ Served(x)
  BY DEF SentInv
<1> HIDE DEF x
<1>2. /\ Served(x)' /\ request'[x] = request[x] /\ output'[x] = output[x]
      /\ results \subseteq results' /\ proofs \subseteq proofs'
  BY <1>1 DEF StepBy
<1>3. \A format : EagerStatement(x, format)' = EagerStatement(x, format)
  BY <1>2 DEF EagerStatement
<1>4. \A record, format : DeferredStatement(x, record, format)' = DeferredStatement(x, record, format)
  BY DEF DeferredStatement
<1>5. BareInv(result) => BareInv(result)'
  BY <1>2 DEF BareInv, EffectiveProofRequirement, x
<1>6. EagerInv(result) => EagerInv(result)'
  BY <1>2, <1>3 DEF EagerInv, x
<1>7. DeferredInv(result) => DeferredInv(result)'
  BY <1>2, <1>4 DEF DeferredInv, x
<1>8. QED
  BY <1>1, <1>2, <1>5, <1>6, <1>7 DEF SentInv, x

LEMMA OtherCallStays ==
    ASSUME NEW c \in Calls, StepBy(c), NEW x \in Calls, x # c, CallInv(x)
    PROVE  CallInv(x)'
<1>1. /\ pc'[x] = pc[x] /\ request'[x] = request[x] /\ stage'[x] = stage[x]
      /\ output'[x] = output[x] /\ received'[x] = received[x] /\ verdict'[x] = verdict[x]
      /\ proofs \subseteq proofs'
      /\ \A result \in sent' : result \in sent \/ result.call = c
  BY DEF StepBy
<1>2. Genuine(x) => Genuine(x)'
  BY <1>1 DEF Genuine
<1>3. AtLiberty(x) => AtLiberty(x)'
  BY <1>1 DEF AtLiberty, EffectiveProofRequirement
<1>4. Honest(x)' => Honest(x)
  BY <1>1 DEF Honest, EffectiveProofRequirement, ProvenanceRequired
<1>5. Served(x)' <=> Served(x)
  BY <1>1 DEF Served
<1>6. QED
  BY <1>1, <1>2, <1>3, <1>4, <1>5 DEF CallInv

\* What a step of a call has to establish.
LEMMA StepSuffices ==
    ASSUME IInv, NEW c \in Calls, Types', StepBy(c),
           \A record \in results' \ results : RecordInv(record),
           \A statement \in proofs' \ proofs : ProofInv(statement)',
           \A result \in sent' \ sent : SentInv(result)',
           CallInv(c)'
    PROVE  IInv'
<1>1. \A record \in results' : RecordInv(record)'
  BY DEF IInv, RecordInv
<1>2. ASSUME NEW statement \in proofs' PROVE ProofInv(statement)'
  BY ProofStays DEF IInv
<1>3. ASSUME NEW result \in sent' PROVE SentInv(result)'
  BY SentStays DEF IInv
<1>4. ASSUME NEW x \in Calls PROVE CallInv(x)'
  BY OtherCallStays DEF IInv
<1>5. QED
  BY <1>1, <1>2, <1>3, <1>4 DEF IInv

-----------------------------------------------------------------------------
(***************************************************************************)
(* The steps that neither answer nor verify.                               *)
(***************************************************************************)
LEMMA InitCorrect == Init => IInv
<1> SUFFICES ASSUME Init PROVE IInv
  OBVIOUS
<1>1. Types
  BY DEF Init, Types, Places, Stages
<1>2. ASSUME NEW c \in Calls PROVE CallInv(c)
  <2>1. pc[c] = "idle" /\ verdict[c] = NoVerdict
    BY DEF Init
  <2>2. NoVerdict.outcome # "verified" /\ ~NoVerdict.act
    BY DEF NoVerdict
  <2>3. QED
    BY <2>1, <2>2 DEF CallInv, Served
<1>3. QED
  BY <1>1, <1>2 DEF Init, IInv

LEMMA CallToolCorrect ==
    ASSUME IInv, NEW c \in Calls, NEW r \in Requests, CallTool(c, r) PROVE IInv'
<1>1. Types'
  BY DEF CallTool, Goto, IInv, Types, Places
<1>2. pc[c] = "idle" /\ pc'[c] = "sent" /\ request'[c] = r /\ verdict'[c] = verdict[c]
  BY DEF CallTool, Goto, IInv, Types
<1>3. StepBy(c)
  BY <1>2 DEF CallTool, Goto, IInv, Types, StepBy, Served
<1>4. verdict'[c] = NoVerdict /\ NoVerdict.outcome # "verified" /\ ~NoVerdict.act
  BY <1>2 DEF IInv, CallInv, NoVerdict
<1>5. CallInv(c)'
  BY <1>2, <1>4 DEF CallInv, Served, NoVerdict
<1>6. QED
  BY <1>1, <1>3, <1>5, StepSuffices DEF CallTool

LEMMA FailCorrect ==
    ASSUME IInv, NEW c \in Calls, pc[c] \in {"sent", "proving"}, Fail(c) PROVE IInv'
<1>1. Types'
  BY DEF Fail, Goto, IInv, Types, Places
<1>2. pc'[c] = "failed" /\ request'[c] = request[c] /\ verdict'[c] = verdict[c]
  BY DEF Fail, Goto, IInv, Types
<1>3. StepBy(c)
  BY <1>2 DEF Fail, Goto, IInv, Types, StepBy, Served
<1>4. /\ verdict'[c] = NoVerdict /\ NoVerdict.outcome # "verified" /\ ~NoVerdict.act
      /\ request'[c] \in Requests
  BY <1>2 DEF IInv, CallInv, NoVerdict
<1>5. CallInv(c)'
  BY <1>2, <1>4 DEF CallInv, Served, NoVerdict
<1>6. QED
  BY <1>1, <1>3, <1>5, StepSuffices DEF Fail

LEMMA ProveCorrect == ASSUME IInv, NEW c \in Calls, Prove(c) PROVE IInv'
<1>1. Types'
  BY DEF Prove, Goto, IInv, Types, Places, Stages
<1>2. /\ pc[c] = "decided" /\ pc'[c] = "proving" /\ request'[c] = request[c]
      /\ output'[c] = output[c] /\ verdict'[c] = NoVerdict
  BY DEF Prove, Goto, IInv, Types
<1>3. StepBy(c)
  BY <1>2 DEF Prove, Goto, IInv, Types, StepBy, Served
<1>4. /\ NoVerdict.outcome # "verified" /\ ~NoVerdict.act
      /\ request'[c] \in Requests
      /\ output'[c] \in Outputs(request'[c])
  BY <1>2 DEF IInv, CallInv, Served, NoVerdict
<1>5. CallInv(c)'
  BY <1>2, <1>4 DEF CallInv, Served, NoVerdict, Outputs
<1>6. QED
  BY <1>1, <1>3, <1>5, StepSuffices DEF Prove

-----------------------------------------------------------------------------
(***************************************************************************)
(* The answers.                                                            *)
(***************************************************************************)
LEMMA MinIsMember == ASSUME NEW S \in SUBSET Nat, S # {} PROVE Min(S) \in S
<1> DEFINE R == OpToRel(<, Nat)
<1>1. IsWellFoundedOn(R, Nat)
  BY NatLessThanWellFounded
<1>2. \A x, y \in Nat : y < x => <<y, x>> \in R
  BY DEF OpToRel
<1> HIDE DEF R
<1>3. PICK x \in S : \A y \in S : ~(<<y, x>> \in R)
  BY <1>1, WFMin
<1>4. ASSUME NEW y \in S PROVE x <= y
  <2>1. x \in Nat /\ y \in Nat /\ ~(<<y, x>> \in R)
    BY <1>3
  <2>2. ~(y < x)
    BY <1>2, <2>1
  <2>3. QED
    BY <2>1, <2>2
<1>5. QED
  BY <1>4 DEF Min

\* The format the server settles on is one of its own and one of the client's.
LEMMA NegotiatedIsCommon ==
    ASSUME NEW r, NegotiateProofFormat(r) # None
    PROVE  NegotiateProofFormat(r) \in Formats \cap r.formats
<1> DEFINE common == {i \in ToolFormats(r.tool) : r.negotiated /\ ServerFormats[i] \in r.formats}
           named == {i \in common : ServerFormats[i] = r.requested}
           eligible == IF r.requested = None THEN common ELSE named
<1>1. NegotiateProofFormat(r) = IF eligible = {} THEN None ELSE ServerFormats[Min(eligible)]
  BY DEF NegotiateProofFormat
<1>2. common \subseteq DOMAIN ServerFormats
  BY DEF ToolFormats
<1>3. ServerFormats \in Seq(Formats)
  BY CallAssumption
<1>4. eligible \in SUBSET Nat /\ eligible \subseteq DOMAIN ServerFormats /\ eligible \subseteq common
  <2>1. DOMAIN ServerFormats = 1..Len(ServerFormats) /\ Len(ServerFormats) \in Nat
    BY <1>3, LenProperties
  <2>2. QED
    BY <1>2, <2>1
<1>5. \A i \in common : ServerFormats[i] \in r.formats
  OBVIOUS
<1> HIDE DEF eligible, common
<1>6. eligible # {}
  BY <1>1
<1>7. Min(eligible) \in eligible
  BY <1>4, <1>6, MinIsMember
<1>8. ServerFormats[Min(eligible)] \in Formats
  BY <1>4, <1>7 DEF Formats, Range
<1>9. QED
  BY <1>1, <1>4, <1>5, <1>6, <1>7, <1>8

\* What every answer to tools/call does once the tool has been executed.
LEMMA ExecuteCorrect ==
    ASSUME IInv, NEW c \in Calls, NEW content, Execute(c, content),
           NEW place \in {"answered", "failed"}, Goto(c, place),
           results \subseteq results', proofs \subseteq proofs', sent \subseteq sent',
           \A result \in sent' \ sent : result.call = c
    PROVE  /\ Types' /\ StepBy(c) /\ CallInv(c)'
           /\ Served(c)' /\ request'[c] = request[c] /\ output'[c] = content
           /\ request[c] \in Request /\ content \in Outputs(request[c])
<1>1. Types'
  BY DEF Execute, Goto, IInv, Types, Places
<1>2. /\ pc[c] = "sent" /\ pc'[c] = place /\ request' = request /\ verdict' = verdict
      /\ output'[c] = content /\ content \in Outputs(request[c])
  BY DEF Execute, Goto, IInv, Types
<1>3. StepBy(c)
  BY <1>2 DEF Execute, Goto, IInv, Types, StepBy, Served
<1>4. /\ verdict'[c] = NoVerdict /\ NoVerdict.outcome # "verified" /\ ~NoVerdict.act
      /\ request[c] \in Requests
  BY <1>2 DEF IInv, CallInv, NoVerdict
<1>5. CallInv(c)'
  BY <1>2, <1>4 DEF CallInv, Served, NoVerdict, Outputs
<1>6. QED
  BY <1>1, <1>2, <1>3, <1>4, <1>5, CallAssumption DEF Served

\* The shape of what a tool returns.
LEMMA OutputShape ==
    ASSUME NEW r, NEW content \in Outputs(r)
    PROVE  /\ content = <<r.tool, r.args, content[3]>>
           /\ content[3] \in Prices \cup {None}
           /\ r.tool # "riskScore" => content[3] = None
  BY DEF Outputs

\* A result without a proof, where none is required.
LEMMA BareCorrect ==
    ASSUME IInv, NEW c \in Calls, NEW content, Execute(c, content),
           EffectiveProofRequirement(request[c]) # "required",
           NEW meta, meta \in {NoMeta, [NoMeta EXCEPT !.resultId = c]},
           Send(c, Result(c, 1, content, meta)),
           results \subseteq results', proofs' = proofs,
           \A record \in results' \ results : RecordInv(record)
    PROVE  IInv'
<1> DEFINE result == Result(c, 1, content, meta)
<1>1. result.call = c /\ result.stage = 1 /\ result.meta = meta
  BY DEF Result
<1>2. /\ meta.proof = None /\ meta.attestation = None
      /\ DOMAIN meta = DOMAIN NoMeta
  BY DEF NoMeta
<1>3. DOMAIN result = {"call", "stage", "content", "meta"}
  BY DEF Result
<1> HIDE DEF result
<1>4. sent' = sent \cup {result} /\ Goto(c, "answered")
  BY DEF Send, result
<1>5. /\ Types' /\ StepBy(c) /\ CallInv(c)'
      /\ Served(c)' /\ request'[c] = request[c]
  BY <1>1, <1>4, ExecuteCorrect
<1>6. BareInv(result)'
  BY <1>1, <1>2, <1>5 DEF BareInv, EffectiveProofRequirement
<1>7. SentInv(result)'
  BY <1>1, <1>2, <1>3, <1>5, <1>6 DEF SentInv
<1>8. QED
  BY <1>4, <1>5, <1>7, StepSuffices

LEMMA AnswerDeferredCorrect ==
    ASSUME IInv, NEW c \in Calls, NEW content, AnswerDeferred(c, content) PROVE IInv'
<1> DEFINE record == [id |-> c, tool |-> request[c].tool, args |-> request[c].args, content |-> content]
<1>1. /\ Execute(c, content) /\ Deferred(c) /\ results' = results \cup {record}
      /\ Send(c, Result(c, 1, content, [NoMeta EXCEPT !.resultId = c])) /\ proofs' = proofs
  BY DEF AnswerDeferred
<1>2. /\ content \in Outputs(request[c]) /\ request[c] \in Requests
      /\ request[c].tool = "priceQuote" /\ EffectiveProofRequirement(request[c]) = "preferred"
  BY <1>1 DEF Execute, Deferred, IInv, CallInv
<1>3. request[c].args \in Arguments
  BY <1>2, CallAssumption DEF Request
<1>4. RecordInv(record)
  BY <1>2, <1>3, OutputShape DEF RecordInv
<1> HIDE DEF record
<1>5. QED
  BY <1>1, <1>2, <1>4, BareCorrect

LEMMA AnswerPlainCorrect ==
    ASSUME IInv, NEW c \in Calls, NEW content, AnswerPlain(c, content) PROVE IInv'
<1>1. /\ Execute(c, content) /\ ~WantsProof(c) /\ results' = results /\ proofs' = proofs
      /\ Send(c, Result(c, 1, content, NoMeta))
  BY DEF AnswerPlain
<1>2. EffectiveProofRequirement(request[c]) # "required"
  BY <1>1 DEF Execute, Refused, WantsProof
<1>3. QED
  BY <1>1, <1>2, BareCorrect

LEMMA ProverFailsCorrect ==
    ASSUME IInv, NEW c \in Calls, NEW content, ProverFails(c, content) PROVE IInv'
<1>1. /\ Execute(c, content) /\ results' = results /\ proofs' = proofs
  BY DEF ProverFails
<1>2. CASE EffectiveProofRequirement(request[c]) = "required"
  <2>1. Goto(c, "failed") /\ sent' = sent
    BY <1>2 DEF ProverFails
  <2>2. QED
    BY <1>1, <2>1, ExecuteCorrect, StepSuffices
<1>3. CASE EffectiveProofRequirement(request[c]) # "required"
  <2>1. Send(c, Result(c, 1, content, NoMeta))
    BY <1>3 DEF ProverFails
  <2>2. QED
    BY <1>1, <1>3, <2>1, BareCorrect
<1>4. QED
  BY <1>2, <1>3

\* A proven result, eager or deferred.
LEMMA ProvenShape ==
    ASSUME NEW c, NEW s, NEW content, NEW statement, NEW attestation
    PROVE  LET result == Result(c, s, content, ProvenMeta(statement, attestation)) IN
           /\ DOMAIN result = {"call", "stage", "content", "meta"}
           /\ DOMAIN result.meta = DOMAIN NoMeta
           /\ result.call = c /\ result.stage = s /\ result.content = content
           /\ result.meta = ProvenMeta(statement, attestation)
<1>1. DOMAIN ProvenMeta(statement, attestation) = DOMAIN NoMeta
  BY DEF ProvenMeta, NoMeta
<1> DEFINE meta == ProvenMeta(statement, attestation)
<1> HIDE DEF meta
<1>2. LET result == Result(c, s, content, meta) IN
      /\ DOMAIN result = {"call", "stage", "content", "meta"}
      /\ result.call = c /\ result.stage = s /\ result.content = content
      /\ result.meta = meta
  BY DEF Result
<1>3. QED
  BY <1>1, <1>2 DEF meta

LEMMA AnswerProvenCorrect ==
    ASSUME IInv, NEW c \in Calls, NEW content, AnswerProven(c, content) PROVE IInv'
<1>1. PICK r : r = request[c]
  OBVIOUS
<1>2. PICK format : format = NegotiateProofFormat(r)
  OBVIOUS
<1> DEFINE attestation == Attested(r.tool, r.args, content)
           statement == Statement(r.tool, r.args, content, format, Nonce(c, 1), attestation)
           result == Result(c, 1, content, ProvenMeta(statement, attestation))
<1>3. /\ Execute(c, content) /\ WantsProof(c) /\ results' = results
      /\ proofs' = proofs \cup {statement} /\ sent' = sent \cup {result} /\ Goto(c, "answered")
  BY <1>1, <1>2 DEF AnswerProven, SendProven, Send
<1>4. format \in Formats \cap r.formats
  BY <1>1, <1>2, <1>3, NegotiatedIsCommon DEF WantsProof
<1>5. /\ DOMAIN result = {"call", "stage", "content", "meta"}
      /\ DOMAIN result.meta = DOMAIN NoMeta
      /\ result.call = c /\ result.stage = 1 /\ result.content = content
      /\ result.meta = ProvenMeta(statement, attestation)
  BY ProvenShape
<1> HIDE DEF result
<1>6. /\ Types' /\ StepBy(c) /\ CallInv(c)'
      /\ Served(c)' /\ request'[c] = r /\ output'[c] = content /\ content \in Outputs(r)
  BY <1>1, <1>3, <1>5, ExecuteCorrect
<1>7. EagerStatement(c, format)' = statement
  BY <1>6 DEF EagerStatement
<1>8. Outputs(request[c])' = Outputs(r)
  BY <1>6 DEF Outputs
<1>9. Attested(request[c].tool, request[c].args, output[c])' = attestation
  BY <1>6
<1> HIDE DEF statement, attestation
<1>10. ProofInv(statement)'
  BY <1>4, <1>6, <1>7, <1>8 DEF ProofInv
<1>11. EagerInv(result)'
  <2>1. statement \in proofs'
    BY <1>3
  <2>2. QED
    BY <1>4, <1>5, <1>6, <1>7, <1>8, <1>9, <2>1 DEF EagerInv
<1>12. SentInv(result)'
  BY <1>5, <1>6, <1>11 DEF SentInv
<1>13. QED
  BY <1>3, <1>6, <1>10, <1>12, StepSuffices

LEMMA AnswerProveCorrect == ASSUME IInv, NEW c \in Calls, AnswerProve(c) PROVE IInv'
<1>1. PICK record \in results :
          LET format == NegotiateProofFormat([request[c] EXCEPT !.tool = record.tool])
          IN  /\ format # None
              /\ SendProven(c, 2, record.tool, record.args, record.content, format, None)
  BY DEF AnswerProve
<1>2. PICK format : format = NegotiateProofFormat([request[c] EXCEPT !.tool = record.tool])
  OBVIOUS
<1> DEFINE statement == DeferredStatement(c, record, format)
           result == Result(c, 2, record.content, ProvenMeta(statement, None))
<1>3. /\ proofs' = proofs \cup {statement} /\ sent' = sent \cup {result} /\ Goto(c, "answered")
      /\ pc[c] = "proving" /\ request' = request /\ output' = output /\ results' = results
      /\ stage' = stage /\ received' = received /\ verdict' = verdict
  BY <1>1, <1>2 DEF SendProven, Send, AnswerProve, DeferredStatement
<1>4. format \in Formats \cap request[c].formats
  <2>1. request[c] \in Request
    BY <1>3, CallAssumption DEF IInv, CallInv
  <2>2. [request[c] EXCEPT !.tool = record.tool].formats = request[c].formats
    BY <2>1 DEF Request
  <2>3. QED
    BY <1>1, <1>2, <2>2, NegotiatedIsCommon
<1>5. /\ DOMAIN result = {"call", "stage", "content", "meta"}
      /\ DOMAIN result.meta = DOMAIN NoMeta
      /\ result.call = c /\ result.stage = 2 /\ result.content = record.content
      /\ result.meta = ProvenMeta(statement, None)
  BY ProvenShape
<1> HIDE DEF result
<1>6. Types'
  BY <1>3 DEF Goto, IInv, Types, Places
<1>7. pc'[c] = "answered" /\ Served(c) /\ Served(c)'
  BY <1>3 DEF Goto, IInv, Types, Served
<1>8. StepBy(c)
  BY <1>3, <1>5, <1>7 DEF Goto, IInv, Types, StepBy, Served
<1>9. CallInv(c)'
  <2>1. /\ request[c] \in Requests /\ output[c] \in Outputs(request[c])
        /\ verdict[c] = NoVerdict /\ NoVerdict.outcome # "verified" /\ ~NoVerdict.act
    BY <1>3, <1>7 DEF IInv, CallInv, NoVerdict
  <2>2. QED
    BY <1>3, <1>7, <2>1 DEF CallInv, NoVerdict, Outputs
<1>10. ProofInv(statement)'
  BY <1>3, <1>4, <1>7 DEF ProofInv, DeferredStatement
<1>11. DeferredInv(result)'
  <2>1. statement \in proofs'
    BY <1>3
  <2>2. QED
    BY <1>3, <1>4, <1>5, <2>1 DEF DeferredInv, DeferredStatement
<1>12. SentInv(result)'
  BY <1>5, <1>7, <1>11 DEF SentInv
<1> HIDE DEF statement
<1>13. QED
  BY <1>3, <1>6, <1>8, <1>9, <1>10, <1>12, StepSuffices

-----------------------------------------------------------------------------
(***************************************************************************)
(* Delivery.                                                               *)
(***************************************************************************)
\* What the server sends has no attestation or an oracle's.
Original(attestation) ==
    \/ attestation = None
    \/ \E symbol \in Arguments, price \in Prices \cup {None} :
           attestation = OracleAttestation(symbol, price)

LEMMA SentAttestation ==
    ASSUME IInv, NEW result \in sent PROVE Original(result.meta.attestation)
<1>1. SentInv(result)
  BY DEF IInv
<1>2. CASE BareInv(result)
  BY <1>2 DEF BareInv, Original
<1>3. CASE EagerInv(result)
  <2> DEFINE c == result.call
             r == request[c]
  <2>1. /\ result.meta.attestation = Attested(r.tool, r.args, output[c])
        /\ output[c] \in Outputs(r)
    BY <1>3 DEF EagerInv, ProvenMeta
  <2>2. r \in Requests
    BY <1>1 DEF SentInv, Served, IInv, CallInv
  <2>3. r.args \in Arguments /\ output[c][3] \in Prices \cup {None}
    BY <2>1, <2>2, OutputShape, CallAssumption DEF Request
  <2>4. QED
    BY <2>1, <2>3 DEF Original, Attested
<1>4. CASE DeferredInv(result)
  BY <1>4 DEF DeferredInv, ProvenMeta, Original
<1>5. QED
  BY <1>1, <1>2, <1>3, <1>4 DEF SentInv

LEMMA ArrivingAttestation ==
    ASSUME IInv, NEW c \in Calls, NEW result \in sent, NEW arriving \in {result} \cup Altered(result, c)
    PROVE  Known(arriving.meta.attestation)
<1>1. /\ DOMAIN result = {"call", "stage", "content", "meta"}
      /\ "attestation" \in DOMAIN result.meta
  BY DEF IInv, SentInv, NoMeta
<1>2. Original(result.meta.attestation)
  BY SentAttestation
<1>3. \A attestation : Original(attestation) => Known(attestation)
  BY DEF Original, Known
<1>4. CASE arriving \in {result, [result EXCEPT !.content = <<"garbled">>],
                         [result EXCEPT !.meta.outputCommitment = None],
                         [result EXCEPT !.meta.nonce = Nonce(c, stage[c])]}
  <2>1. arriving.meta.attestation = result.meta.attestation
    BY <1>1, <1>4
  <2>2. QED
    BY <1>2, <1>3, <2>1
<1>5. CASE arriving = [result EXCEPT !.meta = NoMeta]
  <2>1. arriving.meta.attestation = None
    BY <1>1, <1>5 DEF NoMeta
  <2>2. QED
    BY <2>1 DEF Known
<1>6. CASE arriving \in {[result EXCEPT !.meta.attestation = attestation] :
                             attestation \in AlteredAttestations(result.meta.attestation)}
  <2>1. PICK attestation \in AlteredAttestations(result.meta.attestation) :
            arriving = [result EXCEPT !.meta.attestation = attestation]
    BY <1>6
  <2>2. arriving.meta.attestation = attestation
    BY <1>1, <2>1
  <2>3. result.meta.attestation # None
    BY <2>1 DEF AlteredAttestations
  <2>4. QED
    BY <1>2, <2>1, <2>2, <2>3 DEF Original, Known
<1>7. CASE arriving \in {[result EXCEPT !.meta.attestation = other.meta.attestation,
                                        !.meta.publicInputs = other.meta.publicInputs] : other \in sent}
  <2>1. PICK other \in sent :
            arriving = [result EXCEPT !.meta.attestation = other.meta.attestation,
                                      !.meta.publicInputs = other.meta.publicInputs]
    BY <1>7
  <2>2. arriving.meta.attestation = other.meta.attestation
    BY <1>1, <2>1
  <2>3. QED
    BY <1>3, <2>2, SentAttestation
<1>8. QED
  BY <1>4, <1>5, <1>6, <1>7 DEF Altered

LEMMA DeliverCorrect == ASSUME IInv, NEW c \in Calls, Deliver(c) PROVE IInv'
<1>1. PICK result \in sent : \E arriving \in {result} \cup Altered(result, c) :
          received' = [received EXCEPT ![c] = arriving]
  BY DEF Deliver
<1>2. PICK arriving \in {result} \cup Altered(result, c) : received' = [received EXCEPT ![c] = arriving]
  BY <1>1
<1>3. Types'
  BY <1>2 DEF Deliver, Goto, IInv, Types, Places
<1>4. /\ pc[c] = "answered" /\ pc'[c] = "received" /\ received'[c] = arriving
      /\ request' = request /\ output' = output /\ verdict' = verdict
  BY <1>2 DEF Deliver, Goto, IInv, Types
<1>5. StepBy(c)
  BY <1>2, <1>4 DEF Deliver, Goto, IInv, Types, StepBy, Served
<1>6. Known(arriving.meta.attestation)
  BY ArrivingAttestation
<1>7. CallInv(c)'
  <2>1. /\ request[c] \in Requests /\ output[c] \in Outputs(request[c])
        /\ verdict[c] = NoVerdict /\ NoVerdict.outcome # "verified" /\ ~NoVerdict.act
    BY <1>4 DEF IInv, CallInv, NoVerdict, Served
  <2>2. Known(received[c].meta.attestation)'
    BY <1>4, <1>6 DEF Known
  <2>3. QED
    BY <1>4, <2>1, <2>2 DEF CallInv, NoVerdict, Outputs
<1>8. QED
  BY <1>3, <1>5, <1>7, StepSuffices DEF Deliver

-----------------------------------------------------------------------------
(***************************************************************************)
(* Verification.                                                           *)
(***************************************************************************)
\* FirstFailed reports a check that fails, or that none does.
LEMMA FirstFailedCorrect ==
    ASSUME NEW n \in Nat, NEW checks, DOMAIN checks = 1..n
    PROVE  \/ FirstFailed(checks) = "ok" /\ \A i \in 1..n : checks[i][2]
           \/ \E i \in 1..n : ~checks[i][2] /\ FirstFailed(checks) = checks[i][1]
<1> DEFINE failed == {i \in DOMAIN checks : ~checks[i][2]}
<1>1. FirstFailed(checks) = IF failed = {} THEN "ok" ELSE checks[Min(failed)][1]
  BY DEF FirstFailed
<1>2. CASE failed = {}
  BY <1>1, <1>2
<1>3. CASE failed # {}
  <2>1. failed \in SUBSET Nat /\ \A i \in failed : i \in 1..n /\ ~checks[i][2]
    OBVIOUS
  <2> HIDE DEF failed
  <2>2. Min(failed) \in failed
    BY <1>3, <2>1, MinIsMember
  <2>3. QED
    BY <1>1, <1>3, <2>1, <2>2
<1>4. QED
  BY <1>2, <1>3

\* The checks of verifyResult and of verifyProvenance.
ProofPasses(meta, content, r, nonce) ==
    /\ meta.proof # None
    /\ meta.proofFormat \in r.formats
    /\ meta.circuitHash = CircuitHash(r.tool, meta.proofFormat)
    /\ meta.inputCommitment # None /\ meta.outputCommitment # None
    /\ meta.inputCommitment = InputCommitment(r.args)
    /\ meta.outputCommitment = OutputCommitment(content)
    /\ meta.nonce = nonce
    /\ ProofVerifies(meta)

ProvenancePasses(meta, required) ==
    /\ ~required \/ meta.attestation # None
    /\ meta.attestation # None =>
           /\ WellFormed(meta.attestation)
           /\ meta.attestation.commitment \in Range(meta.publicInputs)
           /\ AttestationCommitment(meta.attestation.data) = meta.attestation.commitment
           /\ meta.attestation.type = "oracle-sig-v1"
           /\ OracleSigVerifies(meta.attestation)

Refusals ==
    {"formatNotNegotiated", "circuitHashMismatch", "inputCommitmentMismatch", "outputCommitmentMismatch",
     "nonceMismatch", "proofInvalid", "provenanceMissing", "provenanceMalformed", "provenanceUnbound",
     "provenanceInvalid", "provenanceUnsupported"}

\* The reason is "ok" just if every check passes, and the reasons that stand for
\* absent evidence mean that it is absent.
LEMMA ReasonCorrect ==
    ASSUME NEW meta, NEW content, NEW r, NEW nonce
    PROVE  LET reason == FirstFailed(Checks(meta, content, r, nonce)) IN
           /\ reason = "ok" <=> /\ ProofPasses(meta, content, r, nonce)
                                /\ ProvenancePasses(meta, ProvenanceRequired(r))
           /\ reason = "noProof" => meta.proof = None
           /\ reason = "missingCommitment" => meta.inputCommitment = None \/ meta.outputCommitment = None
<1> DEFINE required == ProvenanceRequired(r)
           attestation == meta.attestation
           absent == attestation = None
           b1 == meta.proof # None
           b2 == meta.proofFormat \in r.formats
           b3 == meta.circuitHash = CircuitHash(r.tool, meta.proofFormat)
           b4 == meta.inputCommitment # None /\ meta.outputCommitment # None
           b5 == meta.inputCommitment = InputCommitment(r.args)
           b6 == meta.outputCommitment = OutputCommitment(content)
           b7 == meta.nonce = nonce
           b8 == ProofVerifies(meta)
           p1 == ~required \/ ~absent
           p2 == absent \/ WellFormed(attestation)
           p3 == absent \/ attestation.commitment \in Range(meta.publicInputs)
           p4 == absent \/ AttestationCommitment(attestation.data) = attestation.commitment
           p5 == absent \/ attestation.type = "oracle-sig-v1"
           p6 == absent \/ OracleSigVerifies(attestation)
           first == <<<<"noProof", b1>>, <<"formatNotNegotiated", b2>>, <<"circuitHashMismatch", b3>>,
                      <<"missingCommitment", b4>>, <<"inputCommitmentMismatch", b5>>,
                      <<"outputCommitmentMismatch", b6>>, <<"nonceMismatch", b7>>, <<"proofInvalid", b8>>>>
           last == <<<<"provenanceMissing", p1>>, <<"provenanceMalformed", p2>>, <<"provenanceUnbound", p3>>,
                     <<"provenanceInvalid", p4>>, <<"provenanceUnsupported", p5>>, <<"provenanceInvalid", p6>>>>
           checks == first \o last
           reason == FirstFailed(checks)
<1>1. Checks(meta, content, r, nonce) = checks
  BY DEF Checks, ProvenanceChecks
<1>2. /\ ProofPasses(meta, content, r, nonce) <=> b1 /\ b2 /\ b3 /\ b4 /\ b5 /\ b6 /\ b7 /\ b8
      /\ ProvenancePasses(meta, required) <=> p1 /\ p2 /\ p3 /\ p4 /\ p5 /\ p6
  BY DEF ProofPasses, ProvenancePasses
<1>3. /\ b1 \in BOOLEAN /\ b2 \in BOOLEAN /\ b3 \in BOOLEAN /\ b4 \in BOOLEAN
      /\ b5 \in BOOLEAN /\ b6 \in BOOLEAN /\ b7 \in BOOLEAN /\ b8 \in BOOLEAN
      /\ p1 \in BOOLEAN /\ p2 \in BOOLEAN /\ p3 \in BOOLEAN
      /\ p4 \in BOOLEAN /\ p5 \in BOOLEAN /\ p6 \in BOOLEAN
  BY DEF ProofVerifies
<1>4. /\ ~b1 => meta.proof = None
      /\ ~b4 => meta.inputCommitment = None \/ meta.outputCommitment = None
  OBVIOUS
<1> HIDE DEF b1, b2, b3, b4, b5, b6, b7, b8, p1, p2, p3, p4, p5, p6
<1> DEFINE Names == Refusals \cup {"noProof", "missingCommitment"}
<1>5. /\ first \in Seq(Names \X BOOLEAN) /\ Len(first) = 8
      /\ last \in Seq(Names \X BOOLEAN) /\ Len(last) = 6
  BY <1>3 DEF Refusals
<1>6. /\ first[1][1] = "noProof" /\ (first[1][2] <=> b1)
      /\ first[4][1] = "missingCommitment" /\ (first[4][2] <=> b4)
      /\ \A i \in {2, 3, 5, 6, 7, 8} : first[i][1] \in Refusals
      /\ \A i \in 1..6 : last[i][1] \in Refusals
  BY <1>3 DEF Refusals
<1>7. /\ (\A i \in 1..8 : first[i][2]) <=> b1 /\ b2 /\ b3 /\ b4 /\ b5 /\ b6 /\ b7 /\ b8
      /\ (\A i \in 1..6 : last[i][2]) <=> p1 /\ p2 /\ p3 /\ p4 /\ p5 /\ p6
  BY <1>3
<1> HIDE DEF first, last, Names
<1>8. /\ DOMAIN checks = 1..14
      /\ \A i \in 1..8 : checks[i] = first[i]
      /\ \A i \in 1..6 : checks[i + 8] = last[i]
  <2> DEFINE S == Names \X BOOLEAN
  <2>1. first \in Seq(S) /\ last \in Seq(S) /\ Len(first) = 8 /\ Len(last) = 6
    BY <1>5
  <2> HIDE DEF S
  <2>2. checks \in Seq(S) /\ Len(checks) = Len(first) + Len(last)
    BY <2>1, ConcatProperties
  <2>3. \A i \in 1..Len(first) + Len(last) :
            checks[i] = IF i <= Len(first) THEN first[i] ELSE last[i - Len(first)]
    BY <2>1, ConcatProperties
  <2> HIDE DEF checks
  <2>4. DOMAIN checks = 1..14
    BY <2>1, <2>2, LenProperties
  <2>5. (\A i \in 1..8 : checks[i] = first[i]) /\ (\A i \in 1..6 : checks[i + 8] = last[i])
    BY <2>1, <2>3
  <2>6. QED
    BY <2>4, <2>5
<1> HIDE DEF checks
<1>9. \/ reason = "ok" /\ \A i \in 1..14 : checks[i][2]
      \/ \E i \in 1..14 : ~checks[i][2] /\ reason = checks[i][1]
  <2>1. 14 \in Nat
    OBVIOUS
  <2>2. QED
    BY <1>8, <2>1, FirstFailedCorrect
<1>10. \A i \in 1..14 : i \in {1, 4} \/ i \in {2, 3, 5, 6, 7, 8} \/ \E j \in 1..6 : i = j + 8
  <2>1. SUFFICES ASSUME NEW i \in 1..14, i > 8 PROVE \E j \in 1..6 : i = j + 8
    OBVIOUS
  <2>2. i = 1 + 8 \/ i = 2 + 8 \/ i = 3 + 8 \/ i = 4 + 8 \/ i = 5 + 8 \/ i = 6 + 8
    BY <2>1
  <2>3. 1 \in 1..6 /\ 2 \in 1..6 /\ 3 \in 1..6 /\ 4 \in 1..6 /\ 5 \in 1..6 /\ 6 \in 1..6
    OBVIOUS
  <2>4. QED
    BY <2>2, <2>3
<1>11. (\A i \in 1..14 : checks[i][2]) <=>
           (\A i \in 1..8 : first[i][2]) /\ (\A i \in 1..6 : last[i][2])
  <2>1. \A i \in 1..8 : i \in 1..14
    OBVIOUS
  <2>2. \A i \in 1..6 : i + 8 \in 1..14
    OBVIOUS
  <2>3. 1 \in 1..8 /\ 4 \in 1..8 /\ \A i \in {2, 3, 5, 6, 7, 8} : i \in 1..8
    OBVIOUS
  <2>4. QED
    BY <1>8, <1>10, <2>1, <2>2, <2>3
<1>12. ASSUME NEW i \in 1..14, ~checks[i][2]
       PROVE  \/ checks[i][1] = "noProof" /\ ~b1
              \/ checks[i][1] = "missingCommitment" /\ ~b4
              \/ checks[i][1] \in Refusals
  <2>1. CASE i \in {1, 4}
    BY <1>6, <1>8, <1>12, <2>1
  <2>2. CASE i \in {2, 3, 5, 6, 7, 8}
    BY <1>6, <1>8, <2>2
  <2>3. CASE \E j \in 1..6 : i = j + 8
    BY <1>6, <1>8, <2>3
  <2>4. QED
    BY <1>10, <2>1, <2>2, <2>3
<1>13. \A name \in Refusals : name \notin {"ok", "noProof", "missingCommitment"}
  BY DEF Refusals
<1> HIDE DEF reason
<1>14. /\ reason = "ok" <=> \A i \in 1..14 : checks[i][2]
       /\ reason = "noProof" => ~b1
       /\ reason = "missingCommitment" => ~b4
  BY <1>9, <1>12, <1>13
<1>15. QED
  BY <1>1, <1>2, <1>4, <1>7, <1>11, <1>14 DEF reason

LEMMA StatementFields ==
    ASSUME NEW tool, NEW args, NEW content, NEW format, NEW nonce, NEW attestation, NEW statement,
           statement = Statement(tool, args, content, format, nonce, attestation)
    PROVE  /\ DOMAIN statement = {"proofFormat", "circuitHash", "inputCommitment", "outputCommitment",
                                  "nonce", "publicInputs"}
           /\ statement.proofFormat = format /\ statement.circuitHash = CircuitHash(tool, format)
           /\ statement.inputCommitment = InputCommitment(args)
           /\ statement.outputCommitment = OutputCommitment(content)
           /\ statement.nonce = nonce /\ statement.publicInputs = AttestationCommits(attestation)
  BY DEF Statement

\* An attestation that passes the checks is as an oracle made it.
LEMMA PassingAttestation ==
    ASSUME NEW attestation, Known(attestation), attestation # None, WellFormed(attestation),
           attestation.type = "oracle-sig-v1", OracleSigVerifies(attestation)
    PROVE  \E symbol \in Arguments, price \in Prices \cup {None} :
               attestation = OracleAttestation(symbol, price)
<1>1. PICK symbol \in Arguments, price \in Prices \cup {None} :
          \/ attestation = OracleAttestation(symbol, price)
          \/ attestation \in AlteredAttestations(OracleAttestation(symbol, price))
  BY DEF Known
<1> DEFINE original == OracleAttestation(symbol, price)
<1>2. /\ DOMAIN original = {"type", "source", "data", "commitment", "proof"}
      /\ original.commitment = AttestationCommitment(<<symbol, price>>)
  BY DEF OracleAttestation
<1>3. /\ attestation.data # None
      /\ AttestationCommitment(attestation.data) = attestation.commitment
      /\ attestation.proof = OracleSignature(attestation.type, attestation.source, attestation.commitment)
  BY DEF WellFormed, OracleSigVerifies
<1> HIDE DEF original
<1>4. ASSUME attestation = [original EXCEPT !.type = "unknown"] PROVE FALSE
  BY <1>2, <1>4
<1>5. ASSUME attestation = [original EXCEPT !.data = None] PROVE FALSE
  BY <1>2, <1>3, <1>5
<1>6. ASSUME attestation = [original EXCEPT !.data = <<"garbled">>] PROVE FALSE
  <2>1. attestation.data = <<"garbled">> /\ attestation.commitment = AttestationCommitment(<<symbol, price>>)
    BY <1>2, <1>6
  <2>2. <<"garbled">> = <<symbol, price>>
    BY <1>3, <2>1 DEF AttestationCommitment
  <2>3. QED
    BY <2>2
<1>7. ASSUME attestation = [original EXCEPT !.proof = <<"garbled">>] PROVE FALSE
  <2>1. attestation.proof = <<"garbled">>
    BY <1>2, <1>7
  <2>2. QED
    BY <1>3, <2>1 DEF OracleSignature
<1>8. attestation \in AlteredAttestations(original) =>
          \/ attestation = [original EXCEPT !.type = "unknown"]
          \/ attestation = [original EXCEPT !.data = None]
          \/ attestation = [original EXCEPT !.data = <<"garbled">>]
          \/ attestation = [original EXCEPT !.proof = <<"garbled">>]
  BY DEF AlteredAttestations
<1>9. QED
  BY <1>1, <1>4, <1>5, <1>6, <1>7, <1>8 DEF original

\* What passes every check is the call's own.
LEMMA PassingIsGenuine ==
    ASSUME IInv, NEW c \in Calls, pc[c] = "received",
           ProofPasses(received[c].meta, received[c].content, request[c], Nonce(c, stage[c])),
           ProvenancePasses(received[c].meta, ProvenanceRequired(request[c]))
    PROVE  Genuine(c)
<1> DEFINE r == request[c]
           content == received[c].content
           meta == received[c].meta
           attestation == meta.attestation
           statement == meta.proof
<1>1. /\ r \in Request /\ output[c] \in Outputs(r) /\ Known(attestation)
  BY CallAssumption DEF IInv, CallInv, Served
<1>2. /\ statement \in proofs /\ \A field \in DOMAIN statement : meta[field] = statement[field]
      /\ meta.publicInputs = AttestationCommits(attestation)
      /\ meta.circuitHash = CircuitHash(r.tool, meta.proofFormat)
      /\ meta.inputCommitment = InputCommitment(r.args)
      /\ meta.outputCommitment = OutputCommitment(content)
      /\ meta.nonce = Nonce(c, stage[c])
  BY DEF ProofPasses, ProofVerifies
<1>3. /\ ProvenanceRequired(r) => attestation # None
      /\ attestation # None => \E symbol \in Arguments, price \in Prices \cup {None} :
                                   attestation = OracleAttestation(symbol, price)
  BY <1>1, PassingAttestation DEF ProvenancePasses
<1>4. r.tool = "riskScore" /\ r.requireInputProvenance => attestation # None
  BY <1>3 DEF ProvenanceRequired, Descriptor, ToolDescriptors
<1>5. output[c] = <<r.tool, r.args, output[c][3]>> /\ (r.tool # "riskScore" => output[c][3] = None)
  BY <1>1, OutputShape
<1> HIDE DEF r, content, meta, attestation, statement
<1>6. ASSUME DOMAIN statement = {"proofFormat", "circuitHash", "inputCommitment", "outputCommitment",
                                 "nonce", "publicInputs"}
      PROVE  /\ statement.circuitHash = CircuitHash(r.tool, meta.proofFormat)
             /\ statement.inputCommitment = InputCommitment(r.args)
             /\ statement.outputCommitment = OutputCommitment(content)
             /\ statement.nonce = Nonce(c, stage[c])
             /\ statement.publicInputs = AttestationCommits(attestation)
  BY <1>2, <1>6
<1>7. ASSUME NEW x \in Calls, NEW format, statement = EagerStatement(x, format)
      PROVE  /\ content = output[c] /\ statement.nonce = Nonce(c, stage[c])
             /\ attestation # None => attestation = OracleAttestation(r.args, output[c][3])
  <2>1. /\ DOMAIN statement = {"proofFormat", "circuitHash", "inputCommitment", "outputCommitment",
                               "nonce", "publicInputs"}
        /\ statement.nonce = Nonce(x, 1) /\ statement.outputCommitment = OutputCommitment(output[x])
        /\ statement.publicInputs =
               AttestationCommits(Attested(request[x].tool, request[x].args, output[x]))
    BY <1>7, StatementFields DEF EagerStatement
  <2>2. x = c
    BY <1>6, <2>1 DEF Nonce
  <2>3. content = output[c]
    BY <1>6, <2>1, <2>2 DEF OutputCommitment
  <2>4. ASSUME attestation # None PROVE attestation = OracleAttestation(r.args, output[c][3])
    <3>1. AttestationCommits(attestation) = <<attestation.commitment>>
      BY <2>4 DEF AttestationCommits
    <3>2. AttestationCommits(Attested(r.tool, r.args, output[c])) = <<attestation.commitment>>
      BY <1>6, <2>1, <2>2, <3>1 DEF r
    <3>3. /\ Attested(r.tool, r.args, output[c]) # None
          /\ Attested(r.tool, r.args, output[c]).commitment = attestation.commitment
      BY <3>2 DEF AttestationCommits
    <3>4. Attested(r.tool, r.args, output[c]) = OracleAttestation(r.args, output[c][3])
      BY <3>3 DEF Attested
    <3>5. attestation.commitment = AttestationCommitment(<<r.args, output[c][3]>>)
      BY <3>3, <3>4 DEF OracleAttestation
    <3>6. PICK symbol \in Arguments, price \in Prices \cup {None} :
              attestation = OracleAttestation(symbol, price)
      BY <1>3, <2>4
    <3>7. attestation.commitment = AttestationCommitment(<<symbol, price>>)
      BY <3>6 DEF OracleAttestation
    <3>8. symbol = r.args /\ price = output[c][3]
      BY <3>5, <3>7 DEF AttestationCommitment
    <3>9. QED
      BY <3>6, <3>8
  <2>5. QED
    BY <1>6, <2>1, <2>3, <2>4
<1>8. ASSUME NEW x \in Calls, NEW record \in results, NEW format,
             statement = DeferredStatement(x, record, format)
      PROVE  content = output[c] /\ statement.nonce = Nonce(c, stage[c]) /\ attestation = None
  <2>1. /\ DOMAIN statement = {"proofFormat", "circuitHash", "inputCommitment", "outputCommitment",
                               "nonce", "publicInputs"}
        /\ statement.circuitHash = CircuitHash(record.tool, format)
        /\ statement.inputCommitment = InputCommitment(record.args)
        /\ statement.outputCommitment = OutputCommitment(record.content)
        /\ statement.publicInputs = AttestationCommits(None)
    BY <1>8, StatementFields DEF DeferredStatement
  <2>2. record.tool = "priceQuote" /\ record.content = <<"priceQuote", record.args, None>>
    BY DEF IInv, RecordInv
  <2>3. r.tool = record.tool /\ r.args = record.args /\ content = record.content
    BY <1>6, <2>1 DEF CircuitHash, InputCommitment, OutputCommitment
  <2>4. content = output[c]
    BY <1>5, <2>2, <2>3
  <2>5. attestation = None
    BY <1>6, <2>1 DEF AttestationCommits
  <2>6. QED
    BY <1>6, <2>1, <2>4, <2>5
<1>9. /\ content = output[c] /\ statement.nonce = Nonce(c, stage[c])
      /\ attestation # None => attestation = OracleAttestation(r.args, output[c][3])
  <2>1. ProofInv(statement)
    BY <1>2 DEF IInv
  <2>2. QED
    BY <1>7, <1>8, <2>1 DEF ProofInv
<1>10. statement.outputCommitment = OutputCommitment(output[c])
  <2>1. "outputCommitment" \in DOMAIN statement
    <3>1. ProofInv(statement)
      BY <1>2 DEF IInv
    <3>2. QED
      BY <3>1, StatementFields DEF ProofInv, EagerStatement, DeferredStatement
  <2>2. QED
    BY <1>2, <1>9, <2>1
<1>11. QED
  BY <1>2, <1>4, <1>9, <1>10 DEF Genuine, r, content, meta, attestation

\* What the server proves for a request passes the checks made for it.
LEMMA ProvenPasses ==
    ASSUME NEW r \in Request, NEW content \in Outputs(r), NEW format \in r.formats, NEW nonce,
           NEW attestation, Original(attestation), NEW statement \in proofs, statement # None,
           statement = Statement(r.tool, r.args, content, format, nonce, attestation),
           NEW meta, meta = ProvenMeta(statement, attestation),
           ProvenanceRequired(r) => attestation # None
    PROVE  ProofPasses(meta, content, r, nonce) /\ ProvenancePasses(meta, ProvenanceRequired(r))
<1>1. /\ DOMAIN statement = {"proofFormat", "circuitHash", "inputCommitment", "outputCommitment",
                             "nonce", "publicInputs"}
      /\ statement.proofFormat = format /\ statement.circuitHash = CircuitHash(r.tool, format)
      /\ statement.inputCommitment = InputCommitment(r.args)
      /\ statement.outputCommitment = OutputCommitment(content)
      /\ statement.nonce = nonce /\ statement.publicInputs = AttestationCommits(attestation)
  BY StatementFields
<1>2. /\ meta.proof = statement /\ meta.proofFormat = statement.proofFormat
      /\ meta.circuitHash = statement.circuitHash
      /\ meta.inputCommitment = statement.inputCommitment
      /\ meta.outputCommitment = statement.outputCommitment
      /\ meta.nonce = statement.nonce /\ meta.publicInputs = statement.publicInputs
      /\ meta.attestation = attestation
  BY DEF ProvenMeta
<1>3. ProofVerifies(meta)
  BY <1>1, <1>2 DEF ProofVerifies
<1>4. InputCommitment(r.args) # None /\ OutputCommitment(content) # None
  <2>1. /\ r.tool \in Tools /\ r.args \in Arguments
        /\ content[3] \in Prices \cup {None} /\ content = <<r.tool, r.args, content[3]>>
    BY OutputShape DEF Request
  <2>2. QED
    BY <2>1, UndefinedAssumption
<1>5. ASSUME attestation # None
      PROVE  /\ WellFormed(attestation)
             /\ attestation.commitment \in Range(AttestationCommits(attestation))
             /\ AttestationCommitment(attestation.data) = attestation.commitment
             /\ attestation.type = "oracle-sig-v1"
             /\ OracleSigVerifies(attestation)
  <2>1. PICK symbol \in Arguments, price \in Prices \cup {None} :
            attestation = OracleAttestation(symbol, price)
    BY <1>5 DEF Original
  <2>2. /\ attestation.type = "oracle-sig-v1" /\ attestation.source = symbol
        /\ attestation.data = <<symbol, price>>
        /\ attestation.commitment = AttestationCommitment(<<symbol, price>>)
        /\ attestation.proof = OracleSignature("oracle-sig-v1", symbol, AttestationCommitment(<<symbol, price>>))
    BY <2>1 DEF OracleAttestation
  <2>3. attestation.data # None
    BY <2>2, UndefinedAssumption
  <2>4. attestation.commitment \in Range(AttestationCommits(attestation))
    <3>1. AttestationCommits(attestation) = <<attestation.commitment>>
      BY <1>5 DEF AttestationCommits
    <3>2. 1 \in DOMAIN <<attestation.commitment>> /\ <<attestation.commitment>>[1] = attestation.commitment
      OBVIOUS
    <3>3. QED
      BY <3>1, <3>2 DEF Range
  <2>5. QED
    BY <2>2, <2>3, <2>4 DEF WellFormed, OracleSigVerifies
<1>6. ProofPasses(meta, content, r, nonce)
  BY <1>1, <1>2, <1>3, <1>4 DEF ProofPasses
<1>7. ProvenancePasses(meta, ProvenanceRequired(r))
  BY <1>1, <1>2, <1>5 DEF ProvenancePasses
<1>8. QED
  BY <1>6, <1>7

LEMMA HonestPasses ==
    ASSUME IInv, NEW c \in Calls, pc[c] = "received", Honest(c)
    PROVE  /\ ProofPasses(received[c].meta, received[c].content, request[c], Nonce(c, stage[c]))
           /\ ProvenancePasses(received[c].meta, ProvenanceRequired(request[c]))
<1> DEFINE r == request[c]
           result == received[c]
<1>1. /\ r \in Request /\ output[c] \in Outputs(r)
  BY CallAssumption DEF IInv, CallInv, Served
<1>2. /\ result \in sent /\ result.call = c /\ result.stage = stage[c] /\ result.content = output[c]
      /\ result.meta.proof # None
      /\ ProvenanceRequired(r) => result.meta.attestation # None
  BY DEF Honest
<1> HIDE DEF result
<1>3. SentInv(result) /\ Original(result.meta.attestation)
  BY <1>2, SentAttestation DEF IInv
<1>4. CASE EagerInv(result)
  <2> DEFINE attestation == Attested(r.tool, r.args, output[c])
  <2>1. PICK format \in Formats \cap r.formats :
            /\ result.stage = 1 /\ EagerStatement(c, format) \in proofs
            /\ result.meta = ProvenMeta(EagerStatement(c, format), attestation)
    BY <1>2, <1>4 DEF EagerInv
  <2>2. PICK statement : statement = EagerStatement(c, format)
    OBVIOUS
  <2>3. statement = Statement(r.tool, r.args, output[c], format, Nonce(c, stage[c]), attestation)
    BY <1>2, <2>1, <2>2 DEF EagerStatement
  <2> HIDE DEF attestation
  <2>4. result.meta.attestation = attestation /\ result.meta.proof = statement
    BY <2>1, <2>2 DEF ProvenMeta
  <2> HIDE DEF r
  <2>5. QED
    BY <1>1, <1>2, <1>3, <2>1, <2>2, <2>3, <2>4, ProvenPasses DEF r, result
<1>5. CASE DeferredInv(result)
  <2>1. PICK record \in results, format \in Formats \cap r.formats :
            /\ result.stage = 2 /\ result.content = record.content
            /\ DeferredStatement(c, record, format) \in proofs
            /\ result.meta = ProvenMeta(DeferredStatement(c, record, format), None)
    BY <1>2, <1>5 DEF DeferredInv
  <2>2. PICK statement : statement = DeferredStatement(c, record, format)
    OBVIOUS
  <2>3. record.tool = "priceQuote" /\ record.content = <<"priceQuote", record.args, None>>
    BY DEF IInv, RecordInv
  <2>4. record.tool = r.tool /\ record.args = r.args
    <3>1. output[c] = <<r.tool, r.args, output[c][3]>>
      BY <1>1, OutputShape
    <3>2. <<r.tool, r.args, output[c][3]>> = <<"priceQuote", record.args, None>>
      BY <1>2, <2>1, <2>3, <3>1
    <3>3. QED
      BY <2>3, <3>2
  <2>5. statement = Statement(r.tool, r.args, output[c], format, Nonce(c, stage[c]), None)
    BY <1>2, <2>1, <2>2, <2>4 DEF DeferredStatement
  <2>6. result.meta.attestation = None /\ result.meta.proof = statement
    BY <2>1, <2>2 DEF ProvenMeta
  <2> HIDE DEF r
  <2>7. QED
    BY <1>1, <1>2, <1>3, <2>1, <2>2, <2>5, <2>6, ProvenPasses DEF r, result
<1>6. QED
  BY <1>2, <1>3, <1>4, <1>5 DEF SentInv, BareInv

LEMMA VerifyCorrect == ASSUME IInv, NEW c \in Calls, Verify(c) PROVE IInv'
<1> DEFINE r == request[c]
           meta == received[c].meta
           requirement == EffectiveProofRequirement(r)
           reason == FirstFailed(Checks(meta, received[c].content, r, Nonce(c, stage[c])))
           outcome == ClassifyOutcome(reason)
           passes == /\ ProofPasses(meta, received[c].content, r, Nonce(c, stage[c]))
                     /\ ProvenancePasses(meta, ProvenanceRequired(r))
<1>1. Types'
  BY DEF Verify, Goto, IInv, Types, Places
<1>2. /\ pc[c] = "received" /\ pc'[c] = "decided" /\ request' = request /\ output' = output
      /\ stage' = stage /\ received' = received /\ proofs' = proofs /\ sent' = sent /\ results' = results
      /\ verdict'[c] = VerifyWithRequirement(c)
  BY DEF Verify, Goto, IInv, Types
<1>3. StepBy(c)
  BY <1>2 DEF Verify, Goto, IInv, Types, StepBy, Served
<1>4. request[c] \in Requests /\ output[c] \in Outputs(request[c])
  BY <1>2 DEF IInv, CallInv, Served
<1>5. requirement = "none" => VerifyWithRequirement(c) = [outcome |-> "absent", act |-> TRUE]
  BY DEF VerifyWithRequirement
<1>6. requirement # "none" =>
          /\ VerifyWithRequirement(c).outcome = outcome
          /\ VerifyWithRequirement(c).act = MayAct(outcome, requirement, DescriptorViolation(r.tool, meta))
  BY DEF VerifyWithRequirement
<1>7. /\ reason = "ok" <=> passes
      /\ reason = "noProof" => meta.proof = None
      /\ reason = "missingCommitment" => meta.inputCommitment = None \/ meta.outputCommitment = None
  BY ReasonCorrect
<1>8. passes => Genuine(c)
  BY <1>2, PassingIsGenuine
<1>9. Honest(c) => passes
  BY <1>2, HonestPasses
<1> HIDE DEF reason, passes
<1>10. /\ outcome = "verified" <=> reason = "ok"
       /\ outcome = "absent" => reason \in {"noProof", "missingCommitment"}
  BY DEF ClassifyOutcome
<1> HIDE DEF outcome
<1>11. verdict'[c].outcome = "verified" => Genuine(c)
  BY <1>2, <1>5, <1>6, <1>7, <1>8, <1>10
<1>12. verdict'[c].act => verdict'[c].outcome = "verified" \/ AtLiberty(c)
  <2>1. CASE requirement = "none"
    BY <2>1 DEF AtLiberty
  <2>2. CASE requirement # "none"
    BY <1>2, <1>6, <1>7, <1>10, <2>2 DEF AtLiberty, MayAct, DescriptorViolation
  <2>3. QED
    BY <2>1, <2>2
<1>13. Honest(c) => verdict'[c].outcome = "verified"
  <2>1. Honest(c) => requirement # "none"
    BY DEF Honest
  <2>2. QED
    BY <1>2, <1>6, <1>7, <1>9, <1>10, <2>1
<1>14. /\ Genuine(c)' <=> Genuine(c)
       /\ AtLiberty(c)' <=> AtLiberty(c)
       /\ Honest(c)' <=> Honest(c)
  BY <1>2 DEF Genuine, AtLiberty, Honest, EffectiveProofRequirement, ProvenanceRequired
<1>15. CallInv(c)'
  BY <1>2, <1>4, <1>11, <1>12, <1>13, <1>14 DEF CallInv, Outputs
<1>16. QED
  BY <1>1, <1>2, <1>3, <1>15, StepSuffices

-----------------------------------------------------------------------------
LEMMA NextCorrect == IInv /\ [Next]_vars => IInv'
<1> SUFFICES ASSUME IInv, [Next]_vars PROVE IInv'
  OBVIOUS
<1>1. CASE UNCHANGED vars
  <2> USE <1>1 DEF vars
  <2>1. Types'
    BY DEF IInv, Types
  <2>2. \A record \in results' : RecordInv(record)'
    BY DEF IInv, RecordInv
  <2>3. \A statement \in proofs' : ProofInv(statement)'
    BY DEF IInv, ProofInv, Served, EagerStatement, DeferredStatement, Outputs
  <2>4. \A result \in sent' : SentInv(result)'
    BY DEF IInv, SentInv, Served, BareInv, EagerInv, DeferredInv, EagerStatement, DeferredStatement,
           EffectiveProofRequirement, Outputs
  <2>5. \A c \in Calls : CallInv(c)'
    BY DEF IInv, CallInv, Served, Outputs, Genuine, AtLiberty, Honest, EffectiveProofRequirement,
           ProvenanceRequired
  <2>6. QED
    BY <2>1, <2>2, <2>3, <2>4, <2>5 DEF IInv
<1>2. CASE Next
  <2>1. PICK c \in Calls : CallStep(c)
    BY <1>2 DEF Next
  <2>2. CASE \E r \in Requests : CallTool(c, r)
    BY <2>2, CallToolCorrect
  <2>3. CASE Refuse(c)
    BY <2>3, FailCorrect DEF Refuse
  <2>4. CASE FeedFails(c)
    BY <2>4, FailCorrect DEF FeedFails
  <2>5. CASE \E content \in Outputs(request[c]) : AnswerDeferred(c, content)
    BY <2>5, AnswerDeferredCorrect
  <2>6. CASE \E content \in Outputs(request[c]) : AnswerPlain(c, content)
    BY <2>6, AnswerPlainCorrect
  <2>7. CASE \E content \in Outputs(request[c]) : AnswerProven(c, content)
    BY <2>7, AnswerProvenCorrect
  <2>8. CASE \E content \in Outputs(request[c]) : ProverFails(c, content)
    BY <2>8, ProverFailsCorrect
  <2>9. CASE Deliver(c)
    BY <2>9, DeliverCorrect
  <2>10. CASE Verify(c)
    BY <2>10, VerifyCorrect
  <2>11. CASE Prove(c)
    BY <2>11, ProveCorrect
  <2>12. CASE AnswerProve(c)
    BY <2>12, AnswerProveCorrect
  <2>13. CASE ProveFails(c)
    BY <2>13, FailCorrect DEF ProveFails
  <2>14. QED
    BY <2>1, <2>2, <2>3, <2>4, <2>5, <2>6, <2>7, <2>8, <2>9, <2>10, <2>11, <2>12, <2>13 DEF CallStep
<1>3. QED
  BY <1>1, <1>2

\* The inductive invariant of a verifiable call end to end: every proof, result
\* and verdict that exists stands for what the server did for its call.
THEOREM CallsInvariant == Spec => []IInv
<1>1. Init => IInv
  BY InitCorrect
<1>2. IInv /\ [Next]_vars => IInv'
  BY NextCorrect
<1>3. QED
  BY <1>1, <1>2, PTL DEF Spec

\* The server never answers a call that requires a proof with a result that
\* lacks one, whatever fails (server index.ts:178, 205-215).
THEOREM RequiredProofsAreSent == Spec => []RequiredIsProven
<1>1. IInv => RequiredIsProven
  <2> SUFFICES ASSUME IInv, NEW result \in sent, result.stage = 1,
                      EffectiveProofRequirement(request[result.call]) = "required"
               PROVE  LET r == request[result.call] IN
                      /\ ProofVerifies(result.meta)
                      /\ result.meta.proof = Statement(r.tool, r.args, output[result.call],
                                                       result.meta.proofFormat, Nonce(result.call, 1),
                                                       Attested(r.tool, r.args, output[result.call]))
    BY DEF RequiredIsProven
  <2> DEFINE c == result.call
             r == request[c]
             attestation == Attested(r.tool, r.args, output[c])
             meta == result.meta
  <2>1. EagerInv(result)
    BY DEF IInv, SentInv, BareInv, DeferredInv
  <2>2. PICK format \in Formats \cap r.formats :
            EagerStatement(c, format) \in proofs /\ meta = ProvenMeta(EagerStatement(c, format), attestation)
    BY <2>1 DEF EagerInv
  <2>3. PICK statement : statement = EagerStatement(c, format)
    OBVIOUS
  <2>4. statement = Statement(r.tool, r.args, output[c], format, Nonce(c, 1), attestation)
    BY <2>3 DEF EagerStatement
  <2> HIDE DEF attestation, meta, r, c
  <2>5. /\ DOMAIN statement = {"proofFormat", "circuitHash", "inputCommitment", "outputCommitment",
                               "nonce", "publicInputs"}
        /\ statement.proofFormat = format /\ statement.publicInputs = AttestationCommits(attestation)
    BY <2>4, StatementFields
  <2>6. /\ meta.proof = statement /\ meta.proofFormat = statement.proofFormat
        /\ meta.circuitHash = statement.circuitHash
        /\ meta.inputCommitment = statement.inputCommitment
        /\ meta.outputCommitment = statement.outputCommitment
        /\ meta.nonce = statement.nonce /\ meta.publicInputs = statement.publicInputs
        /\ meta.attestation = attestation
    BY <2>2, <2>3 DEF ProvenMeta
  <2>7. ProofVerifies(meta)
    BY <2>2, <2>3, <2>5, <2>6 DEF ProofVerifies
  <2>8. QED
    BY <2>4, <2>5, <2>6, <2>7 DEF meta, attestation, r, c
<1>2. QED
  BY <1>1, CallsInvariant, PTL

\* What the client verifies is the server's output for this very call, from the
\* attested price (verifier.ts:37-66, provenance.ts:40-66).
THEOREM VerifiedResultsAreGenuine == Spec => []VerifiedIsGenuine
<1>1. IInv => VerifiedIsGenuine
  BY DEF IInv, CallInv, Genuine, VerifiedIsGenuine
<1>2. QED
  BY <1>1, CallsInvariant, PTL

\* The client acts on anything else only where it may do without a proof
\* (client.ts:158-177, verifier.ts:25-28).
THEOREM ActedOnResultsAreGenuine == Spec => []ActIsGenuine
<1>1. IInv => ActIsGenuine
  BY DEF IInv, CallInv, Genuine, AtLiberty, ActIsGenuine
<1>2. QED
  BY <1>1, CallsInvariant, PTL

\* The client never refuses the call's own proven result when it arrives as it
\* was sent, but for an attestation that its tool does not have (server
\* index.ts:229-241, 292-313; client.ts:124-157).
THEOREM HonestResultsAreVerified == Spec => []HonestVerifies
<1>1. IInv => HonestVerifies
  BY DEF IInv, CallInv, Honest, HonestVerifies
<1>2. QED
  BY <1>1, CallsInvariant, PTL

=============================================================================
