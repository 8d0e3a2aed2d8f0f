--------------------------- MODULE ClientSession ---------------------------
(***************************************************************************)
(* The state a VerifiableClient (packages/client/src/client.ts) keeps about *)
(* its server, used by overlapping asynchronous operations: discover(),    *)
(* blindCall() and callTool() followed by verifyWithRequirement().  Each   *)
(* operation suspends at its requests; meanwhile others replace what it    *)
(* has read, setCapabilities changes what the client asks for, and the     *)
(* server (packages/server/src/index.ts) restarts: with new keys, and      *)
(* perhaps another configuration.                                          *)
(*                                                                         *)
(* As in VerifiableCall, what arrives for a call may be the answer to      *)
(* another one, and may have lost its proof.  Keys, nonces, salts and      *)
(* reply keys are named by the server process or the operation that made   *)
(* them; commitments are injective; HPKE opens what was sealed to the key  *)
(* with the same associated data, and nothing else.                        *)
(***************************************************************************)
EXTENDS Naturals, Sequences, FiniteSets, FiniteSetsExt, SequencesExt

CONSTANTS
    Ops,           \* the client's operations
    Works,         \* what an operation may be
    FirstConfigs,  \* what the first server process may be started with
    Configs,       \* what a later one may be started with
    Capabilities,  \* what the constructor declares or setCapabilities is given
    MaxServers,    \* bound on server processes
    MaxChanges,    \* bound on calls of setCapabilities
    None           \* undefined

VARIABLES
    servers,       \* the configuration of every server process, the last one running
    capabilities,  \* this.capabilities
    changes,       \* how often setCapabilities was called
    discovered,    \* this.discovered: the process whose answer it is
    descriptors,   \* this.descriptors
    teeVerifier,   \* this.teeVerifier: the process whose key it expects
    signingKey,    \* the registry: tool -> process whose signing key is pinned
    pc, resume,    \* where each operation stands, and goes after discover()
    work,          \* what each operation is
    extension,     \* discover(): the process that answered server/discover
    listing,       \* discover(): the process that answered tools/list
    request,       \* the call as it was sent
    answers,       \* history: what servers answered to calls
    received,      \* what arrived for the call
    policy,        \* what verify() has read for the call
    verdict        \* how the operation ended

client == <<capabilities, changes, discovered, descriptors, teeVerifier, signingKey>>
locals == <<work, extension, listing, request, received, policy, verdict>>
vars == <<servers, client, pc, resume, answers, locals>>

Formats == {"demo-sig-v1", "demo-commit-v1", "tee-nitro-v1"}
Tools == {"privateCreditCheck", "riskScore", "priceQuote"}
Requirements == {"required", "preferred", "none"}

\* ToolDescriptorMeta; `pinned` is whether its hashes are the expected ones.
DescriptorMeta ==
    [proofPolicy : {"always", "onDemand", "sampled", None}, externalInputs : BOOLEAN \cup {None},
     pinned : BOOLEAN]
Config ==
    [formats : Seq(Formats), retains : BOOLEAN, tools : [Tools -> DescriptorMeta \cup {None}]]
Capability ==
    [formats : SUBSET Formats, blindExecution : BOOLEAN, requireProof : BOOLEAN,
     requireInputProvenance : BOOLEAN]
Work ==
    [kind : {"discover"}]
    \cup [kind : {"blind"}, tool : {"privateCreditCheck"}, format : Formats, encryptReply : BOOLEAN]
    \cup [kind : {"call"}, tool : Tools \ {"privateCreditCheck"}, format : Formats \cup {None},
          proofRequirement : Requirements \cup {None}]

ASSUME SessionAssumption ==
    /\ Works \subseteq Work
    /\ Capabilities \subseteq Capability
    /\ \A config \in FirstConfigs \cup Configs : config \in Config
    /\ MaxServers \in Nat /\ MaxChanges \in Nat
    \* undefined is no server process, no verdict and no encrypted reply
    /\ None \notin Nat /\ None # "ok"
    /\ None \notin [key : Ops, aad : (Tools \X (Ops \cup {None})) \X Ops]

Server == Len(servers)
NoPolicy == [requirement |-> None, formats |-> {}, tee |-> None, demand |-> FALSE, required |-> FALSE,
             key |-> None]
NoVerdict == [outcome |-> "none", reason |-> None, act |-> FALSE]

Init ==
    /\ servers \in {<<config>> : config \in FirstConfigs}
    /\ capabilities \in Capabilities
    /\ changes = 0
    /\ discovered = None
    /\ descriptors = <<>>
    /\ teeVerifier = None
    /\ signingKey = [tool \in Tools |-> None]
    /\ pc = [o \in Ops |-> "idle"]
    /\ resume = [o \in Ops |-> None]
    /\ work = [o \in Ops |-> None]
    /\ extension = [o \in Ops |-> None]
    /\ listing = [o \in Ops |-> None]
    /\ request = [o \in Ops |-> None]
    /\ answers = {}
    /\ received = [o \in Ops |-> None]
    /\ policy = [o \in Ops |-> NoPolicy]
    /\ verdict = [o \in Ops |-> NoVerdict]

Goto(o, state) ==
    /\ pc' = [pc EXCEPT ![o] = state]
    /\ UNCHANGED resume

Return(o, state) ==
    /\ pc' = [pc EXCEPT ![o] = state]
    /\ resume' = [resume EXCEPT ![o] = None]

End(o, outcome, reason, act) ==
    verdict' = [verdict EXCEPT ![o] = [outcome |-> outcome, reason |-> reason, act |-> act]]

\* The operation throws.
Throw(o) ==
    /\ Return(o, "failed")
    /\ extension' = [extension EXCEPT ![o] = None]
    /\ listing' = [listing EXCEPT ![o] = None]
    /\ UNCHANGED <<servers, client, answers, work, request, received, policy, verdict>>

-----------------------------------------------------------------------------
(***************************************************************************)
(* discover(), on its own or awaited by another operation.                 *)
(***************************************************************************)
Discover(o, then) ==
    /\ pc' = [pc EXCEPT ![o] = "server/discover"]
    /\ resume' = [resume EXCEPT ![o] = then]

\* server/discover is answered by whatever process is running.
AnswerDiscover(o) ==
    /\ pc[o] = "server/discover"
    /\ extension' = [extension EXCEPT ![o] = Server]
    /\ Goto(o, "extension")
    /\ UNCHANGED <<servers, client, answers, work, listing, request, received, policy, verdict>>

Mutual(o) == ToSet(servers[extension[o]].formats) \cap capabilities.formats

DiscoverReceivesMutant(o) ==
    /\ pc[o] = "extension"
    /\ Mutual(o) # {}
    /\ discovered' = extension[o]
    /\ Goto(o, "tools/list")
    /\ UNCHANGED <<servers, capabilities, changes, descriptors, teeVerifier, signingKey, answers, locals>>

\* A common format is needed; the first answer with tee-nitro-v1 in it fixes the
\* key that attestations are checked for.
DiscoverReceives(o) ==
    /\ pc[o] = "extension"
    /\ Mutual(o) # {}
    /\ teeVerifier' = IF teeVerifier = None /\ "tee-nitro-v1" \in Mutual(o) THEN extension[o] ELSE teeVerifier
    /\ Goto(o, "tools/list")
    /\ UNCHANGED <<servers, capabilities, changes, discovered, descriptors, signingKey, answers, locals>>

NoMutualFormat(o) ==
    /\ pc[o] = "extension"
    /\ Mutual(o) = {}
    /\ Throw(o)

AnswerToolsList(o) ==
    /\ pc[o] = "tools/list"
    /\ listing' = [listing EXCEPT ![o] = Server]
    /\ Goto(o, "tools")
    /\ UNCHANGED <<servers, client, answers, work, extension, request, received, policy, verdict>>

Listed(o) == servers[listing[o]].tools
Described(o) == {tool \in Tools : Listed(o)[tool] # None}
Pinned(o) == \A tool \in Described(o) : Listed(o)[tool].pinned

\* Both parts of the session are replaced, by the answers this discover() got.
DiscoverReturns(o) ==
    /\ pc[o] = "tools"
    /\ Pinned(o)
    /\ descriptors' = [tool \in Described(o) |-> Listed(o)[tool]]
    /\ discovered' = extension[o]
    /\ Return(o, resume[o])
    /\ extension' = [extension EXCEPT ![o] = IF resume[o] = "seal" THEN @ ELSE None]
    /\ listing' = [listing EXCEPT ![o] = None]
    /\ UNCHANGED <<servers, capabilities, changes, teeVerifier, signingKey, answers,
                   work, request, received, policy, verdict>>

CircuitHashMismatch(o) ==
    /\ pc[o] = "tools"
    /\ ~Pinned(o)
    /\ Throw(o)

\* A request fails, times out or is aborted.
Awaiting == {"server/discover", "extension", "tools/list", "tools", "call", "answer"}

RequestFails(o) ==
    /\ pc[o] \in Awaiting
    /\ Throw(o)

-----------------------------------------------------------------------------
(***************************************************************************)
(* Calls.  They declare the capabilities of the moment they are sent; the  *)
(* arguments of a blind call are sealed to the key of the session.         *)
(***************************************************************************)
Send(o, sealedTo) ==
    /\ request' = [request EXCEPT ![o] = [declared |-> capabilities, sealedTo |-> sealedTo]]
    /\ Goto(o, "call")

Start(o, w) ==
    /\ pc[o] = "idle"
    /\ work' = [work EXCEPT ![o] = w]
    /\ \/ w.kind = "discover" /\ Discover(o, "done") /\ UNCHANGED request
       \/ w.kind = "blind" /\ discovered = None /\ Discover(o, "seal") /\ UNCHANGED request
       \/ w.kind = "blind" /\ discovered # None /\ Send(o, discovered)
       \/ w.kind = "call" /\ Send(o, None)
    /\ UNCHANGED <<servers, client, answers, extension, listing, received, policy, verdict>>

\* blindCall goes on with the session its own discover() returned.
SealAfterDiscover(o) ==
    /\ pc[o] = "seal"
    /\ Send(o, extension[o])
    /\ extension' = [extension EXCEPT ![o] = None]
    /\ UNCHANGED <<servers, client, answers, work, listing, received, policy, verdict>>

\* Salted in a blind call, so no two of them have the same.
InputCommitment(o) == <<work[o].tool, IF work[o].kind = "blind" THEN o ELSE None>>

Content(o) == [output |-> o, sealed |-> None]

\* hpkeSeal for the reply key of the request, and hpkeOpen with that of o.
SealedReply(o) == [output |-> o, sealed |-> [key |-> o, aad |-> <<InputCommitment(o), o>>]]
Opens(o, content) == content.sealed # None /\ content.sealed = SealedReply(o).sealed

\* negotiateProofFormat.
Negotiate(o) ==
    LET offered == servers[Server].formats
        common == {i \in DOMAIN offered : offered[i] \in request[o].declared.formats
                                          /\ work[o].format \in {None, offered[i]}}
    IN  IF common = {} THEN None ELSE offered[Min(common)]

BareMeta == [proofFormat |-> None, tool |-> None, inputCommitment |-> None, output |-> None, nonce |-> None,
             signer |-> None, attested |-> FALSE, resultId |-> FALSE]

ProvenMetaMutant(o, format) ==
    [proofFormat |-> format, tool |-> work[o].tool, inputCommitment |-> <<work[o].tool, None>>,
     output |-> Content(o), nonce |-> o, signer |-> Server,
     attested |-> work[o].tool = "riskScore", resultId |-> FALSE]

\* provenResult: the plain content is committed to; the signature, or the
\* attestation's user data, are of the process.
ProvenMeta(o, format) ==
    [proofFormat |-> format, tool |-> work[o].tool, inputCommitment |-> InputCommitment(o),
     output |-> Content(o), nonce |-> o, signer |-> Server,
     attested |-> work[o].tool = "riskScore", resultId |-> FALSE]

Answer(o, content, meta) ==
    /\ answers' = answers \cup {[op |-> o, content |-> content, meta |-> meta]}
    /\ Goto(o, "answer")
    /\ UNCHANGED <<servers, client, locals>>

\* The server's blindCall, if the arguments were sealed to this process.
Openable(o) ==
    /\ request[o].declared.blindExecution
    /\ Negotiate(o) # None
    /\ request[o].sealedTo = Server

AnswerBlind(o) ==
    /\ pc[o] = "call" /\ work[o].kind = "blind"
    /\ Openable(o)
    /\ Answer(o, IF work[o].encryptReply THEN SealedReply(o) ELSE Content(o), ProvenMeta(o, Negotiate(o)))

\* The server's tools/call; a failing prover, too, leaves a result bare.
EffectiveRequirement(requirement, capability) ==
    IF requirement # None THEN requirement
    ELSE IF capability.requireProof THEN "required" ELSE "preferred"

RequirementSent(o) == EffectiveRequirement(work[o].proofRequirement, request[o].declared)
Deferred(o) == work[o].tool = "priceQuote" /\ RequirementSent(o) = "preferred"

AnswerBare(o) ==
    /\ pc[o] = "call" /\ work[o].kind = "call"
    /\ RequirementSent(o) # "required"
    /\ Answer(o, Content(o), [BareMeta EXCEPT !.resultId = Deferred(o)])

AnswerProven(o) ==
    /\ pc[o] = "call" /\ work[o].kind = "call"
    /\ RequirementSent(o) # "none" /\ ~Deferred(o)
    /\ Negotiate(o) # None
    /\ Answer(o, Content(o), ProvenMeta(o, Negotiate(o)))

\* What the server refuses, and any failure there, is an error response.
AnswerError(o) ==
    /\ pc[o] = "call"
    /\ Throw(o)

\* The answer arrives, or another one, or one without its proof.  A blind call
\* that asked for an encrypted reply opens it first.
Deliver(o) ==
    /\ pc[o] = "answer"
    /\ \E answer \in answers : \E meta \in {answer.meta, BareMeta} :
           LET wantsReply == work[o].kind = "blind" /\ work[o].encryptReply
               content == IF wantsReply THEN Content(answer.op) ELSE answer.content
           IN  /\ received' = [received EXCEPT ![o] = [op |-> answer.op, content |-> content, meta |-> meta]]
               /\ Goto(o, IF wantsReply /\ ~Opens(o, answer.content) THEN "failed" ELSE "verify")
    /\ UNCHANGED <<servers, client, answers, work, extension, listing, request, policy, verdict>>

-----------------------------------------------------------------------------
(***************************************************************************)
(* verify().  It reads the session in up to three turns of the event loop: *)
(* an unknown session is discovered first, where it is needed.             *)
(***************************************************************************)
UnknownTee(o) ==
    /\ received[o].meta.proofFormat = "tee-nitro-v1"
    /\ teeVerifier = None /\ discovered = None

\* Only an explicit externalInputs: false waives the attestation.
RequiredMutant(tool, demand) ==
    demand /\ tool \in DOMAIN descriptors /\ descriptors[tool].externalInputs = TRUE

Required(tool, demand) ==
    demand /\ ~(tool \in DOMAIN descriptors /\ descriptors[tool].externalInputs = FALSE)

\* The formats and the provenance policy are those of this moment.
ReadPolicy(o, requirement) ==
    LET demand == capabilities.requireInputProvenance
        unknown == demand /\ DOMAIN descriptors = {} /\ discovered = None
    IN  /\ policy' = [policy EXCEPT ![o] =
               [requirement |-> requirement, formats |-> capabilities.formats, tee |-> teeVerifier,
                demand |-> demand, required |-> Required(work[o].tool, demand), key |-> None]]
        /\ IF unknown THEN Discover(o, "described") ELSE Goto(o, "check")
        /\ UNCHANGED verdict

\* A blind call is verified at once; another one by verifyWithRequirement, which
\* evaluates nothing under "none".
Verify(o) ==
    LET requirement == IF work[o].kind = "blind" THEN "required"
                       ELSE EffectiveRequirement(work[o].proofRequirement, capabilities)
    IN  /\ pc[o] = "verify"
        /\ \/ /\ requirement = "none"
              /\ End(o, "absent", "notEvaluated", TRUE)
              /\ Goto(o, "done")
              /\ UNCHANGED policy
           \/ /\ requirement # "none" /\ UnknownTee(o)
              /\ policy' = [policy EXCEPT ![o].requirement = requirement]
              /\ Discover(o, "policy")
              /\ UNCHANGED verdict
           \/ /\ requirement # "none" /\ ~UnknownTee(o)
              /\ ReadPolicy(o, requirement)
        /\ UNCHANGED <<servers, client, answers, work, extension, listing, request, received>>

VerifyAfterDiscover(o) ==
    /\ \/ /\ pc[o] = "policy"
          /\ ReadPolicy(o, policy[o].requirement)
       \/ /\ pc[o] = "described"
          /\ policy' = [policy EXCEPT ![o].required = Required(work[o].tool, policy[o].demand)]
          /\ Goto(o, "check")
          /\ UNCHANGED verdict
    /\ UNCHANGED <<servers, client, answers, work, extension, listing, request, received>>

\* The verifier's own check, on the key it has: demo-sig-v1 asks the registry,
\* which pins the first key it fetches, tee-nitro-v1 expects one process's key.
KeyFits(format, signer, key) == format = "demo-commit-v1" \/ signer = key

ProofChecksMutant(o) ==
    LET meta == received[o].meta
    IN  <<<<"noProof", meta.proofFormat # None>>,
          <<"formatNotNegotiated", /\ meta.proofFormat \in policy[o].formats
                                   /\ meta.proofFormat = "tee-nitro-v1" => policy[o].tee # None>>,
          <<"circuitHashMismatch", meta.tool = work[o].tool>>,
          <<"outputCommitmentMismatch", meta.output = received[o].content>>>>

\* verifyResult up to the proof itself.
ProofChecks(o) ==
    LET meta == received[o].meta
    IN  <<<<"noProof", meta.proofFormat # None>>,
          <<"formatNotNegotiated", /\ meta.proofFormat \in policy[o].formats
                                   /\ meta.proofFormat = "tee-nitro-v1" => policy[o].tee # None>>,
          <<"circuitHashMismatch", meta.tool = work[o].tool>>,
          <<"inputCommitmentMismatch", meta.inputCommitment = InputCommitment(o)>>,
          <<"outputCommitmentMismatch", meta.output = received[o].content>>,
          <<"nonceMismatch", meta.nonce = o>>>>

Reason(o, key) ==
    LET meta == received[o].meta
        checks == ProofChecks(o)
            \o <<<<"proofInvalid", KeyFits(meta.proofFormat, meta.signer, key)>>,
                 <<"provenanceMissing", meta.attested \/ ~policy[o].required>>>>
        failed == {i \in DOMAIN checks : ~checks[i][2]}
    IN  IF failed = {} THEN "ok" ELSE checks[Min(failed)][1]

\* The registry is asked if the proof gets that far; the fetch may fail.
AsksRegistry(o) ==
    /\ received[o].meta.proofFormat = "demo-sig-v1"
    /\ \A i \in DOMAIN ProofChecks(o) : ProofChecks(o)[i][2]

Check(o) ==
    LET tool == work[o].tool
        keys == CASE ~AsksRegistry(o) -> {policy[o].tee}
                  [] AsksRegistry(o) /\ signingKey[tool] # None -> {signingKey[tool]}
                  [] OTHER -> {Server, None}
    IN  /\ pc[o] = "check"
        /\ \E key \in keys :
               /\ End(o, "none", Reason(o, key), FALSE)
               /\ policy' = [policy EXCEPT ![o].key = key]
               /\ signingKey' = IF AsksRegistry(o) THEN [signingKey EXCEPT ![tool] = key] ELSE signingKey
               /\ Goto(o, IF work[o].kind = "call" THEN "decide"
                          ELSE IF Reason(o, key) = "ok" THEN "accepted" ELSE "failed")
        /\ UNCHANGED <<servers, capabilities, changes, discovered, descriptors, teeVerifier, answers,
                       work, extension, listing, request, received>>

-----------------------------------------------------------------------------
\* The rest of verifyWithRequirement: an absent proof is held against what the
\* session promises.
Outcome(reason) ==
    CASE reason = "ok" -> "verified" [] reason = "noProof" -> "absent" [] OTHER -> "invalid"

DescriptorViolation(o) ==
    /\ work[o].tool \in DOMAIN descriptors
    /\ LET proofPolicy == descriptors[work[o].tool].proofPolicy
           provable == received[o].meta.resultId /\ discovered # None /\ servers[discovered].retains
       IN  \/ proofPolicy = "always"
           \/ proofPolicy \in {"onDemand", "sampled"} /\ ~provable

Conclude(o) ==
    LET outcome == Outcome(verdict[o].reason)
    IN  /\ End(o, outcome, verdict[o].reason,
               \/ outcome = "verified"
               \/ outcome = "absent" /\ policy[o].requirement = "preferred" /\ ~DescriptorViolation(o))
        /\ Goto(o, "done")

DecideMutant(o) ==
    /\ pc[o] = "decide"
    /\ Conclude(o)
    /\ UNCHANGED <<servers, client, answers, work, extension, listing, request, received, policy>>

Decide(o) ==
    /\ pc[o] = "decide"
    /\ IF work[o].tool \notin DOMAIN descriptors /\ discovered = None
       THEN Discover(o, "conclude") /\ UNCHANGED verdict
       ELSE Conclude(o)
    /\ UNCHANGED <<servers, client, answers, work, extension, listing, request, received, policy>>

ConcludeAfterDiscover(o) ==
    /\ pc[o] = "conclude"
    /\ Conclude(o)
    /\ UNCHANGED <<servers, client, answers, work, extension, listing, request, received, policy>>

-----------------------------------------------------------------------------
SetCapabilities(capability) ==
    /\ changes < MaxChanges
    /\ capability # capabilities
    /\ capabilities' = capability
    /\ changes' = changes + 1
    /\ UNCHANGED <<servers, discovered, descriptors, teeVerifier, signingKey, pc, resume, answers, locals>>

\* The server process ends and another one, with keys of its own, takes its place.
Restart(config) ==
    /\ Server < MaxServers
    /\ servers' = Append(servers, config)
    /\ UNCHANGED <<client, pc, resume, answers, locals>>

OpStep(o) ==
    \/ \E w \in Works : Start(o, w)
    \/ AnswerDiscover(o) \/ DiscoverReceives(o) \/ NoMutualFormat(o)
    \/ AnswerToolsList(o) \/ DiscoverReturns(o) \/ CircuitHashMismatch(o) \/ RequestFails(o)
    \/ SealAfterDiscover(o) \/ AnswerBlind(o) \/ AnswerBare(o) \/ AnswerProven(o) \/ AnswerError(o)
    \/ Deliver(o) \/ Verify(o) \/ VerifyAfterDiscover(o) \/ Check(o)
    \/ Decide(o) \/ ConcludeAfterDiscover(o)

Next ==
    \/ \E o \in Ops : OpStep(o)
    \/ \E capability \in Capabilities : SetCapabilities(capability)
    \/ \E config \in Configs : Restart(config)

Spec == Init /\ [][Next]_vars

-----------------------------------------------------------------------------
\* The session changes only as a whole: descriptors and keys are replaced in one
\* step by answers that one discover() got, the tools/list answer from the same
\* or a later server process; a discover() that fails half-way leaves both, and
\* no session is ever lost (client.ts:71-112).
SessionIsWhole ==
    [][<<discovered, descriptors>>' # <<discovered, descriptors>> =>
        \E o \in Ops :
            /\ pc[o] = "tools" /\ pc'[o] = resume[o]
            /\ discovered' = extension[o]
            /\ \E s \in extension[o]..Server :
                   \A tool \in Tools : tool \in DOMAIN descriptors' => descriptors'[tool] = servers[s].tools[tool]]_vars

\* Where verify() found requireInputProvenance, a result without an attestation
\* is accepted only if some server process has said of the tool that it has no
\* external inputs: not on a failed or missing discovery, and not on a listing
\* that leaves the tool or the flag out (client.ts:140-156).
ProvenanceFailsClosed ==
    \A o \in Ops :
        verdict[o].reason = "ok" /\ policy[o].demand /\ ~received[o].meta.attested =>
            \E s \in DOMAIN servers :
                /\ servers[s].tools[work[o].tool] # None
                /\ servers[s].tools[work[o].tool].externalInputs = FALSE

\* The client acts on an unproven result only if it prefers a proof and some
\* server process left itself the freedom to send none, by not listing the tool
\* or by a policy under which this result can still be proven: a client that
\* never asked what the server promises does not act (client.ts:158-177).
ActNeedsFreedom ==
    \A o \in Ops : verdict[o].act /\ verdict[o].reason = "noProof" =>
        /\ policy[o].requirement = "preferred"
        /\ \E s \in DOMAIN servers :
               LET descriptor == servers[s].tools[work[o].tool] IN
               \/ descriptor = None
               \/ descriptor.proofPolicy = None
               \/ /\ descriptor.proofPolicy # "always"
                  /\ received[o].meta.resultId
                  /\ \E t \in DOMAIN servers : servers[t].retains

\* A blind call that returns has the result of its own arguments, proven for its
\* nonce by the process its arguments were sealed to, although other answers
\* arrive and the server restarts; of an attested one, that is the process whose
\* key the client checks attestations for (client.ts:186-205, index.ts:256-291).
BlindResultIsOwn ==
    \A o \in Ops : pc[o] = "accepted" =>
        /\ received[o].op = o /\ received[o].content = Content(o)
        /\ received[o].meta.signer = request[o].sealedTo
        /\ received[o].meta.proofFormat = "tee-nitro-v1" => teeVerifier = request[o].sealedTo

\* A blind call whose own answer arrives fails its checks only for something that
\* changed: the formats were narrowed, the key pinned for demo-sig-v1 (or not
\* fetched) or expected for tee-nitro-v1 is that of another process, or provenance
\* is demanded and not waived.  With one process and no change of capabilities it
\* is accepted (client.ts:124-157, 186-205; blind.ts:5-11; index.ts:273-289).
OwnBlindResultIsAccepted ==
    \A o \in Ops :
        /\ pc[o] = "failed" /\ received[o] # None
        /\ work[o].kind = "blind"
        /\ received[o].op = o /\ received[o].meta.proofFormat # None
        =>  LET meta == received[o].meta IN
            \/ meta.proofFormat \notin policy[o].formats
            \/ meta.proofFormat # "demo-commit-v1" /\ policy[o].key # meta.signer
            \/ policy[o].required

=============================================================================
