------------------------ MODULE ClientSessionProofs ------------------------
(***************************************************************************)
(* The session of a VerifiableClient changes as a whole, and what its      *)
(* overlapping operations accept or act on is what their own call and the  *)
(* server's own declarations allow, for any number of operations, server   *)
(* processes, configurations and changes of capabilities.                  *)
(***************************************************************************)
EXTENDS ClientSession, SequenceTheorems, WellFoundedInduction, TLAPS

Discovering == {"server/discover", "extension", "tools/list", "tools"}
Resumes == {"done", "seal", "policy", "described", "conclude"}
Places == {"idle", "seal", "call", "answer", "verify", "policy", "described", "check", "decide",
           "conclude", "accepted", "failed", "done"}

\* The place of an operation in its own code, which awaiting discover() does
\* not change.
At(o) == IF pc[o] \in Discovering THEN resume[o] ELSE pc[o]

Process == 1..Len(servers)

Policy ==
    [requirement : Requirements \cup {None}, formats : SUBSET Formats, tee : Nat \cup {None},
     demand : BOOLEAN, required : BOOLEAN, key : Nat \cup {None}]
Reasons ==
    {"ok", "noProof", "formatNotNegotiated", "circuitHashMismatch", "inputCommitmentMismatch",
     "outputCommitmentMismatch", "nonceMismatch", "proofInvalid", "provenanceMissing", "notEvaluated"}
Verdict ==
    [outcome : {"none", "absent", "verified", "invalid"}, reason : Reasons \cup {None}, act : BOOLEAN]

Types ==
    /\ servers \in Seq(Config) /\ Len(servers) > 0
    /\ capabilities \in Capability
    /\ discovered \in Process \cup {None}
    /\ teeVerifier \in Process \cup {None}
    /\ signingKey \in [Tools -> Nat \cup {None}]
    /\ pc \in [Ops -> Places \cup Discovering]
    /\ resume \in [Ops -> Resumes \cup {None}]
    /\ work \in [Ops -> Work \cup {None}]
    /\ extension \in [Ops -> Process \cup {None}]
    /\ listing \in [Ops -> Process \cup {None}]
    /\ request \in [Ops -> [declared : Capability, sealedTo : Process \cup {None}] \cup {None}]
    /\ received = [o \in Ops |-> received[o]]
    /\ policy \in [Ops -> Policy]
    /\ verdict \in [Ops -> Verdict]

(***************************************************************************)
(* The session.                                                            *)
(***************************************************************************)
\* What a process listed.
ListedBy(s) == [tool \in {t \in Tools : servers[s].tools[t] # None} |-> servers[s].tools[tool]]

\* There is a session, of a process that answered and of a listing, or none.
SessionInv ==
    \/ discovered = None /\ descriptors = <<>>
    \/ discovered # None /\ \E s \in Process : descriptors = ListedBy(s)

\* What a discover() under way has been answered.
DiscoverInv(o) ==
    /\ pc[o] \in Discovering => resume[o] \in Resumes
    /\ pc[o] \in {"extension", "tools/list", "tools", "seal"} => extension[o] # None
    /\ pc[o] = "tools" => listing[o] # None /\ extension[o] <= listing[o]
    /\ pc[o] = "conclude" => discovered # None

(***************************************************************************)
(* The operations.                                                         *)
(***************************************************************************)
WantsReply(o) == work[o].kind = "blind" /\ work[o].encryptReply

\* Which operations get where.
PlaceInv(o) ==
    /\ At(o) # "idle" => work[o] \in Work
    /\ At(o) \in {"seal", "accepted"} => work[o].kind = "blind"
    /\ At(o) \in {"call", "answer", "verify", "policy", "described", "check"} =>
           work[o].kind \in {"blind", "call"}
    /\ At(o) \in {"decide", "conclude"} => work[o].kind = "call"
    /\ pc[o] \in Discovering /\ resume[o] = "done" => work[o].kind = "discover"

\* What an operation has not reached yet is untouched.
UntouchedInv(o) ==
    /\ At(o) \in {"idle", "seal", "call"} => \A answer \in answers : answer.op # o
    /\ At(o) \in {"idle", "seal", "call", "answer"} => received[o] = None
    /\ At(o) \in {"idle", "seal", "call", "answer", "verify"} => policy[o] = NoPolicy
    /\ At(o) \in {"idle", "seal", "call", "answer", "verify", "policy", "described", "check"} =>
           verdict[o] = NoVerdict

\* What the metadata of a proven result says.
ProvenFor(o, meta) ==
    /\ meta.tool = work[o].tool /\ meta.inputCommitment = InputCommitment(o)
    /\ meta.output = Content(o) /\ meta.nonce = o
    /\ work[o].kind = "blind" => meta.signer = request[o].sealedTo /\ meta.signer \in Process

AnswerInv(answer) ==
    /\ answer.op \in Ops
    /\ work[answer.op] \in Work /\ work[answer.op].kind \in {"blind", "call"}
    /\ answer.content = IF WantsReply(answer.op) THEN SealedReply(answer.op) ELSE Content(answer.op)
    /\ answer.meta.proofFormat = None \/ ProvenFor(answer.op, answer.meta)

\* What arrived is an answer, opened if it was to be, perhaps without its proof.
Delivered(o) ==
    \E answer \in answers :
        /\ received[o].op = answer.op
        /\ received[o].content = IF WantsReply(o) THEN Content(answer.op) ELSE answer.content
        /\ received[o].meta \in {answer.meta, BareMeta}

ReceivedInv(o) ==
    /\ received[o] = None \/ Delivered(o)
    /\ At(o) \in {"verify", "policy", "described", "check", "decide", "conclude", "accepted"} => Delivered(o)

\* Some process has said of a tool that it has no external inputs.
Waived(tool) ==
    \E s \in Process : servers[s].tools[tool] # None /\ servers[s].tools[tool].externalInputs = FALSE

\* Some process has left itself the freedom to send no proof of the result.
Free(o) ==
    \E s \in Process :
        LET descriptor == servers[s].tools[work[o].tool] IN
        \/ descriptor = None
        \/ descriptor.proofPolicy = None
        \/ /\ descriptor.proofPolicy # "always"
           /\ received[o].meta.resultId
           /\ \E t \in Process : servers[t].retains

\* What verify() has read: a waiver of the attestation is some process's, the
\* key expected of an enclave is the one fixed for good; before it has read the
\* policy it knows no format, and while it awaits the descriptors it demands the
\* attestation.
PolicyInv(o) ==
    /\ policy[o].demand /\ ~policy[o].required => Waived(work[o].tool)
    /\ policy[o].tee \in {None, teeVerifier}
    /\ At(o) = "policy" => policy[o].formats = {} /\ ~policy[o].demand
    /\ At(o) \in {"described", "check"} => policy[o].key = None
    /\ pc[o] \in Discovering /\ resume[o] = "described" => policy[o].required

VerdictInv(o) ==
    /\ verdict[o].reason = "ok" => received[o].meta.attested \/ ~policy[o].required
    /\ verdict[o].act /\ verdict[o].reason = "noProof" => policy[o].requirement = "preferred" /\ Free(o)

\* BlindResultIsOwn and OwnBlindResultIsAccepted for one operation.
AcceptedInv(o) ==
    At(o) = "accepted" =>
        /\ received[o].op = o /\ received[o].content = Content(o)
        /\ received[o].meta.signer = request[o].sealedTo
        /\ received[o].meta.proofFormat = "tee-nitro-v1" => teeVerifier = request[o].sealedTo
        /\ request[o].sealedTo \in Process

FailedInv(o) ==
    At(o) = "failed" /\ received[o] # None /\ work[o].kind = "blind"
    /\ received[o].op = o /\ received[o].meta.proofFormat # None =>
        \/ received[o].meta.proofFormat \notin policy[o].formats
        \/ received[o].meta.proofFormat # "demo-commit-v1" /\ policy[o].key # received[o].meta.signer
        \/ policy[o].required

OpInv(o) ==
    /\ PlaceInv(o) /\ UntouchedInv(o) /\ ReceivedInv(o)
    /\ PolicyInv(o) /\ VerdictInv(o) /\ AcceptedInv(o) /\ FailedInv(o)

IInv ==
    /\ Types
    /\ SessionInv
    /\ \A o \in Ops : DiscoverInv(o) /\ OpInv(o)
    /\ \A answer \in answers : AnswerInv(answer)

-----------------------------------------------------------------------------
(***************************************************************************)
(* Frames: what a step leaves alone keeps its invariant.                   *)
(***************************************************************************)
\* The server processes of the past stay what they were.
Grown == Process \subseteq Process' /\ \A s \in Process : servers'[s] = servers[s]

\* Nor is a session lost, or the key expected of an enclave replaced.
ClientGrows ==
    /\ Grown
    /\ teeVerifier # None => teeVerifier' = teeVerifier
    /\ discovered # None => discovered' # None

Kept(p) ==
    /\ pc'[p] = pc[p] /\ resume'[p] = resume[p] /\ work'[p] = work[p]
    /\ extension'[p] = extension[p] /\ listing'[p] = listing[p] /\ request'[p] = request[p]
    /\ received'[p] = received[p] /\ policy'[p] = policy[p] /\ verdict'[p] = verdict[p]

\* The operation stays where it is in its own code, with what it has; it may
\* advance in discover().
KeptInPlace(o) ==
    /\ At(o)' = At(o)
    /\ pc'[o] \in Discovering => pc[o] \in Discovering /\ resume'[o] = resume[o]
    /\ work'[o] = work[o] /\ request'[o] = request[o] /\ received'[o] = received[o]
    /\ policy'[o] = policy[o] /\ verdict'[o] = verdict[o]

\* An unchanged list of processes has grown.
LEMMA SameServers == ASSUME UNCHANGED servers PROVE Grown
  BY DEF Grown, Process

\* A waiver once given stays given.
LEMMA WaivedStays == ASSUME Grown, NEW tool, Waived(tool) PROVE Waived(tool)'
  BY DEF Grown, Waived

\* Neither is the freedom to send no proof taken back.
LEMMA FreeStays ==
    ASSUME Grown, NEW o, work'[o] = work[o], received'[o] = received[o], Free(o)
    PROVE  Free(o)'
<1>1. PICK s \in Process :
        LET descriptor == servers[s].tools[work[o].tool] IN
        \/ descriptor = None
        \/ descriptor.proofPolicy = None
        \/ /\ descriptor.proofPolicy # "always"
           /\ received[o].meta.resultId
           /\ \E t \in Process : servers[t].retains
  BY DEF Free
<1>2. s \in Process' /\ servers'[s] = servers[s]
  BY DEF Grown
<1>3. (\E t \in Process : servers[t].retains) => \E t \in Process' : servers'[t].retains
  BY DEF Grown
<1>4. QED
  BY <1>1, <1>2, <1>3 DEF Free

\* The answers that have been given stay true.
LEMMA AnswerStays ==
    ASSUME NEW answer, AnswerInv(answer), Grown,
           work'[answer.op] = work[answer.op], request'[answer.op] = request[answer.op]
    PROVE  AnswerInv(answer)'
  BY DEF AnswerInv, Grown, WantsReply, SealedReply, Content, InputCommitment, ProvenFor

\* What has arrived has arrived.
LEMMA DeliveredStays ==
    ASSUME NEW o, Delivered(o), work'[o] = work[o], received'[o] = received[o],
           answers \subseteq answers'
    PROVE  Delivered(o)'
  BY DEF Delivered, WantsReply, Content

\* An operation that stays in its place keeps its invariant.
LEMMA OpStays ==
    ASSUME NEW o \in Ops, OpInv(o), KeptInPlace(o), ClientGrows,
           answers \subseteq answers', \A answer \in answers' : answer \in answers \/ answer.op # o
    PROVE  OpInv(o)'
<1> DEFINE place == At(o)
<1>1. /\ At(o)' = place
      /\ pc'[o] \in Discovering => pc[o] \in Discovering /\ resume'[o] = resume[o]
      /\ work'[o] = work[o] /\ request'[o] = request[o] /\ received'[o] = received[o]
      /\ policy'[o] = policy[o] /\ verdict'[o] = verdict[o]
  BY DEF KeptInPlace
<1>2. Grown
  BY DEF ClientGrows
<1> HIDE DEF place
<1>3. PlaceInv(o)'
  BY <1>1 DEF OpInv, PlaceInv, place
<1>4. UntouchedInv(o)'
  BY <1>1 DEF OpInv, UntouchedInv, place
<1>5. ReceivedInv(o)'
  BY <1>1, DeliveredStays DEF OpInv, ReceivedInv, place
<1>6. PolicyInv(o)'
  <2>1. policy[o].tee \in {None, teeVerifier} => policy[o].tee \in {None, teeVerifier'}
    BY DEF ClientGrows
  <2>2. QED
    BY <1>1, <1>2, <2>1, WaivedStays DEF OpInv, PolicyInv, place
<1>7. VerdictInv(o)'
  BY <1>1, <1>2, FreeStays DEF OpInv, VerdictInv
<1>8. AcceptedInv(o)'
  <2>1. \A n : n \in Process => n \in Process' /\ n # None
    BY <1>2, SessionAssumption DEF Grown, Process
  <2>2. QED
    BY <1>1, <2>1 DEF OpInv, AcceptedInv, place, ClientGrows, Content
<1>9. FailedInv(o)'
  BY <1>1 DEF OpInv, FailedInv, place
<1>10. QED
  BY <1>3, <1>4, <1>5, <1>6, <1>7, <1>8, <1>9 DEF OpInv

\* So does one that is not concerned at all.
LEMMA OtherStays ==
    ASSUME NEW p \in Ops, DiscoverInv(p), OpInv(p), Kept(p), ClientGrows,
           answers \subseteq answers', \A answer \in answers' : answer \in answers \/ answer.op # p
    PROVE  DiscoverInv(p)' /\ OpInv(p)'
<1>1. KeptInPlace(p)
  BY DEF Kept, KeptInPlace, At
<1>2. OpInv(p)'
  BY <1>1, OpStays
<1>3. DiscoverInv(p)'
  BY DEF DiscoverInv, Kept, ClientGrows
<1>4. QED
  BY <1>2, <1>3

\* A session that is not replaced is still what some process listed.
LEMMA SessionStays ==
    ASSUME SessionInv, Grown, UNCHANGED <<discovered, descriptors>>
    PROVE  SessionInv'
<1>1. ASSUME NEW s \in Process PROVE s \in Process' /\ ListedBy(s)' = ListedBy(s)
  BY DEF Grown, ListedBy
<1>2. QED
  BY <1>1 DEF SessionInv

\* A step of one operation: what remains to be shown of it.
StepOf(o) ==
    /\ Types' /\ SessionInv' /\ ClientGrows
    /\ \A p \in Ops : p # o => Kept(p)
    /\ answers \subseteq answers'
    /\ \A answer \in answers' : answer \in answers \/ (answer.op = o /\ AnswerInv(answer)')
    /\ (\E answer \in answers : answer.op = o) => work'[o] = work[o] /\ request'[o] = request[o]
    /\ DiscoverInv(o)' /\ OpInv(o)'

LEMMA StepOfCorrect == ASSUME IInv, NEW o \in Ops, StepOf(o) PROVE IInv'
<1>1. ASSUME NEW p \in Ops PROVE DiscoverInv(p)' /\ OpInv(p)'
  <2>1. CASE p = o
    BY <2>1 DEF StepOf
  <2>2. CASE p # o
    <3>1. \A answer \in answers' : answer \in answers \/ answer.op # p
      BY <2>2 DEF StepOf
    <3>2. QED
      BY <2>2, <3>1, OtherStays DEF IInv, StepOf
  <2>3. QED
    BY <2>1, <2>2
<1>2. ASSUME NEW answer \in answers' PROVE AnswerInv(answer)'
  <2>1. CASE answer \in answers
    <3>1. AnswerInv(answer)
      BY <2>1 DEF IInv
    <3>2. work'[answer.op] = work[answer.op] /\ request'[answer.op] = request[answer.op]
      <4>1. answer.op \in Ops
        BY <3>1 DEF AnswerInv
      <4>2. QED
        BY <2>1, <4>1 DEF StepOf, Kept
    <3>3. QED
      BY <3>1, <3>2, AnswerStays DEF StepOf, ClientGrows
  <2>2. CASE answer \notin answers
    BY <2>2 DEF StepOf
  <2>3. QED
    BY <2>1, <2>2
<1>3. QED
  BY <1>1, <1>2 DEF IInv, StepOf

\* Most steps leave the server and the client's session alone.
LEMMA SessionKept ==
    ASSUME IInv, UNCHANGED <<servers, client>>
    PROVE  SessionInv' /\ ClientGrows /\ Process' = Process
<1>1. Grown
  BY SameServers
<1>2. QED
  BY <1>1, SessionStays DEF IInv, client, ClientGrows, Process

-----------------------------------------------------------------------------
(***************************************************************************)
(* discover().                                                             *)
(***************************************************************************)
\* A step of discover() that only moves the operation within it.
LEMMA MovesCorrect ==
    ASSUME IInv, NEW o \in Ops, pc[o] \in Discovering,
           KeptInPlace(o), DiscoverInv(o)', UNCHANGED answers,
           Types', SessionInv', ClientGrows, \A p \in Ops : p # o => Kept(p)
    PROVE  IInv'
<1>1. OpInv(o)'
  BY OpStays DEF IInv
<1>2. StepOf(o)
  BY <1>1 DEF StepOf, KeptInPlace
<1>3. QED
  BY <1>2, StepOfCorrect

LEMMA AnswerDiscoverCorrect == ASSUME IInv, NEW o \in Ops, AnswerDiscover(o) PROVE IInv'
<1>1. /\ pc[o] = "server/discover"
      /\ pc' = [pc EXCEPT ![o] = "extension"] /\ extension' = [extension EXCEPT ![o] = Len(servers)]
      /\ UNCHANGED <<servers, client, answers, resume, work, listing, request, received, policy, verdict>>
  BY DEF AnswerDiscover, Goto, Server
<1>2. Types /\ DiscoverInv(o)
  BY DEF IInv
<1>3. SessionInv' /\ ClientGrows /\ Process' = Process
  BY <1>1, SessionKept
<1>4. Len(servers) \in Process /\ Len(servers) # None
  <2>1. Len(servers) \in Nat /\ Len(servers) > 0
    BY <1>2, LenProperties DEF Types
  <2>2. QED
    BY <2>1, SessionAssumption DEF Process
<1>5. Types'
  BY <1>1, <1>2, <1>3, <1>4 DEF Types, Discovering, client
<1>6. pc'[o] = "extension" /\ extension'[o] = Len(servers) /\ \A p \in Ops : p # o => Kept(p)
  BY <1>1, <1>2 DEF Types, Kept
<1>7. KeptInPlace(o)
  BY <1>1, <1>6 DEF KeptInPlace, At, Discovering
<1>8. DiscoverInv(o)'
  BY <1>1, <1>2, <1>4, <1>6 DEF DiscoverInv, Discovering
<1>9. QED
  BY <1>1, <1>3, <1>5, <1>6, <1>7, <1>8, MovesCorrect DEF Discovering

LEMMA DiscoverReceivesCorrect == ASSUME IInv, NEW o \in Ops, DiscoverReceives(o) PROVE IInv'
<1>1. /\ pc[o] = "extension"
      /\ teeVerifier' = IF teeVerifier = None /\ "tee-nitro-v1" \in Mutual(o)
                        THEN extension[o] ELSE teeVerifier
      /\ pc' = [pc EXCEPT ![o] = "tools/list"]
      /\ UNCHANGED <<servers, capabilities, changes, discovered, descriptors, signingKey, answers,
                     resume, work, extension, listing, request, received, policy, verdict>>
  BY DEF DiscoverReceives, Goto, locals
<1>2. Types /\ DiscoverInv(o)
  BY DEF IInv
<1>3. SessionInv' /\ ClientGrows /\ Process' = Process
  <2>1. Grown
    BY <1>1, SameServers
  <2>2. QED
    BY <1>1, <2>1, SessionStays DEF IInv, ClientGrows, Process
<1>4. Types'
  BY <1>1, <1>2, <1>3 DEF Types, Discovering
<1>5. pc'[o] = "tools/list" /\ \A p \in Ops : p # o => Kept(p)
  BY <1>1, <1>2 DEF Types, Kept
<1>6. KeptInPlace(o)
  BY <1>1, <1>5 DEF KeptInPlace, At, Discovering
<1>7. DiscoverInv(o)'
  BY <1>1, <1>2, <1>5 DEF DiscoverInv, Discovering
<1>8. QED
  BY <1>1, <1>3, <1>4, <1>5, <1>6, <1>7, MovesCorrect DEF Discovering

LEMMA AnswerToolsListCorrect == ASSUME IInv, NEW o \in Ops, AnswerToolsList(o) PROVE IInv'
<1>1. /\ pc[o] = "tools/list"
      /\ pc' = [pc EXCEPT ![o] = "tools"] /\ listing' = [listing EXCEPT ![o] = Len(servers)]
      /\ UNCHANGED <<servers, client, answers, resume, work, extension, request, received, policy, verdict>>
  BY DEF AnswerToolsList, Goto, Server
<1>2. Types /\ DiscoverInv(o)
  BY DEF IInv
<1>3. SessionInv' /\ ClientGrows /\ Process' = Process
  BY <1>1, SessionKept
<1>4. Len(servers) \in Process /\ Len(servers) # None /\ extension[o] <= Len(servers)
  <2>1. Len(servers) \in Nat /\ Len(servers) > 0
    BY <1>2, LenProperties DEF Types
  <2>2. extension[o] \in Process
    BY <1>1, <1>2 DEF Types, DiscoverInv
  <2>3. QED
    BY <2>1, <2>2, SessionAssumption DEF Process
<1>5. Types'
  BY <1>1, <1>2, <1>3, <1>4 DEF Types, Discovering, client
<1>6. pc'[o] = "tools" /\ listing'[o] = Len(servers) /\ \A p \in Ops : p # o => Kept(p)
  BY <1>1, <1>2 DEF Types, Kept
<1>7. KeptInPlace(o)
  BY <1>1, <1>6 DEF KeptInPlace, At, Discovering
<1>8. DiscoverInv(o)'
  BY <1>1, <1>2, <1>4, <1>6 DEF DiscoverInv, Discovering
<1>9. QED
  BY <1>1, <1>3, <1>5, <1>6, <1>7, <1>8, MovesCorrect DEF Discovering

\* discover() returns: the session is replaced by what its process listed.
LEMMA DiscoverReturnsCorrect == ASSUME IInv, NEW o \in Ops, DiscoverReturns(o) PROVE IInv'
<1>1. /\ pc[o] = "tools" /\ discovered' = extension[o]
      /\ descriptors' = [tool \in Described(o) |-> Listed(o)[tool]]
      /\ pc' = [pc EXCEPT ![o] = resume[o]] /\ resume' = [resume EXCEPT ![o] = None]
      /\ extension' = [extension EXCEPT ![o] = IF resume[o] = "seal" THEN extension[o] ELSE None]
      /\ listing' = [listing EXCEPT ![o] = None]
      /\ UNCHANGED <<servers, capabilities, changes, teeVerifier, signingKey, answers,
                     work, request, received, policy, verdict>>
  BY DEF DiscoverReturns, Return
<1>2. Types /\ DiscoverInv(o)
  BY DEF IInv
<1>3. extension[o] \in Process /\ listing[o] \in Process /\ extension[o] # None /\ resume[o] \in Resumes
  BY <1>1, <1>2 DEF Types, DiscoverInv, Discovering
<1>4. Grown /\ Process' = Process
  BY <1>1, SameServers DEF Process
<1>5. ClientGrows
  BY <1>1, <1>3, <1>4 DEF ClientGrows
<1>6. SessionInv'
  <2>1. PICK s \in Process : s = listing[o]
    BY <1>3
  <2>2. descriptors' = ListedBy(s)'
    BY <1>1, <2>1 DEF ListedBy, Described, Listed
  <2>3. QED
    BY <1>1, <1>3, <1>4, <2>2 DEF SessionInv
<1>7. Types'
  <2>1. pc' \in [Ops -> Places \cup Discovering] /\ resume' \in [Ops -> Resumes \cup {None}]
    BY <1>1, <1>2, <1>3 DEF Types, Resumes, Places
  <2>2. extension' \in [Ops -> Process' \cup {None}] /\ listing' \in [Ops -> Process' \cup {None}]
    BY <1>1, <1>2, <1>3, <1>4 DEF Types
  <2>3. QED
    BY <1>1, <1>2, <1>3, <1>4, <2>1, <2>2 DEF Types
<1>8. /\ pc'[o] = resume[o] /\ resume'[o] = None
      /\ resume[o] = "seal" => extension'[o] = extension[o]
      /\ \A p \in Ops : p # o => Kept(p)
  BY <1>1, <1>2 DEF Types, Kept
<1>9. KeptInPlace(o)
  BY <1>1, <1>3, <1>8 DEF KeptInPlace, At, Discovering, Resumes
<1>10. DiscoverInv(o)'
  BY <1>1, <1>3, <1>8 DEF DiscoverInv, Discovering, Resumes
<1>11. QED
  BY <1>1, <1>5, <1>6, <1>7, <1>8, <1>9, <1>10, MovesCorrect DEF Discovering

\* An operation that throws while it awaits a request: what a blind call has
\* received by then it has not accepted, and it demands the attestation or does
\* not know a format yet.
LEMMA ThrowCorrect == ASSUME IInv, NEW o \in Ops, pc[o] \in Awaiting, Throw(o) PROVE IInv'
<1>1. /\ pc' = [pc EXCEPT ![o] = "failed"] /\ resume' = [resume EXCEPT ![o] = None]
      /\ extension' = [extension EXCEPT ![o] = None] /\ listing' = [listing EXCEPT ![o] = None]
      /\ UNCHANGED <<servers, client, answers, work, request, received, policy, verdict>>
  BY DEF Throw, Return
<1>2. Types /\ DiscoverInv(o) /\ OpInv(o)
  BY DEF IInv
<1>3. SessionInv' /\ ClientGrows /\ Process' = Process
  BY <1>1, SessionKept
<1>4. Types'
  <2>1. pc' \in [Ops -> Places \cup Discovering] /\ resume' \in [Ops -> Resumes \cup {None}]
    BY <1>1, <1>2 DEF Types, Places
  <2>2. extension' \in [Ops -> Process' \cup {None}] /\ listing' \in [Ops -> Process' \cup {None}]
    BY <1>1, <1>2, <1>3 DEF Types
  <2>3. QED
    BY <1>1, <1>2, <1>3, <2>1, <2>2 DEF Types, client
<1>5. pc'[o] = "failed" /\ At(o)' = "failed" /\ \A p \in Ops : p # o => Kept(p)
  BY <1>1, <1>2 DEF Types, Kept, At, Discovering
<1>6. DiscoverInv(o)'
  BY <1>5 DEF DiscoverInv, Discovering
<1>7. At(o) \in {"call", "answer", "done", "seal", "policy", "described", "conclude"}
  BY <1>2 DEF At, Awaiting, Discovering, DiscoverInv, Resumes
<1>8. OpInv(o)'
  <2>1. PlaceInv(o)'
    BY <1>1, <1>2, <1>5, <1>7 DEF OpInv, PlaceInv, Discovering
  <2>2. UntouchedInv(o)'
    BY <1>5 DEF UntouchedInv
  <2>3. ReceivedInv(o)'
    BY <1>1, <1>2, <1>5, DeliveredStays DEF OpInv, ReceivedInv
  <2>4. Grown
    BY <1>3 DEF ClientGrows
  <2>5. PolicyInv(o)'
    BY <1>1, <1>2, <1>5, <2>4, WaivedStays DEF OpInv, PolicyInv, client, Discovering
  <2>6. VerdictInv(o)'
    BY <1>1, <1>2, <2>4, FreeStays DEF OpInv, VerdictInv
  <2>7. AcceptedInv(o)'
    BY <1>5 DEF AcceptedInv
  <2>8. FailedInv(o)'
    <3>1. CASE At(o) \in {"call", "answer", "seal"}
      BY <1>1, <1>2, <3>1 DEF OpInv, UntouchedInv, FailedInv
    <3>2. CASE At(o) = "done"
      <4>1. pc[o] \in Discovering /\ resume[o] = "done"
        BY <3>2 DEF At, Awaiting, Discovering
      <4>2. QED
        BY <1>1, <1>2, <4>1 DEF OpInv, PlaceInv, FailedInv
    <3>3. CASE At(o) = "conclude"
      BY <1>1, <1>2, <3>3 DEF OpInv, PlaceInv, FailedInv
    <3>4. CASE At(o) = "policy"
      BY <1>1, <1>2, <3>4 DEF OpInv, PolicyInv, FailedInv
    <3>5. CASE At(o) = "described"
      <4>1. pc[o] \in Discovering /\ resume[o] = "described"
        BY <3>5 DEF At, Awaiting, Discovering
      <4>2. QED
        BY <1>1, <1>2, <4>1 DEF OpInv, PolicyInv, FailedInv
    <3>6. QED
      BY <1>7, <3>1, <3>2, <3>3, <3>4, <3>5
  <2>9. QED
    BY <2>1, <2>2, <2>3, <2>5, <2>6, <2>7, <2>8 DEF OpInv
<1>9. StepOf(o)
  BY <1>1, <1>3, <1>4, <1>5, <1>6, <1>8 DEF StepOf
<1>10. QED
  BY <1>9, StepOfCorrect

LEMMA NoMutualFormatCorrect == ASSUME IInv, NEW o \in Ops, NoMutualFormat(o) PROVE IInv'
  BY ThrowCorrect DEF NoMutualFormat, Awaiting

LEMMA CircuitHashMismatchCorrect == ASSUME IInv, NEW o \in Ops, CircuitHashMismatch(o) PROVE IInv'
  BY ThrowCorrect DEF CircuitHashMismatch, Awaiting

LEMMA RequestFailsCorrect == ASSUME IInv, NEW o \in Ops, RequestFails(o) PROVE IInv'
  BY ThrowCorrect DEF RequestFails

LEMMA AnswerErrorCorrect == ASSUME IInv, NEW o \in Ops, AnswerError(o) PROVE IInv'
  BY ThrowCorrect DEF AnswerError, Awaiting

-----------------------------------------------------------------------------
(***************************************************************************)
(* Calls, up to their answer.                                              *)
(***************************************************************************)
\* An operation that has not begun to verify has read nothing and concluded nothing.
LEMMA NothingYet ==
    ASSUME NEW o, policy'[o] = NoPolicy, verdict'[o] = NoVerdict,
           At(o)' \in {"done", "seal", "call", "answer", "verify", "failed"}
    PROVE  PolicyInv(o)' /\ VerdictInv(o)'
<1>1. PolicyInv(o)'
  BY DEF PolicyInv, NoPolicy, At
<1>2. None # "ok"
  BY SessionAssumption
<1>3. verdict'[o].reason = None /\ verdict'[o].act = FALSE
  BY DEF NoVerdict
<1>4. VerdictInv(o)'
  BY <1>2, <1>3 DEF VerdictInv
<1>5. QED
  BY <1>1, <1>4

LEMMA Fresh ==
    ASSUME NEW o, policy'[o] = NoPolicy, verdict'[o] = NoVerdict,
           At(o)' \in {"done", "seal", "call", "answer", "verify"}
    PROVE  PolicyInv(o)' /\ VerdictInv(o)' /\ AcceptedInv(o)' /\ FailedInv(o)'
<1>1. PolicyInv(o)' /\ VerdictInv(o)'
  BY NothingYet
<1>2. AcceptedInv(o)' /\ FailedInv(o)'
  BY DEF AcceptedInv, FailedInv
<1>3. QED
  BY <1>1, <1>2

LEMMA StartCorrect == ASSUME IInv, NEW o \in Ops, NEW w \in Works, Start(o, w) PROVE IInv'
<1>1. /\ pc[o] = "idle" /\ work' = [work EXCEPT ![o] = w]
      /\ UNCHANGED <<servers, client, answers, extension, listing, received, policy, verdict>>
  BY DEF Start
<1>2. PICK state \in {"server/discover", "call"}, then \in {"done", "seal", None} :
        /\ pc' = [pc EXCEPT ![o] = state]
        /\ \/ /\ state = "server/discover" /\ then \in {"done", "seal"}
              /\ resume' = [resume EXCEPT ![o] = then]
              /\ then = "done" => w.kind = "discover"
              /\ then = "seal" => w.kind = "blind"
              /\ UNCHANGED request
           \/ /\ state = "call" /\ w.kind \in {"blind", "call"}
              /\ UNCHANGED resume
              /\ \E s \in {None, discovered} :
                     request' = [request EXCEPT ![o] = [declared |-> capabilities, sealedTo |-> s]]
  BY DEF Start, Discover, Send, Goto
<1>3. Types /\ DiscoverInv(o) /\ OpInv(o) /\ w \in Work
  BY SessionAssumption DEF IInv
<1>4. SessionInv' /\ ClientGrows /\ Process' = Process
  BY <1>1, SessionKept
<1>5. Types'
  <2>1. pc' \in [Ops -> Places \cup Discovering] /\ work' \in [Ops -> Work \cup {None}]
    BY <1>1, <1>2, <1>3 DEF Types, Places, Discovering
  <2>2. resume' \in [Ops -> Resumes \cup {None}]
    BY <1>2, <1>3 DEF Types, Resumes
  <2>3. request' \in [Ops -> [declared : Capability, sealedTo : Process' \cup {None}] \cup {None}]
    BY <1>2, <1>3, <1>4 DEF Types
  <2>4. QED
    BY <1>1, <1>3, <1>4, <2>1, <2>2, <2>3 DEF Types, client
<1>6. pc'[o] = state /\ work'[o] = w /\ \A p \in Ops : p # o => Kept(p)
  BY <1>1, <1>2, <1>3 DEF Types, Kept
<1>7. state = "server/discover" => resume'[o] = then
  BY <1>2, <1>3 DEF Types
<1>8. At(o) = "idle" /\ At(o)' \in {"done", "seal", "call"}
  BY <1>1, <1>2, <1>6, <1>7 DEF At, Discovering
<1>9. DiscoverInv(o)'
  BY <1>2, <1>6, <1>7 DEF DiscoverInv, Discovering, Resumes
<1>10. OpInv(o)'
  <2>1. PlaceInv(o)'
    BY <1>2, <1>3, <1>6, <1>7, <1>8 DEF PlaceInv, At, Discovering
  <2>2. UntouchedInv(o)' /\ ReceivedInv(o)' /\ policy'[o] = NoPolicy /\ verdict'[o] = NoVerdict
    BY <1>1, <1>3, <1>8 DEF OpInv, UntouchedInv, ReceivedInv
  <2>3. QED
    BY <1>8, <2>1, <2>2, Fresh DEF OpInv
<1>11. \A answer \in answers : answer.op # o
  BY <1>3, <1>8 DEF OpInv, UntouchedInv
<1>12. StepOf(o)
  BY <1>1, <1>4, <1>5, <1>6, <1>9, <1>10, <1>11 DEF StepOf
<1>13. QED
  BY <1>12, StepOfCorrect

LEMMA SealAfterDiscoverCorrect == ASSUME IInv, NEW o \in Ops, SealAfterDiscover(o) PROVE IInv'
<1>1. /\ pc[o] = "seal" /\ pc' = [pc EXCEPT ![o] = "call"]
      /\ request' = [request EXCEPT ![o] = [declared |-> capabilities, sealedTo |-> extension[o]]]
      /\ extension' = [extension EXCEPT ![o] = None]
      /\ UNCHANGED <<servers, client, answers, resume, work, listing, received, policy, verdict>>
  BY DEF SealAfterDiscover, Send, Goto
<1>2. Types /\ DiscoverInv(o) /\ OpInv(o)
  BY DEF IInv
<1>3. SessionInv' /\ ClientGrows /\ Process' = Process
  BY <1>1, SessionKept
<1>4. Types'
  <2>1. pc' \in [Ops -> Places \cup Discovering] /\ extension' \in [Ops -> Process' \cup {None}]
    BY <1>1, <1>2, <1>3 DEF Types, Places
  <2>2. request' \in [Ops -> [declared : Capability, sealedTo : Process' \cup {None}] \cup {None}]
    BY <1>1, <1>2, <1>3 DEF Types
  <2>3. QED
    BY <1>1, <1>2, <1>3, <2>1, <2>2 DEF Types, client
<1>5. pc'[o] = "call" /\ At(o) = "seal" /\ At(o)' = "call" /\ \A p \in Ops : p # o => Kept(p)
  BY <1>1, <1>2 DEF Types, Kept, At, Discovering
<1>6. DiscoverInv(o)'
  BY <1>5 DEF DiscoverInv, Discovering
<1>7. OpInv(o)'
  <2>1. PlaceInv(o)'
    BY <1>1, <1>2, <1>5 DEF OpInv, PlaceInv, Discovering
  <2>2. UntouchedInv(o)' /\ ReceivedInv(o)' /\ policy'[o] = NoPolicy /\ verdict'[o] = NoVerdict
    BY <1>1, <1>2, <1>5 DEF OpInv, UntouchedInv, ReceivedInv
  <2>3. QED
    BY <1>5, <2>1, <2>2, Fresh DEF OpInv
<1>8. \A answer \in answers : answer.op # o
  BY <1>2, <1>5 DEF OpInv, UntouchedInv
<1>9. StepOf(o)
  BY <1>1, <1>3, <1>4, <1>5, <1>6, <1>7, <1>8 DEF StepOf
<1>10. QED
  BY <1>9, StepOfCorrect

\* The server answers: what it says of the call is true of it.
LEMMA AnswerCorrect ==
    ASSUME IInv, NEW o \in Ops, pc[o] = "call", NEW content, NEW meta, Answer(o, content, meta),
           AnswerInv([op |-> o, content |-> content, meta |-> meta])
    PROVE  IInv'
<1> DEFINE new == [op |-> o, content |-> content, meta |-> meta]
<1>1. /\ pc' = [pc EXCEPT ![o] = "answer"] /\ answers' = answers \cup {new}
      /\ UNCHANGED <<servers, client, resume, work, extension, listing, request, received, policy, verdict>>
  BY DEF Answer, Goto, locals
<1>2. Types /\ DiscoverInv(o) /\ OpInv(o) /\ AnswerInv(new)
  BY DEF IInv
<1>3. SessionInv' /\ ClientGrows /\ Process' = Process
  BY <1>1, SessionKept
<1>4. Types'
  BY <1>1, <1>2, <1>3 DEF Types, client, Places
<1>5. pc'[o] = "answer" /\ At(o) = "call" /\ At(o)' = "answer" /\ \A p \in Ops : p # o => Kept(p)
  BY <1>1, <1>2 DEF Types, Kept, At, Discovering
<1>6. DiscoverInv(o)'
  BY <1>5 DEF DiscoverInv, Discovering
<1>7. OpInv(o)'
  <2>1. PlaceInv(o)'
    BY <1>1, <1>2, <1>5 DEF OpInv, PlaceInv, Discovering
  <2>2. UntouchedInv(o)' /\ ReceivedInv(o)' /\ policy'[o] = NoPolicy /\ verdict'[o] = NoVerdict
    BY <1>1, <1>2, <1>5 DEF OpInv, UntouchedInv, ReceivedInv
  <2>3. QED
    BY <1>5, <2>1, <2>2, Fresh DEF OpInv
<1>8. new.op = o /\ AnswerInv(new)'
  <2>1. new.op = o
    OBVIOUS
  <2>2. QED
    BY <1>1, <1>2, <1>3, <2>1, AnswerStays DEF ClientGrows
<1> HIDE DEF new
<1>9. StepOf(o)
  BY <1>1, <1>3, <1>4, <1>5, <1>6, <1>7, <1>8 DEF StepOf
<1>10. QED
  BY <1>9, StepOfCorrect

LEMMA AnswerBlindCorrect == ASSUME IInv, NEW o \in Ops, AnswerBlind(o) PROVE IInv'
<1> DEFINE content == IF work[o].encryptReply THEN SealedReply(o) ELSE Content(o)
           meta == ProvenMeta(o, Negotiate(o))
<1>1. pc[o] = "call" /\ work[o].kind = "blind" /\ Openable(o) /\ Answer(o, content, meta)
  BY DEF AnswerBlind
<1>2. Len(servers) \in Process /\ request[o].sealedTo = Len(servers)
  <2>1. Len(servers) \in Nat /\ Len(servers) > 0
    BY LenProperties DEF IInv, Types
  <2>2. QED
    BY <1>1, <2>1 DEF Openable, Server, Process
<1>3. ProvenFor(o, meta)
  BY <1>2 DEF ProvenMeta, ProvenFor, Server, InputCommitment, Content
<1>4. work[o] \in Work
  BY <1>1 DEF IInv, OpInv, PlaceInv, At, Discovering
<1>5. content = IF WantsReply(o) THEN SealedReply(o) ELSE Content(o)
  BY <1>1 DEF WantsReply
<1> HIDE DEF content, meta
<1>6. AnswerInv([op |-> o, content |-> content, meta |-> meta])
  BY <1>1, <1>3, <1>4, <1>5 DEF AnswerInv
<1>7. QED
  BY <1>1, <1>6, AnswerCorrect

LEMMA AnswerBareCorrect == ASSUME IInv, NEW o \in Ops, AnswerBare(o) PROVE IInv'
<1> DEFINE meta == [BareMeta EXCEPT !.resultId = Deferred(o)]
<1>1. pc[o] = "call" /\ work[o].kind = "call" /\ Answer(o, Content(o), meta)
  BY DEF AnswerBare
<1>2. meta.proofFormat = None
  BY DEF BareMeta
<1>3. work[o] \in Work /\ ~WantsReply(o)
  BY <1>1 DEF IInv, OpInv, PlaceInv, At, Discovering, WantsReply
<1> HIDE DEF meta
<1>4. AnswerInv([op |-> o, content |-> Content(o), meta |-> meta])
  BY <1>1, <1>2, <1>3 DEF AnswerInv
<1>5. QED
  BY <1>1, <1>4, AnswerCorrect

LEMMA AnswerProvenCorrect == ASSUME IInv, NEW o \in Ops, AnswerProven(o) PROVE IInv'
<1> DEFINE meta == ProvenMeta(o, Negotiate(o))
<1>1. pc[o] = "call" /\ work[o].kind = "call" /\ Answer(o, Content(o), meta)
  BY DEF AnswerProven
<1>2. ProvenFor(o, meta)
  BY <1>1 DEF ProvenMeta, ProvenFor, InputCommitment, Content
<1>3. work[o] \in Work /\ ~WantsReply(o)
  BY <1>1 DEF IInv, OpInv, PlaceInv, At, Discovering, WantsReply
<1> HIDE DEF meta
<1>4. AnswerInv([op |-> o, content |-> Content(o), meta |-> meta])
  BY <1>1, <1>2, <1>3 DEF AnswerInv
<1>5. QED
  BY <1>1, <1>4, AnswerCorrect

\* A call opens the reply that was sealed for it.
LEMMA OwnReplyOpens ==
    ASSUME NEW o \in Ops, work[o] \in Work, work[o].kind \in {"blind", "call"}
    PROVE  Opens(o, SealedReply(o))
<1>1. work[o].tool \in Tools
  BY DEF Work, Tools
<1>2. InputCommitment(o) \in Tools \X (Ops \cup {None})
  BY <1>1 DEF InputCommitment
<1>3. [key |-> o, aad |-> <<InputCommitment(o), o>>] \in [key : Ops, aad : (Tools \X (Ops \cup {None})) \X Ops]
  BY <1>2
<1>4. [key |-> o, aad |-> <<InputCommitment(o), o>>] # None
  BY <1>3, SessionAssumption
<1>5. SealedReply(o).sealed = [key |-> o, aad |-> <<InputCommitment(o), o>>]
  BY DEF SealedReply
<1>6. QED
  BY <1>4, <1>5 DEF Opens

LEMMA DeliverCorrect == ASSUME IInv, NEW o \in Ops, Deliver(o) PROVE IInv'
<1>1. PICK answer \in answers : \E meta \in {answer.meta, BareMeta} :
        /\ received' = [received EXCEPT ![o] =
               [op |-> answer.op, content |-> IF WantsReply(o) THEN Content(answer.op) ELSE answer.content,
                meta |-> meta]]
        /\ pc' = [pc EXCEPT ![o] = IF WantsReply(o) /\ ~Opens(o, answer.content) THEN "failed" ELSE "verify"]
  BY DEF Deliver, Goto, WantsReply
<1>1a. PICK meta \in {answer.meta, BareMeta} :
        received' = [received EXCEPT ![o] =
            [op |-> answer.op, content |-> IF WantsReply(o) THEN Content(answer.op) ELSE answer.content,
             meta |-> meta]]
  BY <1>1
<1>2. /\ pc[o] = "answer"
      /\ UNCHANGED <<servers, client, answers, resume, work, extension, listing, request, policy, verdict>>
  BY DEF Deliver, Goto
<1>3. Types /\ DiscoverInv(o) /\ OpInv(o) /\ AnswerInv(answer)
  BY DEF IInv
<1>4. SessionInv' /\ ClientGrows /\ Process' = Process
  BY <1>2, SessionKept
<1>5. PICK state \in {"failed", "verify"} :
        /\ pc' = [pc EXCEPT ![o] = state]
        /\ state = "failed" => WantsReply(o) /\ ~Opens(o, answer.content)
  BY <1>1
<1>6. Types'
  <2>1. pc' \in [Ops -> Places \cup Discovering] /\ received' = [p \in Ops |-> received'[p]]
    BY <1>1, <1>3, <1>5 DEF Types, Places
  <2>2. QED
    BY <1>2, <1>3, <1>4, <2>1 DEF Types, client
<1>7. pc'[o] = state /\ At(o) = "answer" /\ At(o)' = state /\ \A p \in Ops : p # o => Kept(p)
  BY <1>1, <1>2, <1>3, <1>5 DEF Types, Kept, At, Discovering
<1>8. received'[o] = [op |-> answer.op, meta |-> meta,
                      content |-> IF WantsReply(o) THEN Content(answer.op) ELSE answer.content]
  BY <1>3, <1>1a DEF Types
<1>9. DiscoverInv(o)'
  BY <1>7 DEF DiscoverInv, Discovering
<1>10. OpInv(o)'
  <2>1. PlaceInv(o)'
    BY <1>2, <1>3, <1>7 DEF OpInv, PlaceInv, Discovering
  <2>2. UntouchedInv(o)' /\ policy'[o] = NoPolicy /\ verdict'[o] = NoVerdict
    BY <1>2, <1>3, <1>7 DEF OpInv, UntouchedInv
  <2>3. Delivered(o)'
    BY <1>2, <1>8 DEF Delivered, WantsReply, Content
  <2>4. ReceivedInv(o)'
    BY <2>3 DEF ReceivedInv
  <2>5. CASE state = "verify"
    BY <1>7, <2>1, <2>2, <2>4, <2>5, Fresh DEF OpInv
  <2>6. CASE state = "failed"
    <3>1. answer.op # o
      <4>1. SUFFICES ASSUME answer.op = o PROVE FALSE
        OBVIOUS
      <4>2. answer.content = SealedReply(o) /\ work[o] \in Work /\ work[o].kind \in {"blind", "call"}
        BY <1>3, <1>5, <2>6, <4>1 DEF AnswerInv
      <4>3. QED
        BY <1>5, <2>6, <4>2, OwnReplyOpens
    <3>2. FailedInv(o)' /\ AcceptedInv(o)'
      BY <1>7, <1>8, <2>6, <3>1 DEF FailedInv, AcceptedInv
    <3>3. PolicyInv(o)' /\ VerdictInv(o)'
      BY <1>7, <2>2, <2>6, NothingYet
    <3>4. QED
      BY <2>1, <2>2, <2>4, <3>2, <3>3 DEF OpInv
  <2>7. QED
    BY <2>5, <2>6
<1>11. StepOf(o)
  BY <1>2, <1>4, <1>6, <1>7, <1>9, <1>10 DEF StepOf
<1>12. QED
  BY <1>11, StepOfCorrect

-----------------------------------------------------------------------------
(***************************************************************************)
(* verify().                                                               *)
(***************************************************************************)
\* The session waives an attestation only where its process did.
LEMMA WaiverIsListed ==
    ASSUME IInv, NEW tool, NEW demand \in BOOLEAN, demand, ~Required(tool, demand)
    PROVE  Waived(tool)
<1>1. tool \in DOMAIN descriptors /\ descriptors[tool].externalInputs = FALSE
  BY DEF Required
<1>2. PICK s \in Process : descriptors = ListedBy(s)
  <2>1. DOMAIN <<>> = {}
    OBVIOUS
  <2>2. QED
    BY <1>1, <2>1 DEF IInv, SessionInv
<1>3. tool \in Tools /\ servers[s].tools[tool] # None /\ descriptors[tool] = servers[s].tools[tool]
  BY <1>1, <1>2 DEF ListedBy
<1>4. QED
  BY <1>1, <1>3 DEF Waived

\* A step of verify() that has not yet come to a verdict on what was received.
LEMMA VerifyStepCorrect ==
    ASSUME IInv, NEW o \in Ops, pc[o] \in {"verify", "policy", "described"},
           NEW state \in {"server/discover", "check", "done"}, pc' = [pc EXCEPT ![o] = state],
           NEW then \in {"policy", "described", None},
           state = "server/discover" =>
               then \in {"policy", "described"} /\ resume' = [resume EXCEPT ![o] = then],
           state # "server/discover" => UNCHANGED resume,
           state = "done" => work[o].kind = "call",
           UNCHANGED <<servers, client, answers, work, extension, listing, request, received>>,
           policy' \in [Ops -> Policy], verdict' \in [Ops -> Verdict],
           \A p \in Ops : p # o => policy'[p] = policy[p] /\ verdict'[p] = verdict[p],
           PolicyInv(o)', VerdictInv(o)',
           state # "done" => verdict'[o] = NoVerdict
    PROVE  IInv'
<1>1. Types /\ DiscoverInv(o) /\ OpInv(o)
  BY DEF IInv
<1>2. SessionInv' /\ ClientGrows /\ Process' = Process
  BY SessionKept
<1>3. Types'
  <2>1. pc' \in [Ops -> Places \cup Discovering]
    BY <1>1 DEF Types, Places, Discovering
  <2>2. resume' \in [Ops -> Resumes \cup {None}]
    BY <1>1 DEF Types, Resumes
  <2>3. QED
    BY <1>1, <1>2, <2>1, <2>2 DEF Types, client
<1>4. /\ pc'[o] = state
      /\ state = "server/discover" => resume'[o] = then
      /\ \A p \in Ops : p # o => Kept(p)
  BY <1>1 DEF Types, Kept
<1>5. /\ At(o) \in {"verify", "policy", "described"}
      /\ At(o)' \in {"policy", "described", "check", "done"}
      /\ At(o)' = "done" <=> state = "done"
      /\ pc'[o] \in Discovering => resume'[o] \in {"policy", "described"}
  BY <1>4 DEF At, Discovering
<1>6. DiscoverInv(o)'
  BY <1>4 DEF DiscoverInv, Discovering, Resumes
<1>7. PlaceInv(o)'
  BY <1>1, <1>5 DEF OpInv, PlaceInv
<1>8. UntouchedInv(o)'
  BY <1>5 DEF UntouchedInv
<1>9. ReceivedInv(o)'
  BY <1>1, <1>5, DeliveredStays DEF OpInv, ReceivedInv
<1>10. AcceptedInv(o)' /\ FailedInv(o)'
  BY <1>5 DEF AcceptedInv, FailedInv
<1>11. OpInv(o)'
  BY <1>7, <1>8, <1>9, <1>10 DEF OpInv
<1>12. StepOf(o)
  BY <1>2, <1>3, <1>4, <1>6, <1>11 DEF StepOf
<1>13. QED
  BY <1>12, StepOfCorrect

\* verify() reads the formats and the provenance policy.
LEMMA ReadPolicyCorrect ==
    ASSUME IInv, NEW o \in Ops, pc[o] \in {"verify", "policy"},
           NEW requirement \in Requirements \cup {None}, ReadPolicy(o, requirement),
           UNCHANGED <<servers, client, answers, work, extension, listing, request, received>>
    PROVE  IInv'
<1> DEFINE demand == capabilities.requireInputProvenance
           required == Required(work[o].tool, demand)
           unknown == demand /\ DOMAIN descriptors = {} /\ discovered = None
           new == [requirement |-> requirement, formats |-> capabilities.formats, tee |-> teeVerifier,
                   demand |-> demand, required |-> required, key |-> None]
<1>1. /\ policy' = [policy EXCEPT ![o] = new] /\ UNCHANGED verdict
      /\ unknown => pc' = [pc EXCEPT ![o] = "server/discover"] /\ resume' = [resume EXCEPT ![o] = "described"]
      /\ ~unknown => pc' = [pc EXCEPT ![o] = "check"] /\ UNCHANGED resume
  BY DEF ReadPolicy, Discover, Goto
<1>2. Types /\ OpInv(o)
  BY DEF IInv
<1>3. capabilities.formats \in SUBSET Formats /\ demand \in BOOLEAN /\ teeVerifier \in Nat \cup {None}
  BY <1>2 DEF Types, Capability, Process
<1>4. required \in BOOLEAN
  BY DEF Required
<1>5. demand /\ ~required => Waived(work[o].tool)
  BY <1>3, WaiverIsListed
<1>6. unknown => required
  BY DEF Required
<1> HIDE DEF demand, required, unknown
<1>7. new \in Policy
  BY <1>3, <1>4 DEF Policy
<1>8. /\ policy' \in [Ops -> Policy] /\ policy'[o] = new
      /\ \A p \in Ops : p # o => policy'[p] = policy[p]
  BY <1>1, <1>2, <1>7 DEF Types
<1>9. verdict'[o] = NoVerdict /\ verdict' \in [Ops -> Verdict]
  BY <1>1, <1>2 DEF OpInv, UntouchedInv, At, Discovering, Types
<1>10. /\ policy'[o].demand = demand /\ policy'[o].required = required
       /\ policy'[o].tee = teeVerifier /\ policy'[o].key = None
  BY <1>8
<1>11. VerdictInv(o)'
  <2>1. None # "ok"
    BY SessionAssumption
  <2>2. QED
    BY <1>9, <2>1 DEF VerdictInv, NoVerdict
<1>12. Grown
  BY SameServers
<1>13. demand /\ ~required => Waived(work[o].tool)'
  BY <1>5, <1>12, WaivedStays
<1>14. CASE unknown
  <2>1. pc'[o] = "server/discover" /\ resume'[o] = "described" /\ At(o)' = "described"
    BY <1>1, <1>2, <1>14 DEF Types, At, Discovering
  <2>2. PolicyInv(o)'
    BY <1>6, <1>10, <1>13, <1>14, <2>1 DEF PolicyInv, client
  <2>3. QED
    BY <1>1, <1>8, <1>9, <1>11, <1>14, <2>2, VerifyStepCorrect
<1>15. CASE ~unknown
  <2>1. pc'[o] = "check" /\ At(o)' = "check"
    BY <1>1, <1>2, <1>15 DEF Types, At, Discovering
  <2>2. PolicyInv(o)'
    BY <1>10, <1>13, <2>1 DEF PolicyInv, client, Discovering
  <2>3. QED
    BY <1>1, <1>8, <1>9, <1>11, <1>15, <2>2, VerifyStepCorrect
<1>16. QED
  BY <1>14, <1>15

LEMMA VerifyCorrect == ASSUME IInv, NEW o \in Ops, Verify(o) PROVE IInv'
<1> DEFINE requirement == IF work[o].kind = "blind" THEN "required"
                          ELSE EffectiveRequirement(work[o].proofRequirement, capabilities)
<1>1. /\ pc[o] = "verify"
      /\ UNCHANGED <<servers, client, answers, work, extension, listing, request, received>>
  BY DEF Verify
<1>2. Types /\ OpInv(o)
  BY DEF IInv
<1>3. /\ At(o) = "verify" /\ work[o] \in Work /\ work[o].kind \in {"blind", "call"}
      /\ policy[o] = NoPolicy /\ verdict[o] = NoVerdict
  BY <1>1, <1>2 DEF OpInv, PlaceInv, UntouchedInv, At, Discovering
<1>4. requirement \in Requirements /\ (requirement = "none" => work[o].kind = "call")
  <2>1. CASE work[o].kind = "blind"
    BY <2>1 DEF Requirements
  <2>2. CASE work[o].kind = "call"
    <3>1. work[o].proofRequirement \in Requirements \cup {None}
      BY <1>3, <2>2 DEF Work
    <3>2. QED
      BY <2>2, <3>1 DEF EffectiveRequirement, Requirements
  <2>3. QED
    BY <1>3, <2>1, <2>2
<1>5. \/ /\ requirement = "none" /\ End(o, "absent", "notEvaluated", TRUE)
         /\ Goto(o, "done") /\ UNCHANGED policy
      \/ /\ policy' = [policy EXCEPT ![o].requirement = requirement]
         /\ Discover(o, "policy") /\ UNCHANGED verdict
      \/ ReadPolicy(o, requirement)
  BY DEF Verify
<1> HIDE DEF requirement
<1>6. CASE /\ requirement = "none" /\ End(o, "absent", "notEvaluated", TRUE)
           /\ Goto(o, "done") /\ UNCHANGED policy
  <2>1. /\ verdict' = [verdict EXCEPT ![o] = [outcome |-> "absent", reason |-> "notEvaluated", act |-> TRUE]]
        /\ pc' = [pc EXCEPT ![o] = "done"] /\ UNCHANGED <<resume, policy>>
    BY <1>6 DEF End, Goto
  <2>2. /\ verdict' \in [Ops -> Verdict] /\ policy' \in [Ops -> Policy]
        /\ verdict'[o].reason = "notEvaluated"
        /\ \A p \in Ops : p # o => policy'[p] = policy[p] /\ verdict'[p] = verdict[p]
    BY <1>2, <2>1 DEF Types, Verdict, Reasons
  <2>3. pc'[o] = "done" /\ At(o)' = "done"
    BY <1>2, <2>1 DEF Types, At, Discovering
  <2>4. PolicyInv(o)'
    BY <1>3, <2>1, <2>3 DEF PolicyInv, NoPolicy, Discovering
  <2>5. VerdictInv(o)'
    BY <2>2 DEF VerdictInv
  <2>6. QED
    BY <1>1, <1>4, <1>6, <2>1, <2>2, <2>4, <2>5, VerifyStepCorrect
<1>7. CASE /\ policy' = [policy EXCEPT ![o].requirement = requirement]
           /\ Discover(o, "policy") /\ UNCHANGED verdict
  <2>1. /\ pc' = [pc EXCEPT ![o] = "server/discover"] /\ resume' = [resume EXCEPT ![o] = "policy"]
        /\ UNCHANGED verdict
    BY <1>7 DEF Discover
  <2>2. policy'[o] = [NoPolicy EXCEPT !.requirement = requirement]
    BY <1>2, <1>3, <1>7 DEF Types
  <2>3. /\ policy'[o].demand = FALSE /\ policy'[o].tee = None
        /\ policy'[o].formats = {} /\ policy'[o].key = None
    BY <2>2 DEF NoPolicy
  <2>4. /\ policy' \in [Ops -> Policy] /\ verdict' \in [Ops -> Verdict]
        /\ \A p \in Ops : p # o => policy'[p] = policy[p] /\ verdict'[p] = verdict[p]
    <3>1. [NoPolicy EXCEPT !.requirement = requirement] \in Policy
      BY <1>4 DEF NoPolicy, Policy
    <3>2. policy' = [policy EXCEPT ![o] = [NoPolicy EXCEPT !.requirement = requirement]]
      BY <1>2, <1>3, <1>7 DEF Types
    <3>3. QED
      BY <1>2, <2>1, <3>1, <3>2 DEF Types
  <2>5. pc'[o] = "server/discover" /\ resume'[o] = "policy" /\ At(o)' = "policy"
    BY <1>2, <2>1 DEF Types, At, Discovering
  <2>6. PolicyInv(o)'
    BY <2>3, <2>5 DEF PolicyInv
  <2>7. VerdictInv(o)' /\ verdict'[o] = NoVerdict
    <3>1. None # "ok"
      BY SessionAssumption
    <3>2. QED
      BY <1>3, <2>1, <3>1 DEF VerdictInv, NoVerdict
  <2>8. QED
    BY <1>1, <2>1, <2>4, <2>6, <2>7, VerifyStepCorrect
<1>8. CASE ReadPolicy(o, requirement)
  BY <1>1, <1>4, <1>8, ReadPolicyCorrect
<1>9. QED
  BY <1>5, <1>6, <1>7, <1>8

LEMMA VerifyAfterDiscoverCorrect == ASSUME IInv, NEW o \in Ops, VerifyAfterDiscover(o) PROVE IInv'
<1>1. UNCHANGED <<servers, client, answers, work, extension, listing, request, received>>
  BY DEF VerifyAfterDiscover
<1>2. Types /\ OpInv(o)
  BY DEF IInv
<1>3. CASE pc[o] = "policy" /\ ReadPolicy(o, policy[o].requirement)
  <2>1. policy[o].requirement \in Requirements \cup {None}
    BY <1>2 DEF Types, Policy
  <2>2. QED
    BY <1>1, <1>3, <2>1, ReadPolicyCorrect
<1>4. CASE /\ pc[o] = "described"
           /\ policy' = [policy EXCEPT ![o].required = Required(work[o].tool, policy[o].demand)]
           /\ Goto(o, "check")
           /\ UNCHANGED verdict
  <2> DEFINE required == Required(work[o].tool, policy[o].demand)
             new == [policy[o] EXCEPT !.required = required]
  <2>1. pc' = [pc EXCEPT ![o] = "check"] /\ UNCHANGED <<resume, verdict>> /\ policy' = [policy EXCEPT ![o] = new]
    BY <1>2, <1>4 DEF Goto, Types
  <2>2. policy[o] \in Policy /\ required \in BOOLEAN /\ policy[o].demand \in BOOLEAN
    BY <1>2 DEF Required, Types, Policy
  <2>3. policy[o].demand /\ ~required => Waived(work[o].tool)
    BY <2>2, WaiverIsListed
  <2> HIDE DEF required
  <2>4. new \in Policy
    BY <2>2 DEF Policy
  <2>5. /\ new.demand = policy[o].demand /\ new.required = required
        /\ new.tee = policy[o].tee /\ new.key = policy[o].key
    BY <2>2 DEF Policy
  <2> HIDE DEF new
  <2>6. /\ policy' \in [Ops -> Policy] /\ verdict' \in [Ops -> Verdict] /\ policy'[o] = new
        /\ \A p \in Ops : p # o => policy'[p] = policy[p] /\ verdict'[p] = verdict[p]
    BY <1>2, <2>1, <2>4 DEF Types
  <2>7. pc'[o] = "check" /\ At(o)' = "check" /\ At(o) = "described"
    BY <1>2, <1>4, <2>1 DEF Types, At, Discovering
  <2>8. verdict[o] = NoVerdict
    BY <1>2, <2>7 DEF OpInv, UntouchedInv
  <2>9. Grown
    BY <1>1, SameServers
  <2>10. PolicyInv(o)'
    BY <1>1, <1>2, <2>3, <2>5, <2>6, <2>7, <2>9, WaivedStays DEF OpInv, PolicyInv, client, Discovering
  <2>11. VerdictInv(o)' /\ verdict'[o] = NoVerdict
    <3>1. None # "ok"
      BY SessionAssumption
    <3>2. QED
      BY <2>1, <2>8, <3>1 DEF VerdictInv, NoVerdict
  <2>12. QED
    BY <1>1, <1>4, <2>1, <2>6, <2>10, <2>11, VerifyStepCorrect
<1>5. QED
  BY <1>3, <1>4 DEF VerifyAfterDiscover

\* A set of naturals has a least element.
LEMMA MinIsMember == ASSUME NEW S \in SUBSET Nat, S # {} PROVE Min(S) \in S
<1> DEFINE R == OpToRel(<, Nat)
<1>1. IsWellFoundedOn(R, Nat)
  BY NatLessThanWellFounded
<1>2. \A x, y \in Nat : y < x => <<y, x>> \in R
  BY DEF OpToRel
<1> HIDE DEF R
<1>3. PICK x \in S : \A y \in S : ~(<<y, x>> \in R)
  BY <1>1, WFMin
<1>4. ASSUME NEW y \in S PROVE x <= y
  <2>1. x \in Nat /\ y \in Nat /\ ~(<<y, x>> \in R)
    BY <1>3
  <2>2. ~(y < x)
    BY <1>2, <2>1
  <2>3. QED
    BY <2>1, <2>2
<1>5. QED
  BY <1>4 DEF Min

LEMMA SixAndTwo ==
    ASSUME NEW S, NEW a \in Seq(S), NEW b \in Seq(S), Len(a) = 6, Len(b) = 2
    PROVE  /\ DOMAIN (a \o b) = 1..8
           /\ \A i \in 1..6 : (a \o b)[i] = a[i]
           /\ (a \o b)[7] = b[1] /\ (a \o b)[8] = b[2]
<1> DEFINE c == a \o b
<1>1. c \in Seq(S) /\ Len(c) = Len(a) + Len(b)
  BY ConcatProperties
<1>2. \A i \in 1..Len(a) + Len(b) : c[i] = IF i <= Len(a) THEN a[i] ELSE b[i - Len(a)]
  BY ConcatProperties
<1> HIDE DEF c
<1>3. DOMAIN c = 1..8
  BY <1>1, LenProperties
<1>4. (\A i \in 1..6 : c[i] = a[i]) /\ c[7] = b[1] /\ c[8] = b[2]
  BY <1>2
<1>5. QED
  BY <1>3, <1>4 DEF c

\* What verifyResult and verify() require of a result.
Passes(o, key) ==
    LET meta == received[o].meta IN
    /\ meta.proofFormat # None
    /\ meta.proofFormat \in policy[o].formats
    /\ meta.proofFormat = "tee-nitro-v1" => policy[o].tee # None
    /\ meta.tool = work[o].tool
    /\ meta.inputCommitment = InputCommitment(o)
    /\ meta.output = received[o].content
    /\ meta.nonce = o
    /\ KeyFits(meta.proofFormat, meta.signer, key)
    /\ meta.attested \/ ~policy[o].required

\* The reason is "ok" just if every check passes, and otherwise that of one that fails.
LEMMA ReasonCorrect ==
    ASSUME NEW o, NEW key
    PROVE  Reason(o, key) \in Reasons /\ (Reason(o, key) = "ok" <=> Passes(o, key))
<1> DEFINE meta == received[o].meta
           b1 == meta.proofFormat # None
           b2 == /\ meta.proofFormat \in policy[o].formats
                 /\ meta.proofFormat = "tee-nitro-v1" => policy[o].tee # None
           b3 == meta.tool = work[o].tool
           b4 == meta.inputCommitment = InputCommitment(o)
           b5 == meta.output = received[o].content
           b6 == meta.nonce = o
           b7 == KeyFits(meta.proofFormat, meta.signer, key)
           b8 == meta.attested \/ ~policy[o].required
           first == <<<<"noProof", b1>>, <<"formatNotNegotiated", b2>>, <<"circuitHashMismatch", b3>>,
                      <<"inputCommitmentMismatch", b4>>, <<"outputCommitmentMismatch", b5>>,
                      <<"nonceMismatch", b6>>>>
           last == <<<<"proofInvalid", b7>>, <<"provenanceMissing", b8>>>>
           checks == first \o last
           failed == {i \in DOMAIN checks : ~checks[i][2]}
<1>1. Reason(o, key) = IF failed = {} THEN "ok" ELSE checks[Min(failed)][1]
  BY DEF Reason, ProofChecks
<1>2. Passes(o, key) <=> b1 /\ b2 /\ b3 /\ b4 /\ b5 /\ b6 /\ b7 /\ b8
  BY DEF Passes
<1>3. /\ b1 \in BOOLEAN /\ b2 \in BOOLEAN /\ b3 \in BOOLEAN /\ b4 \in BOOLEAN
      /\ b5 \in BOOLEAN /\ b6 \in BOOLEAN /\ b7 \in BOOLEAN /\ b8 \in BOOLEAN
  BY DEF KeyFits
<1> HIDE DEF b1, b2, b3, b4, b5, b6, b7, b8
<1>4. /\ first \in Seq(Reasons \X BOOLEAN) /\ Len(first) = 6
      /\ last \in Seq(Reasons \X BOOLEAN) /\ Len(last) = 2
  BY <1>3 DEF Reasons
<1>5. /\ \A i \in 1..6 : first[i][1] \in Reasons \ {"ok"}
      /\ last[1][1] \in Reasons \ {"ok"} /\ last[2][1] \in Reasons \ {"ok"}
  BY DEF Reasons
<1>6. /\ (\A i \in 1..6 : first[i][2]) <=> b1 /\ b2 /\ b3 /\ b4 /\ b5 /\ b6
      /\ last[1][2] = b7 /\ last[2][2] = b8
  BY <1>3
<1> HIDE DEF first, last
<1>7. /\ DOMAIN checks = 1..8
      /\ \A i \in 1..6 : checks[i] = first[i]
      /\ checks[7] = last[1] /\ checks[8] = last[2]
  BY <1>4, SixAndTwo
<1> HIDE DEF checks
<1>8. \A i \in 1..8 : checks[i][1] \in Reasons \ {"ok"}
  <2>1. \A i \in 1..8 : i \in 1..6 \/ i = 7 \/ i = 8
    OBVIOUS
  <2>2. QED
    BY <1>5, <1>7, <2>1
<1>9. (\A i \in 1..8 : checks[i][2]) <=> Passes(o, key)
  <2>1. \A i \in 1..8 : i \in 1..6 \/ i = 7 \/ i = 8
    OBVIOUS
  <2>2. 7 \in 1..8 /\ 8 \in 1..8 /\ \A i \in 1..6 : i \in 1..8
    OBVIOUS
  <2>3. QED
    BY <1>2, <1>6, <1>7, <2>1, <2>2
<1>10. failed = {} <=> Passes(o, key)
  BY <1>7, <1>9
<1>11. failed # {} => checks[Min(failed)][1] \in Reasons \ {"ok"}
  <2>1. SUFFICES ASSUME failed # {} PROVE Min(failed) \in 1..8
    BY <1>8
  <2>2. failed \in SUBSET Nat /\ failed \subseteq 1..8
    BY <1>7
  <2> HIDE DEF failed
  <2>3. Min(failed) \in failed
    BY <2>1, <2>2, MinIsMember
  <2>4. QED
    BY <2>2, <2>3
<1> HIDE DEF failed
<1>12. "ok" \in Reasons
  BY DEF Reasons
<1>13. QED
  BY <1>1, <1>10, <1>11, <1>12

\* A proof that arrives is about the call it was made for.
LEMMA ReceivedIsProven ==
    ASSUME IInv, NEW o \in Ops, Delivered(o), received[o].meta.proofFormat # None
    PROVE  /\ ProvenFor(received[o].op, received[o].meta)
           /\ received[o].op = o => received[o].content = Content(o)
<1>1. PICK answer \in answers :
        /\ received[o].op = answer.op
        /\ received[o].content = IF WantsReply(o) THEN Content(answer.op) ELSE answer.content
        /\ received[o].meta \in {answer.meta, BareMeta}
  BY DEF Delivered
<1>2. received[o].meta = answer.meta
  BY <1>1 DEF BareMeta
<1>3. AnswerInv(answer)
  BY DEF IInv
<1>4. ProvenFor(answer.op, answer.meta)
  BY <1>2, <1>3 DEF AnswerInv
<1>5. received[o].op = o => received[o].content = Content(o)
  BY <1>1, <1>3 DEF AnswerInv
<1>6. QED
  BY <1>1, <1>2, <1>4, <1>5

LEMMA CheckCorrect == ASSUME IInv, NEW o \in Ops, Check(o) PROVE IInv'
<1>1. PICK key :
        /\ key \in {policy[o].tee, signingKey[work[o].tool], Server, None}
        /\ ~AsksRegistry(o) => key = policy[o].tee
        /\ verdict' = [verdict EXCEPT ![o] = [outcome |-> "none", reason |-> Reason(o, key), act |-> FALSE]]
        /\ policy' = [policy EXCEPT ![o].key = key]
        /\ signingKey' = IF AsksRegistry(o) THEN [signingKey EXCEPT ![work[o].tool] = key] ELSE signingKey
        /\ pc' = [pc EXCEPT ![o] = IF work[o].kind = "call" THEN "decide"
                                   ELSE IF Reason(o, key) = "ok" THEN "accepted" ELSE "failed"]
  BY DEF Check, End, Goto
<1>2. /\ pc[o] = "check"
      /\ UNCHANGED <<servers, capabilities, changes, discovered, descriptors, teeVerifier, answers, resume,
                     work, extension, listing, request, received>>
  BY DEF Check, Goto
<1>3. Types /\ DiscoverInv(o) /\ OpInv(o) /\ At(o) = "check"
  BY <1>2 DEF IInv, At, Discovering
<1>4. work[o] \in Work /\ work[o].kind \in {"blind", "call"} /\ Delivered(o)
  BY <1>3 DEF OpInv, PlaceInv, ReceivedInv
<1>5. work[o].tool \in Tools
  BY <1>4 DEF Work, Tools
<1>6. key \in Nat \cup {None}
  <2>1. Len(servers) \in Nat
    BY <1>3, LenProperties DEF Types
  <2>2. policy[o].tee \in Nat \cup {None} /\ signingKey[work[o].tool] \in Nat \cup {None}
    BY <1>3, <1>5 DEF Types, Policy
  <2>3. QED
    BY <1>1, <2>1, <2>2 DEF Server
<1>7. Reason(o, key) \in Reasons /\ (Reason(o, key) = "ok" <=> Passes(o, key))
  BY ReasonCorrect
<1> DEFINE reason == Reason(o, key)
           new == [policy[o] EXCEPT !.key = key]
<1>8. PICK state \in {"decide", "accepted", "failed"} :
        /\ pc' = [pc EXCEPT ![o] = state]
        /\ state = "decide" <=> work[o].kind = "call"
        /\ state = "accepted" => Passes(o, key)
        /\ state = "failed" => ~Passes(o, key)
  BY <1>1, <1>7
<1> HIDE DEF reason
<1>9. /\ policy[o] \in Policy /\ new \in Policy
      /\ new.demand = policy[o].demand /\ new.required = policy[o].required /\ new.tee = policy[o].tee
      /\ new.formats = policy[o].formats /\ new.key = key
  BY <1>3, <1>6 DEF Types, Policy
<1>10. policy' = [policy EXCEPT ![o] = new]
  BY <1>1, <1>3 DEF Types
<1> HIDE DEF new
<1>11. Grown /\ SessionInv' /\ ClientGrows /\ Process' = Process
  <2>1. Grown
    BY <1>2, SameServers
  <2>2. QED
    BY <1>2, <2>1, SessionStays DEF IInv, ClientGrows, Process
<1>12. Types'
  <2>1. pc' \in [Ops -> Places \cup Discovering]
    BY <1>3, <1>8 DEF Types, Places
  <2>2. policy' \in [Ops -> Policy]
    BY <1>3, <1>9, <1>10 DEF Types
  <2>3. verdict' \in [Ops -> Verdict]
    <3>1. [outcome |-> "none", reason |-> Reason(o, key), act |-> FALSE] \in Verdict
      BY <1>7 DEF Verdict
    <3>2. QED
      BY <1>1, <1>3, <3>1 DEF Types
  <2>4. signingKey' \in [Tools -> Nat \cup {None}]
    BY <1>1, <1>3, <1>5, <1>6 DEF Types
  <2>5. QED
    BY <1>2, <1>3, <1>11, <2>1, <2>2, <2>3, <2>4 DEF Types
<1>13. /\ pc'[o] = state /\ At(o)' = state /\ policy'[o] = new
       /\ verdict'[o].reason = reason /\ verdict'[o].act = FALSE
       /\ \A p \in Ops : p # o => Kept(p)
  BY <1>1, <1>2, <1>3, <1>8, <1>10 DEF Types, Kept, At, Discovering, reason
<1>14. DiscoverInv(o)'
  BY <1>13 DEF DiscoverInv, Discovering
<1>15. PlaceInv(o)'
  BY <1>2, <1>4, <1>8, <1>13 DEF PlaceInv, Discovering
<1>16. UntouchedInv(o)'
  BY <1>13 DEF UntouchedInv
<1>17. ReceivedInv(o)'
  BY <1>2, <1>4, DeliveredStays DEF ReceivedInv
<1>18. PolicyInv(o)'
  BY <1>2, <1>3, <1>9, <1>11, <1>13, WaivedStays DEF OpInv, PolicyInv, Discovering
<1>19. VerdictInv(o)'
  <2>1. reason = "ok" => received[o].meta.attested \/ ~policy[o].required
    BY <1>7 DEF Passes, reason
  <2>2. QED
    BY <1>2, <1>9, <1>13, <2>1 DEF VerdictInv
<1>20. AcceptedInv(o)'
  <2>1. SUFFICES ASSUME state = "accepted" PROVE AcceptedInv(o)'
    BY <1>13 DEF AcceptedInv
  <2>2. Passes(o, key) /\ work[o].kind = "blind"
    BY <1>4, <1>8, <2>1
  <2>3. ProvenFor(received[o].op, received[o].meta) /\ received[o].meta.nonce = o
    BY <1>4, <2>2, ReceivedIsProven DEF Passes
  <2>4. received[o].op = o /\ received[o].content = Content(o)
    BY <1>4, <2>2, <2>3, ReceivedIsProven DEF Passes, ProvenFor
  <2>5. received[o].meta.signer = request[o].sealedTo /\ request[o].sealedTo \in Process
    BY <2>2, <2>3, <2>4 DEF ProvenFor
  <2>6. received[o].meta.proofFormat = "tee-nitro-v1" => teeVerifier = request[o].sealedTo
    <3>1. SUFFICES ASSUME received[o].meta.proofFormat = "tee-nitro-v1"
                   PROVE  teeVerifier = request[o].sealedTo
      OBVIOUS
    <3>2. ~AsksRegistry(o)
      BY <3>1 DEF AsksRegistry
    <3>3. received[o].meta.signer = policy[o].tee /\ policy[o].tee # None
      BY <1>1, <2>2, <3>1, <3>2 DEF Passes, KeyFits
    <3>4. QED
      BY <1>3, <2>5, <3>3 DEF OpInv, PolicyInv
  <2>7. QED
    BY <1>2, <1>11, <2>4, <2>5, <2>6 DEF AcceptedInv, Content
<1>21. FailedInv(o)'
  <2>1. SUFFICES ASSUME state = "failed", received[o].op = o, work[o].kind = "blind",
                        received[o].meta.proofFormat # None
                 PROVE  \/ received[o].meta.proofFormat \notin policy[o].formats
                        \/ received[o].meta.proofFormat # "demo-commit-v1" /\ key # received[o].meta.signer
                        \/ policy[o].required
    BY <1>2, <1>9, <1>13 DEF FailedInv
  <2>2. ~Passes(o, key)
    BY <1>8, <2>1
  <2>3. ProvenFor(o, received[o].meta) /\ received[o].content = Content(o)
    BY <1>4, <2>1, ReceivedIsProven
  <2>4. CASE received[o].meta.proofFormat = "tee-nitro-v1" /\ policy[o].tee = None
    <3>1. ~AsksRegistry(o)
      BY <2>4 DEF AsksRegistry
    <3>2. received[o].meta.signer # None
      BY <2>1, <2>3, SessionAssumption DEF ProvenFor, Process
    <3>3. QED
      BY <1>1, <2>4, <3>1, <3>2
  <2>5. CASE ~(received[o].meta.proofFormat = "tee-nitro-v1" /\ policy[o].tee = None)
    BY <2>1, <2>2, <2>3, <2>5 DEF Passes, ProvenFor, KeyFits
  <2>6. QED
    BY <2>4, <2>5
<1>22. OpInv(o)'
  BY <1>15, <1>16, <1>17, <1>18, <1>19, <1>20, <1>21 DEF OpInv
<1>23. StepOf(o)
  BY <1>2, <1>11, <1>12, <1>13, <1>14, <1>22 DEF StepOf
<1>24. QED
  BY <1>23, StepOfCorrect

-----------------------------------------------------------------------------
(***************************************************************************)
(* The decision, and what happens beside the operations.                   *)
(***************************************************************************)
\* A session that does not object leaves the freedom of the process it is of.
LEMMA NoViolationIsFree ==
    ASSUME IInv, NEW o \in Ops, work[o].tool \in Tools, discovered # None, ~DescriptorViolation(o)
    PROVE  Free(o)
<1>1. Types /\ discovered \in Process
  BY DEF IInv, Types
<1>2. PICK s \in Process : descriptors = ListedBy(s)
  BY DEF IInv, SessionInv
<1> DEFINE tool == work[o].tool
           descriptor == servers[s].tools[tool]
<1>3. CASE descriptor = None
  BY <1>3 DEF Free
<1>4. CASE descriptor # None
  <2>1. tool \in DOMAIN descriptors /\ descriptors[tool] = descriptor
    BY <1>2, <1>4 DEF ListedBy
  <2>2. descriptor \in DescriptorMeta
    <3>1. servers[s] \in Config
      BY <1>1, ElementOfSeq DEF Types, Process
    <3>2. QED
      BY <1>4, <3>1 DEF Config
  <2>3. descriptor.proofPolicy \in {"always", "onDemand", "sampled", None}
    BY <2>2 DEF DescriptorMeta
  <2> HIDE DEF descriptor
  <2>4. /\ descriptor.proofPolicy # "always"
        /\ descriptor.proofPolicy \in {"onDemand", "sampled"} =>
               received[o].meta.resultId /\ servers[discovered].retains
    BY <2>1 DEF DescriptorViolation
  <2>5. CASE descriptor.proofPolicy = None
    BY <2>5 DEF Free, descriptor
  <2>6. CASE descriptor.proofPolicy \in {"onDemand", "sampled"}
    BY <1>1, <2>4, <2>6 DEF Free, descriptor
  <2>7. QED
    BY <2>3, <2>4, <2>5, <2>6
<1>5. QED
  BY <1>3, <1>4

LEMMA ConcludeCorrect ==
    ASSUME IInv, NEW o \in Ops, pc[o] \in {"decide", "conclude"}, discovered # None, Conclude(o),
           UNCHANGED <<servers, client, answers, work, extension, listing, request, received, policy>>
    PROVE  IInv'
<1> DEFINE outcome == Outcome(verdict[o].reason)
           act == \/ outcome = "verified"
                  \/ outcome = "absent" /\ policy[o].requirement = "preferred" /\ ~DescriptorViolation(o)
           new == [outcome |-> outcome, reason |-> verdict[o].reason, act |-> act]
<1>1. /\ verdict' = [verdict EXCEPT ![o] = new]
      /\ pc' = [pc EXCEPT ![o] = "done"] /\ UNCHANGED resume
  BY DEF Conclude, End, Goto
<1>2. Types /\ DiscoverInv(o) /\ OpInv(o) /\ At(o) \in {"decide", "conclude"}
  BY DEF IInv, At, Discovering
<1>3. work[o] \in Work /\ work[o].kind = "call" /\ Delivered(o)
  BY <1>2 DEF OpInv, PlaceInv, ReceivedInv
<1>4. work[o].tool \in Tools
  BY <1>3 DEF Work, Tools
<1>5. act \in BOOLEAN /\ outcome \in {"absent", "verified", "invalid"}
  BY DEF Outcome
<1>6. act /\ verdict[o].reason = "noProof" => policy[o].requirement = "preferred" /\ ~DescriptorViolation(o)
  BY DEF Outcome
<1> HIDE DEF act, outcome
<1>7. new \in Verdict
  BY <1>2, <1>5 DEF Types, Verdict
<1>8. Grown /\ SessionInv' /\ ClientGrows /\ Process' = Process
  BY SessionKept DEF ClientGrows
<1>9. Types'
  <2>1. verdict' \in [Ops -> Verdict]
    BY <1>1, <1>2, <1>7 DEF Types
  <2>2. pc' \in [Ops -> Places \cup Discovering]
    BY <1>1, <1>2 DEF Types, Places
  <2>3. QED
    BY <1>1, <1>2, <1>8, <2>1, <2>2 DEF Types, client
<1>10. /\ pc'[o] = "done" /\ At(o)' = "done"
       /\ verdict'[o].reason = verdict[o].reason /\ verdict'[o].act = act
       /\ \A p \in Ops : p # o => Kept(p)
  BY <1>1, <1>2 DEF Types, Kept, At, Discovering
<1>11. DiscoverInv(o)'
  BY <1>10 DEF DiscoverInv, Discovering
<1>12. PlaceInv(o)' /\ UntouchedInv(o)' /\ AcceptedInv(o)' /\ FailedInv(o)'
  BY <1>3, <1>10 DEF PlaceInv, UntouchedInv, AcceptedInv, FailedInv, Discovering
<1>13. ReceivedInv(o)'
  BY <1>3, DeliveredStays DEF ReceivedInv
<1>14. PolicyInv(o)'
  BY <1>2, <1>8, <1>10, WaivedStays DEF OpInv, PolicyInv, client, Discovering
<1>15. VerdictInv(o)'
  <2>1. act /\ verdict[o].reason = "noProof" => policy[o].requirement = "preferred" /\ Free(o)'
    BY <1>4, <1>6, <1>8, NoViolationIsFree, FreeStays
  <2>2. QED
    BY <1>2, <1>10, <2>1 DEF OpInv, VerdictInv
<1>16. OpInv(o)'
  BY <1>12, <1>13, <1>14, <1>15 DEF OpInv
<1>17. StepOf(o)
  BY <1>8, <1>9, <1>10, <1>11, <1>16 DEF StepOf
<1>18. QED
  BY <1>17, StepOfCorrect

LEMMA DecideCorrect == ASSUME IInv, NEW o \in Ops, Decide(o) PROVE IInv'
<1>1. /\ pc[o] = "decide"
      /\ UNCHANGED <<servers, client, answers, work, extension, listing, request, received, policy>>
  BY DEF Decide
<1>2. CASE work[o].tool \notin DOMAIN descriptors /\ discovered = None
  <2>1. /\ pc' = [pc EXCEPT ![o] = "server/discover"] /\ resume' = [resume EXCEPT ![o] = "conclude"]
        /\ UNCHANGED verdict
    BY <1>2 DEF Decide, Discover
  <2>2. Types /\ DiscoverInv(o) /\ OpInv(o) /\ At(o) = "decide"
    BY <1>1 DEF IInv, At, Discovering
  <2>3. work[o] \in Work /\ work[o].kind = "call" /\ Delivered(o)
    BY <2>2 DEF OpInv, PlaceInv, ReceivedInv
  <2>4. Grown /\ SessionInv' /\ ClientGrows /\ Process' = Process
    BY <1>1, SessionKept DEF ClientGrows
  <2>5. Types'
    <3>1. pc' \in [Ops -> Places \cup Discovering] /\ resume' \in [Ops -> Resumes \cup {None}]
      BY <2>1, <2>2 DEF Types, Discovering, Resumes
    <3>2. QED
      BY <1>1, <2>1, <2>2, <2>4, <3>1 DEF Types, client
  <2>6. /\ pc'[o] = "server/discover" /\ resume'[o] = "conclude" /\ At(o)' = "conclude"
        /\ \A p \in Ops : p # o => Kept(p)
    BY <1>1, <2>1, <2>2 DEF Types, Kept, At, Discovering
  <2>7. DiscoverInv(o)'
    BY <2>6 DEF DiscoverInv, Resumes
  <2>8. PlaceInv(o)' /\ UntouchedInv(o)' /\ AcceptedInv(o)' /\ FailedInv(o)'
    BY <1>1, <2>3, <2>6 DEF PlaceInv, UntouchedInv, AcceptedInv, FailedInv
  <2>9. ReceivedInv(o)'
    BY <1>1, <2>3, DeliveredStays DEF ReceivedInv
  <2>10. PolicyInv(o)'
    BY <1>1, <2>2, <2>4, <2>6, WaivedStays DEF OpInv, PolicyInv, client
  <2>11. VerdictInv(o)'
    BY <1>1, <2>1, <2>2, <2>4, FreeStays DEF OpInv, VerdictInv
  <2>12. OpInv(o)'
    BY <2>8, <2>9, <2>10, <2>11 DEF OpInv
  <2>13. StepOf(o)
    BY <1>1, <2>4, <2>5, <2>6, <2>7, <2>12 DEF StepOf
  <2>14. QED
    BY <2>13, StepOfCorrect
<1>3. CASE ~(work[o].tool \notin DOMAIN descriptors /\ discovered = None)
  <2>1. discovered # None
    <3>1. DOMAIN <<>> = {}
      OBVIOUS
    <3>2. QED
      BY <1>3, <3>1 DEF IInv, SessionInv
  <2>2. QED
    BY <1>1, <1>3, <2>1, ConcludeCorrect DEF Decide
<1>4. QED
  BY <1>2, <1>3

LEMMA ConcludeAfterDiscoverCorrect == ASSUME IInv, NEW o \in Ops, ConcludeAfterDiscover(o) PROVE IInv'
<1>1. discovered # None
  BY DEF ConcludeAfterDiscover, IInv, DiscoverInv
<1>2. QED
  BY <1>1, ConcludeCorrect DEF ConcludeAfterDiscover

\* No operation takes part in the step.
LEMMA BesideCorrect ==
    ASSUME IInv, Types', Grown,
           UNCHANGED <<discovered, descriptors, teeVerifier, pc, resume, answers, locals>>
    PROVE  IInv'
<1>1. SessionInv' /\ ClientGrows
  BY SessionStays DEF IInv, ClientGrows
<1>2. ASSUME NEW p \in Ops PROVE DiscoverInv(p)' /\ OpInv(p)'
  <2>1. Kept(p)
    BY DEF Kept, locals
  <2>2. QED
    BY <1>1, <2>1, OtherStays DEF IInv
<1>3. ASSUME NEW answer \in answers' PROVE AnswerInv(answer)'
  BY AnswerStays DEF IInv, locals
<1>4. QED
  BY <1>1, <1>2, <1>3 DEF IInv

LEMMA SetCapabilitiesCorrect ==
    ASSUME IInv, NEW capability \in Capabilities, SetCapabilities(capability)
    PROVE  IInv'
<1>1. capability \in Capability
  BY SessionAssumption
<1>2. Types'
  BY <1>1 DEF SetCapabilities, IInv, Types, Process, locals
<1>3. Grown
  BY SameServers DEF SetCapabilities
<1>4. QED
  BY <1>2, <1>3, BesideCorrect DEF SetCapabilities

LEMMA RestartCorrect == ASSUME IInv, NEW config \in Configs, Restart(config) PROVE IInv'
<1>1. servers' = Append(servers, config) /\ UNCHANGED <<client, pc, resume, answers, locals>>
  BY DEF Restart
<1>2. config \in Config /\ Types
  BY SessionAssumption DEF IInv
<1>3. /\ servers' \in Seq(Config) /\ Len(servers') = Len(servers) + 1 /\ Len(servers) \in Nat
      /\ \A s \in 1..Len(servers) : servers'[s] = servers[s]
  BY <1>1, <1>2, AppendProperties, LenProperties DEF Types
<1>4. Grown
  BY <1>3 DEF Grown, Process
<1>5. Types'
  <2>1. \A n : n \in Process => n \in Process'
    BY <1>4 DEF Grown
  <2>2. Len(servers') > 0
    BY <1>3
  <2> HIDE DEF Process
  <2>3. extension' \in [Ops -> Process' \cup {None}] /\ listing' \in [Ops -> Process' \cup {None}]
    BY <1>1, <1>2, <2>1 DEF Types, locals
  <2>4. request' \in [Ops -> [declared : Capability, sealedTo : Process' \cup {None}] \cup {None}]
    <3>1. ASSUME NEW p \in Ops
          PROVE  request[p] \in [declared : Capability, sealedTo : Process' \cup {None}] \cup {None}
      BY <1>2, <2>1 DEF Types
    <3>2. QED
      BY <1>1, <1>2, <3>1 DEF Types, locals
  <2>5. QED
    BY <1>1, <1>2, <1>3, <2>1, <2>2, <2>3, <2>4 DEF Types, client, locals
<1>6. QED
  BY <1>1, <1>4, <1>5, BesideCorrect DEF client

-----------------------------------------------------------------------------
LEMMA InitCorrect == Init => IInv
<1> SUFFICES ASSUME Init PROVE IInv
  OBVIOUS
<1>1. PICK config \in FirstConfigs : servers = <<config>>
  BY DEF Init
<1>2. servers \in Seq(Config) /\ Len(servers) = 1
  BY <1>1, SessionAssumption
<1>3. Types
  <2>1. NoPolicy \in Policy /\ NoVerdict \in Verdict
    BY DEF NoPolicy, Policy, NoVerdict, Verdict
  <2>2. capabilities \in Capability
    BY SessionAssumption DEF Init
  <2>3. signingKey \in [Tools -> Nat \cup {None}]
    BY DEF Init
  <2>4. pc \in [Ops -> Places \cup Discovering] /\ resume \in [Ops -> Resumes \cup {None}]
    BY DEF Init, Places
  <2>5. policy \in [Ops -> Policy] /\ verdict \in [Ops -> Verdict]
    BY <2>1 DEF Init
  <2>6. QED
    BY <1>2, <2>2, <2>3, <2>4, <2>5 DEF Init, Types
<1>4. SessionInv
  BY DEF Init, SessionInv
<1>5. ASSUME NEW o \in Ops PROVE DiscoverInv(o) /\ OpInv(o)
  <2>1. /\ pc[o] = "idle" /\ At(o) = "idle" /\ received[o] = None
        /\ policy[o] = NoPolicy /\ verdict[o] = NoVerdict /\ answers = {}
    BY DEF Init, At, Discovering
  <2>2. DiscoverInv(o)
    BY <2>1 DEF DiscoverInv, Discovering
  <2>3. PlaceInv(o) /\ UntouchedInv(o) /\ ReceivedInv(o) /\ AcceptedInv(o) /\ FailedInv(o)
    BY <2>1 DEF PlaceInv, UntouchedInv, ReceivedInv, AcceptedInv, FailedInv, Discovering
  <2>4. PolicyInv(o)
    BY <2>1 DEF PolicyInv, NoPolicy, Discovering
  <2>5. VerdictInv(o)
    <3>1. None # "ok"
      BY SessionAssumption
    <3>2. QED
      BY <2>1, <3>1 DEF VerdictInv, NoVerdict
  <2>6. QED
    BY <2>2, <2>3, <2>4, <2>5 DEF OpInv
<1>6. QED
  BY <1>3, <1>4, <1>5 DEF IInv, Init

LEMMA NextCorrect == IInv /\ [Next]_vars => IInv'
<1> SUFFICES ASSUME IInv, [Next]_vars PROVE IInv'
  OBVIOUS
<1>1. ASSUME NEW o \in Ops, OpStep(o) PROVE IInv'
  <2>1. CASE \E w \in Works : Start(o, w)
    BY <2>1, StartCorrect
  <2>2. CASE AnswerDiscover(o) \/ DiscoverReceives(o) \/ NoMutualFormat(o)
             \/ AnswerToolsList(o) \/ DiscoverReturns(o) \/ CircuitHashMismatch(o) \/ RequestFails(o)
    BY <2>2, AnswerDiscoverCorrect, DiscoverReceivesCorrect, NoMutualFormatCorrect,
       AnswerToolsListCorrect, DiscoverReturnsCorrect, CircuitHashMismatchCorrect, RequestFailsCorrect
  <2>3. CASE SealAfterDiscover(o) \/ AnswerBlind(o) \/ AnswerBare(o) \/ AnswerProven(o)
             \/ AnswerError(o) \/ Deliver(o)
    BY <2>3, SealAfterDiscoverCorrect, AnswerBlindCorrect, AnswerBareCorrect, AnswerProvenCorrect,
       AnswerErrorCorrect, DeliverCorrect
  <2>4. CASE Verify(o) \/ VerifyAfterDiscover(o) \/ Check(o) \/ Decide(o) \/ ConcludeAfterDiscover(o)
    BY <2>4, VerifyCorrect, VerifyAfterDiscoverCorrect, CheckCorrect, DecideCorrect,
       ConcludeAfterDiscoverCorrect
  <2>5. QED
    BY <1>1, <2>1, <2>2, <2>3, <2>4 DEF OpStep
<1>2. ASSUME NEW capability \in Capabilities, SetCapabilities(capability) PROVE IInv'
  BY <1>2, SetCapabilitiesCorrect
<1>3. ASSUME NEW config \in Configs, Restart(config) PROVE IInv'
  BY <1>3, RestartCorrect
<1>4. CASE UNCHANGED vars
  <2>1. UNCHANGED <<servers, capabilities, discovered, descriptors, teeVerifier, signingKey,
                    pc, resume, answers, locals>>
    BY <1>4 DEF vars, client
  <2>2. Types'
    BY <2>1 DEF IInv, Types, Process, locals
  <2>3. QED
    BY <2>1, <2>2, SameServers, BesideCorrect
<1>5. QED
  BY <1>1, <1>2, <1>3, <1>4 DEF Next

\* The inductive invariant: the session is none or that of one discover(); every
\* operation has read, received and concluded what its place in client.ts allows.
THEOREM SessionInvariant == Spec => []IInv
<1>1. Init => IInv
  BY InitCorrect
<1>2. IInv /\ [Next]_vars => IInv'
  BY NextCorrect
<1>3. QED
  BY <1>1, <1>2, PTL DEF Spec

LEMMA ProcessDomain == IInv => Process = DOMAIN servers
<1> SUFFICES ASSUME IInv PROVE Process = DOMAIN servers
  OBVIOUS
<1>1. QED
  BY LenProperties DEF IInv, Types, Process

\* Under requireInputProvenance a result without an attestation is accepted only if
\* some server process has waived it (verify, client.ts).
THEOREM UnattestedNeedsWaiver == Spec => []ProvenanceFailsClosed
<1>1. IInv => ProvenanceFailsClosed
  <2> SUFFICES ASSUME IInv, NEW o \in Ops,
                      verdict[o].reason = "ok", policy[o].demand, ~received[o].meta.attested
               PROVE  \E s \in DOMAIN servers :
                          /\ servers[s].tools[work[o].tool] # None
                          /\ servers[s].tools[work[o].tool].externalInputs = FALSE
    BY DEF ProvenanceFailsClosed
  <2>1. Waived(work[o].tool)
    BY DEF IInv, OpInv, VerdictInv, PolicyInv
  <2>2. QED
    BY <2>1, ProcessDomain DEF Waived
<1>2. QED
  BY <1>1, SessionInvariant, PTL

\* The client acts on an unproven result only if a proof was preferred and some
\* server process left itself that freedom (verifyWithRequirement, client.ts).
THEOREM UnprovenNeedsFreedom == Spec => []ActNeedsFreedom
<1>1. IInv => ActNeedsFreedom
  <2> SUFFICES ASSUME IInv, NEW o \in Ops, verdict[o].act, verdict[o].reason = "noProof"
               PROVE  ActNeedsFreedom!(o)!2
    BY DEF ActNeedsFreedom
  <2>1. policy[o].requirement = "preferred" /\ Free(o)
    BY DEF IInv, OpInv, VerdictInv
  <2>2. QED
    BY <2>1, ProcessDomain DEF Free
<1>2. QED
  BY <1>1, SessionInvariant, PTL

\* A blind call that returns has its own result, proven by the process its
\* arguments were sealed to (blindCall, client.ts).
THEOREM BlindResultsAreOwn == Spec => []BlindResultIsOwn
<1>1. IInv => BlindResultIsOwn
  <2> SUFFICES ASSUME IInv, NEW o \in Ops, pc[o] = "accepted" PROVE BlindResultIsOwn!(o)!2
    BY DEF BlindResultIsOwn
  <2>1. At(o) = "accepted"
    BY DEF At, Discovering
  <2>2. QED
    BY <2>1 DEF IInv, OpInv, AcceptedInv
<1>2. QED
  BY <1>1, SessionInvariant, PTL

\* A blind call that fails although its own proven answer arrived fails for a
\* format, key or provenance policy that differs (verify and blindCall, client.ts).
THEOREM OwnBlindResultsAreAccepted == Spec => []OwnBlindResultIsAccepted
<1>1. IInv => OwnBlindResultIsAccepted
  <2> SUFFICES ASSUME IInv, NEW o \in Ops, pc[o] = "failed", received[o] # None, work[o].kind = "blind",
                      received[o].op = o, received[o].meta.proofFormat # None
               PROVE  OwnBlindResultIsAccepted!(o)!2
    BY DEF OwnBlindResultIsAccepted
  <2>1. At(o) = "failed"
    BY DEF At, Discovering
  <2>2. QED
    BY <2>1 DEF IInv, OpInv, FailedInv
<1>2. QED
  BY <1>1, SessionInvariant, PTL

\* The session is replaced only as a whole, by the answers of one discover()
\* whose listing is of the same or a later process (discover, client.ts).
THEOREM SessionReplacedWhole == Spec => SessionIsWhole
<1> DEFINE Whole ==
        <<discovered, descriptors>>' # <<discovered, descriptors>> =>
        \E o \in Ops :
            /\ pc[o] = "tools" /\ pc'[o] = resume[o]
            /\ discovered' = extension[o]
            /\ \E s \in extension[o]..Server :
                   \A tool \in Tools : tool \in DOMAIN descriptors' => descriptors'[tool] = servers[s].tools[tool]
<1>1. ASSUME IInv, NEW o \in Ops, DiscoverReturns(o) PROVE Whole
  <2>1. /\ pc[o] = "tools" /\ discovered' = extension[o] /\ pc' = [pc EXCEPT ![o] = resume[o]]
        /\ descriptors' = [tool \in Described(o) |-> Listed(o)[tool]]
    BY <1>1 DEF DiscoverReturns, Return
  <2>2. listing[o] \in extension[o]..Server
    <3>1. Types /\ DiscoverInv(o)
      BY <1>1 DEF IInv
    <3>2. extension[o] \in Process /\ listing[o] \in Process /\ extension[o] <= listing[o]
      BY <2>1, <3>1 DEF Types, DiscoverInv
    <3>3. Len(servers) \in Nat
      BY <3>1, LenProperties DEF Types
    <3>4. QED
      BY <3>2, <3>3 DEF Process, Server
  <2>3. \A tool \in Tools : tool \in DOMAIN descriptors' => descriptors'[tool] = servers[listing[o]].tools[tool]
    BY <2>1 DEF Listed
  <2>4. pc'[o] = resume[o]
    BY <1>1, <2>1 DEF IInv, Types
  <2>5. QED
    BY <2>1, <2>2, <2>3, <2>4
<1>2. ASSUME NEW o \in Ops, OpStep(o), ~DiscoverReturns(o) PROVE UNCHANGED <<discovered, descriptors>>
  <2>1. CASE \E w \in Works : Start(o, w)
    BY <2>1 DEF Start, client
  <2>2. CASE AnswerDiscover(o) \/ DiscoverReceives(o) \/ AnswerToolsList(o)
    BY <2>2 DEF AnswerDiscover, DiscoverReceives, AnswerToolsList, client
  <2>3. CASE NoMutualFormat(o) \/ CircuitHashMismatch(o) \/ RequestFails(o) \/ AnswerError(o)
    BY <2>3 DEF NoMutualFormat, CircuitHashMismatch, RequestFails, AnswerError, Throw, client
  <2>4. CASE SealAfterDiscover(o) \/ Deliver(o)
    BY <2>4 DEF SealAfterDiscover, Deliver, client
  <2>5. CASE AnswerBlind(o) \/ AnswerBare(o) \/ AnswerProven(o)
    BY <2>5 DEF AnswerBlind, AnswerBare, AnswerProven, Answer, client
  <2>6. CASE Verify(o) \/ VerifyAfterDiscover(o)
    BY <2>6 DEF Verify, VerifyAfterDiscover, client
  <2>7. CASE Check(o)
    BY <2>7 DEF Check
  <2>8. CASE Decide(o) \/ ConcludeAfterDiscover(o)
    BY <2>8 DEF Decide, ConcludeAfterDiscover, client
  <2>9. QED
    BY <1>2, <2>1, <2>2, <2>3, <2>4, <2>5, <2>6, <2>7, <2>8 DEF OpStep
<1>3. ASSUME NEW capability \in Capabilities, SetCapabilities(capability)
      PROVE  UNCHANGED <<discovered, descriptors>>
  BY <1>3 DEF SetCapabilities
<1>4. ASSUME NEW config \in Configs, Restart(config) PROVE UNCHANGED <<discovered, descriptors>>
  BY <1>4 DEF Restart, client
<1>5. UNCHANGED <<discovered, descriptors>> => Whole
  OBVIOUS
<1> HIDE DEF Whole
<1>6. IInv /\ [Next]_vars => [Whole]_vars
  BY <1>1, <1>2, <1>3, <1>4, <1>5 DEF Next
<1>7. QED
  BY <1>6, SessionInvariant, PTL DEF Spec, SessionIsWhole, Whole
=============================================================================
