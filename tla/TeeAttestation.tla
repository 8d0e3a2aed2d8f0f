--------------------------- MODULE TeeAttestation ---------------------------
(***************************************************************************)
(* tee-nitro-v1: enclaves that sign what they compute with a key of their  *)
(* own and attest that key in a document signed by their platform          *)
(* certificate (packages/prover/src/tee-nitro.ts), and the verifier that   *)
(* checks document, certificate chain, measurement, nonce, age and         *)
(* signature (packages/verifier/src/tee-nitro.ts).                         *)
(*                                                                         *)
(* Time passes between signing and checking, enclaves restart with a new   *)
(* key, and what arrives may combine parts of several results.  Nobody     *)
(* signs with a key that is not theirs.                                    *)
(***************************************************************************)
EXTENDS Integers, Sequences, FiniteSets, FiniteSetsExt, Functions

CONSTANTS
    Enclaves,     \* enclave processes, of any image and any platform
    Statements,   \* circuitHash, inputCommitment and outputCommitment of a call
    Nonces,       \* nonces of the client's calls
    Certificates, \* certificate -> [subject, issuer, key, signer, from, to]
    Root,         \* rootCertPem
    Leaf,         \* the certificate of each enclave's platform
    Bundles,      \* the cabundles each enclave may be configured with
    Pcrs,         \* the measurement of each enclave's image
    PinnedPcrs,   \* pinnedPcrs of each statement's circuit, or Undefined
    UserData,     \* userData of each enclave
    ExpectedUserData, \* what expectedUserData returns, or Undefined
    Skew,         \* how far each enclave's clock is ahead
    MaxAgeMs,     \* maxAgeMs
    ClockSkewMs,  \* clockSkewMs
    MaxTime,      \* bound on the clock
    MaxRestarts,  \* bound on the restarts of all enclaves
    MaxProofs,    \* bound on the proofs made
    Undefined     \* undefined

VARIABLES
    clock,     \* the verifier's Date.now
    cabundle,  \* caBundlePem of each enclave
    restarts,  \* how often each enclave was restarted
    issued     \* history: every meta an enclave has made

teeVars == <<clock, cabundle, restarts, issued>>

ASSUME TeeAssumption ==
    /\ Root \in DOMAIN Certificates
    /\ Leaf \in [Enclaves -> DOMAIN Certificates]
    /\ MaxAgeMs \in Nat /\ ClockSkewMs \in Nat
    /\ Skew \in [Enclaves -> Int]
    /\ DOMAIN Bundles = Enclaves
    /\ \A e \in Enclaves : Bundles[e] \subseteq Seq(DOMAIN Certificates)
    /\ \A cert \in DOMAIN Certificates :
           cert # Undefined /\ Certificates[cert].from \in Int /\ Certificates[cert].to \in Int

-----------------------------------------------------------------------------
(***************************************************************************)
(* The certificate chain.                                                  *)
(***************************************************************************)
Valid(cert, now) == Certificates[cert].from <= now /\ now <= Certificates[cert].to

Issues(candidate, cert) ==
    /\ Certificates[cert].issuer = Certificates[candidate].subject
    /\ Certificates[cert].signer = Certificates[candidate].key

\* pool.find: the first certificate of the pool that issues this one.
Issuer(cert, pool) ==
    LET issuers == {i \in DOMAIN pool : cert # Undefined /\ Issues(pool[i], cert)}
    IN  IF issuers = {} THEN Undefined ELSE pool[Min(issuers)]

\* The certificate the walk from the leaf stands at after each hop, of which there
\* are at most as many as certificates in the pool.
Walk(leaf, pool) ==
    LET walk[hops \in 0..Len(pool)] == IF hops = 0 THEN leaf ELSE Issuer(walk[hops - 1], pool)
    IN  walk

ChainMutant(leaf, pool, now) ==
    LET walk == Walk(leaf, pool)
    IN  \E hops \in 0..Len(pool) - 1 :
            /\ walk[hops] = Root
            /\ \A i \in 0..hops : walk[i] # Undefined /\ Valid(walk[i], now)

\* The walk arrives at the root over certificates that are valid.
Chain(leaf, pool, now) ==
    LET walk == Walk(leaf, pool)
    IN  \E hops \in 0..Len(pool) :
            /\ walk[hops] = Root
            /\ \A i \in 0..hops : walk[i] # Undefined /\ Valid(walk[i], now)

-----------------------------------------------------------------------------
(***************************************************************************)
(* Signing.                                                                *)
(***************************************************************************)
EnclaveKey(e) == <<e, restarts[e]>>

Signed(key, message) == [key |-> key, message |-> message]

\* The attestation document that an enclave signs for a nonce.
NitroDoc(e, nonce) ==
    [timestamp |-> clock + Skew[e], pcrs |-> Pcrs[e], certificate |-> Leaf[e],
     cabundle |-> cabundle[e], publicKey |-> EnclaveKey(e), userData |-> UserData[e],
     nonce |-> nonce]

\* An attestation that is missing or cannot be decoded.
Unreadable == <<>>

CoseSign1(e, doc) == [payload |-> doc, signature |-> Signed(Certificates[Leaf[e]].key, doc)]

TeeInit ==
    /\ clock = 0
    /\ cabundle \in {f \in [Enclaves -> UNION Range(Bundles)] : \A e \in Enclaves : f[e] \in Bundles[e]}
    /\ restarts = [e \in Enclaves |-> 0]
    /\ issued = {}

Prove(e, statement, nonce) ==
    /\ Cardinality(issued) < MaxProofs
    /\ issued' = issued \cup
           {[statement |-> statement, nonce |-> nonce, publicInputs |-> <<statement, nonce>>,
             proof |-> Signed(EnclaveKey(e), <<statement, nonce>>),
             teeAttestation |-> CoseSign1(e, NitroDoc(e, nonce))]}
    /\ UNCHANGED <<clock, cabundle, restarts>>

\* A new process generates a new key.
Restart(e) ==
    /\ FoldFunction(LAMBDA n, sum : n + sum, 0, restarts) < MaxRestarts
    /\ restarts' = [restarts EXCEPT ![e] = @ + 1]
    /\ UNCHANGED <<clock, cabundle, issued>>

Tick ==
    /\ clock < MaxTime
    /\ clock' = clock + 1
    /\ UNCHANGED <<cabundle, restarts, issued>>

-----------------------------------------------------------------------------
(***************************************************************************)
(* Checking.  The verifier keeps no state: it may be asked about anything  *)
(* that may arrive, at any time.                                           *)
(***************************************************************************)
\* A circuit without pinned measurements has none that match.
MeasurementMatches(statement, pcrs) ==
    LET pins == PinnedPcrs[statement]
    IN  /\ pins # Undefined
        /\ \A index \in DOMAIN pins : index \in DOMAIN pcrs /\ pcrs[index] = pins[index]

UserDataMatches(userData) == ExpectedUserData # Undefined => userData = ExpectedUserData

TimelyMutant(timestamp) == timestamp <= clock + ClockSkewMs

\* Clock skew is tolerated ahead, age behind.
Timely(timestamp) == timestamp <= clock + ClockSkewMs /\ clock - timestamp <= MaxAgeMs

FirstFailed(checks) ==
    LET failed == {i \in DOMAIN checks : ~checks[i][2]}
    IN  IF failed = {} THEN "ok" ELSE checks[Min(failed)][1]

VerifyDetailed(meta, nonce) ==
    LET sign1 == meta.teeAttestation
        doc == sign1.payload
    IN  IF sign1 = Unreadable THEN "attestationMalformed"
        ELSE FirstFailed(
            <<<<"chainInvalid", Chain(doc.certificate, doc.cabundle, clock)>>,
              <<"signatureInvalid", sign1.signature = Signed(Certificates[doc.certificate].key, doc)>>,
              <<"measurementMismatch", MeasurementMatches(meta.statement, doc.pcrs)>>,
              <<"userDataMismatch", UserDataMatches(doc.userData)>>,
              <<"nonceMismatch", doc.nonce = nonce>>,
              <<"attestationStale", Timely(doc.timestamp)>>,
              <<"signatureInvalid", meta.publicInputs = <<meta.statement, meta.nonce>>>>,
              <<"signatureInvalid", meta.proof = Signed(doc.publicKey, <<meta.statement, meta.nonce>>)>>>>)

\* What may arrive: a meta as it was made, or with parts of another, or with a
\* document that was changed or cannot be read.
WithAttestation(m, sign1) == [m EXCEPT !.teeAttestation = sign1]

Restated(m, other) == [m EXCEPT !.statement = other.statement, !.nonce = other.nonce]

WithInputs(m, other) == [m EXCEPT !.publicInputs = other.publicInputs]

Redated(m) == [m EXCEPT !.teeAttestation.payload.timestamp = clock]

Arriving ==
    issued
    \cup {WithAttestation(m, Unreadable) : m \in issued}
    \cup {WithAttestation(m, other.teeAttestation) : m, other \in issued}
    \cup {WithInputs(Restated(m, other), other) : m, other \in issued}
    \cup {WithInputs(m, other) : m, other \in issued}
    \cup {Redated(m) : m \in issued}

TeeNext ==
    \/ \E e \in Enclaves, statement \in Statements, nonce \in Nonces : Prove(e, statement, nonce)
    \/ \E e \in Enclaves : Restart(e)
    \/ Tick

TeeSpec == TeeInit /\ [][TeeNext]_teeVars

-----------------------------------------------------------------------------
(***************************************************************************)
(* What the walk stands for: certificates of the pool, each issued by the  *)
(* next and valid, that lead from the leaf to the root.                    *)
(***************************************************************************)
ValidChain(leaf, pool, now) ==
    \E n \in 0..Len(pool) : \E path \in [0..n -> Range(pool) \cup {leaf}] :
        /\ path[0] = leaf /\ path[n] = Root
        /\ \A i \in 0..n : Valid(path[i], now)
        /\ \A i \in 1..n : path[i] \in Range(pool) /\ Issues(path[i], path[i - 1])

\* No certificate of the bundle, or its leaf, has two issuers to choose from.
Unambiguous(leaf, pool) ==
    \A cert \in Range(pool) \cup {leaf} :
        Cardinality({i \in DOMAIN pool : Issues(pool[i], cert)}) <= 1

\* A result is accepted only if an enclave with the measurement pinned for its
\* circuit, on a platform certified by the root at that moment, signed this statement for this
\* nonce, and attested the signing key for this nonce within maxAgeMs: an old
\* document, one of another key, call, image or platform, and a changed one are
\* worth nothing, also in combination (verifier tee-nitro.ts:84-127).
AcceptedIsAttested ==
    \A meta \in Arriving : VerifyDetailed(meta, meta.nonce) = "ok" =>
        \E m, attesting \in issued :
            LET doc == attesting.teeAttestation.payload
                e == m.proof.key[1]
            IN  /\ m.statement = meta.statement /\ m.nonce = meta.nonce
                /\ doc.nonce = meta.nonce /\ doc.publicKey = m.proof.key
                /\ doc.timestamp >= clock - MaxAgeMs
                /\ MeasurementMatches(meta.statement, Pcrs[e]) /\ UserDataMatches(UserData[e])
                /\ ValidChain(Leaf[e], cabundle[e], clock)

\* A result that arrives in time as a pinned enclave made it is accepted, also
\* after that enclave has restarted, in whatever order its bundle lists the
\* certificates and however long the chain is, if it is valid and its issuers are
\* unambiguous (verifier tee-nitro.ts:113-115, 128-140; prover tee-nitro.ts:66-97).
HonestIsAccepted ==
    \A meta \in issued :
        LET doc == meta.teeAttestation.payload
        IN  /\ doc.timestamp - ClockSkewMs <= clock
            /\ clock <= doc.timestamp + MaxAgeMs
            /\ MeasurementMatches(meta.statement, doc.pcrs) /\ UserDataMatches(doc.userData)
            /\ Unambiguous(doc.certificate, doc.cabundle)
            /\ ValidChain(doc.certificate, doc.cabundle, clock)
            => VerifyDetailed(meta, meta.nonce) = "ok"

=============================================================================
