# A TLA+ model of the verifiable-tools demo

This directory is a verification development of `mcp-verifiable-tools-demo`: an
MCP extension in which a server attaches a proof to the result of a tool call
and a client verifies the proof before it acts. The modules model the parts of
the program that keep state and meet concurrency, time, failure or an unreliable
peer, and the pure encodings that several languages have to agree on. `PROJECT.json` maps every definition to its source lines and lists the
runs, the mutants, the hazards and the theorems.

## 1. Inventory

| component | state | operations | what is hard |
|---|---|---|---|
| task store, `server/src/tasks.ts` | map of tasks, map of AbortControllers | `create`, `get`, `cancel`, lazy `sweep`, promise callbacks `update`/`fail` | callbacks of a producer that was stopped; expiry driven by unrelated calls |
| task polling, `client/src/tasks.ts`; task RPCs, `server/src/index.ts:217-255` | deadline, reply in flight | `pollTask`, `tasks/get`, `tasks/cancel` | stale replies, retention against poll gap, hung producers |
| deferred results, `server/src/prove.ts` | retained results, tombstones, timer | `put`, `get`, `sweep`, `close` | answers must not depend on when sweeps happen; witnesses must go without traffic |
| prover worker queue, `prover-noir`, `prover-snarkjs` (same code) | queue, active request, worker | `proveInWorker`, abort, `closeProverWorker`, message / error / exit events | late events of replaced workers, stalls, leaks |
| key registry, `verifier/src/registry.ts` | pinned PEMs, verified bytes | `get`, `getBytes` | overlapping first uses around an `await` |
| risc0 sidecar, `sidecars/risc0/host` | atomic counter | `/prove` | load / compare-exchange races, early returns, vanished clients |
| ezkl sidecar, `sidecars/ezkl/server.py` | semaphore | `/prove` | release on every path |
| tlsn sidecar and price feed, `sidecars/tlsn`, `server/src/pricefeed.ts` | permits; attempt counter, timers | `/attest`; `TlsnPriceFeed.fetch` | dropped handlers, retries competing with what they replace |
| negotiation, commitments, call handling, verification, input provenance: `protocol/src/meta.ts`, `binding.ts`, `server/src/index.ts`, `verifier/src/verifier.ts`, `provenance.ts`, `client/src/client.ts` | request meta, result meta, descriptors, stored results | `callTool`, `prove`, `verify`, `verifyWithRequirement` | results of other calls or altered ones; downgrade to plain results; failing provers |
| client session and blind calls, `client/src/client.ts`, `blind.ts`, `protocol/src/hpke.ts`, `server/src/discover.ts`, `server/src/index.ts:256-291` | `capabilities`, `discovered`, `descriptors`, `teeVerifier`, pinned signing keys | `discover`, `setCapabilities`, `blindCall`, lazy discovery in `verify` and `verifyWithRequirement` | overlapping discoveries, policies read before and used after an `await`, keys of a server that has restarted, replies of other calls |
| provers and verifiers of `add`: `prover/src/demo-commit.ts`, `prover-snarkjs`, `prover-noir`, `prover-ezkl`, `prover-risc0`, the sidecars' `/prove` and `/verify`, the circuits | none | prove, verify | one layout written in TypeScript, Python, Rust and two circuit languages; field reduction, limbs, limits of the arguments |
| Nitro attestation, `prover/src/tee-nitro.ts`, `verifier/src/tee-nitro.ts` | enclave key per process; the verifier keeps none | `prove`, `verifyDetailed`, `chain` | documents that age while certificates expire, restarted enclaves, parts of several results combined, the greedy chain walk |
| CBOR and COSE_Sign1, `protocol/src/cbor.ts`, `cose.ts` | none | `cborEncode`, `cborDecode`, `coseSign1Encode`, `coseSign1Decode` | width boundaries, map order, truncated input, signer and reader agreeing on the signed bytes |
| SDK adapter, HTTP front end, mock, demo script | none | glue | |

The server dispatches `tools/call`. A call on a task-shaped tool becomes a task;
its producer runs the tool (for `riskScore`, after the price feed) and a prover,
which may be a worker thread or a sidecar. A `priceQuote` is answered at once and
its witness kept in the result store, from which `verifiable-tools/prove` makes
the proof later. The client polls tasks, then verifies: key registry, negotiated
formats, commitments, nonce, proof; and decides whether to act. What it knows of the
server (formats, descriptors, the key for blind calls) comes from `discover()`, which
it calls when asked and, lazily, when a verification needs it.

What makes each part correct is stated by the properties of section 4.

## 2. Modules and how they correspond to the code

**TaskStore** models the class of the same name. `tasks` has status
`"absent"` where the map has no entry; `chain` is the position of the promise
chain that `create` starts. The event loop runs one handler or one callback at a
time, so each is one action and everything, the clock included, may move between
two of them. Every public operation contains the sweep. A task record is a
shared object in the code; `fail` sets status and error in one callback, so no
intermediate state is visible. Error texts and results are abstracted to the
kind of body.

**TaskPolling** extends it with clients: the call that creates the task,
`pollTask` as a small state machine (request, reply in flight, sleep), cancels by
anybody and unrelated calls that only sweep. A message takes at most `Latency`.
The sleep lasts exactly `Interval`, after which the next step may still be
interleaved with everything else that happens at that time. The client's deadline
uses the same TTL as the store, as the task envelope tells it to.

**ResultStore** models the two maps, the sweep and the timer; `issued` and
`answer` are history variables. **ResultRetention** is the abstract promise: the
answer to a lookup is a function of the result's age.

**ProverWorker** models the queue of both zero-knowledge provers. Workers are
numbered; `events` holds what a thread has emitted and the main thread not yet
handled. `Pump` is `pumpWorker` as the last thing a handler does, its recursion on a
throwing `postMessage` included. `terminate()` resolves after the exit event
(Node's behaviour; external). `new Worker` may throw too, outside the `try`
(`index.ts:65`). In a call that rejects the caller's promise and leaves the request
in the queue (`ProveInWorkerThrows`); `rejected` holds these requests, `promise` what
the queue does with a request and `Outcome` what its caller sees. In an event handler,
or after a termination, nothing catches the exception and the process ends.

**KeyRegistry** models `get` and `getBytes` split at their fetch. A server may
serve any text at any time. A text may be malformed, which the code finds out
only after it has pinned it.

**JobSlots** is the abstract admission control: a semaphore. **ProofSlots** is
risc0's implementation by an atomic counter, with `SidecarProver`'s give-ups on
the other side. **AttestSlots** composes `TlsnPriceFeed.fetch` with the tlsn
sidecar's handler. That the HTTP server drops a handler's future when the
connection closes, and that a blocking task cannot be cancelled, is behaviour of
axum and tokio (external, `Drop`).

**VerifiableCall** composes client, server and verifier for one call and an
optional deferred proof of its result. A proof is the statement it proves, and
only provers add statements: this is the cryptographic assumption, true of
signatures and zk proofs and by design not of `demo-commit-v1`, which is left out
of the instance. Commitments are injective. `Deliver` lets any result ever sent
arrive for a call, as it was or with a field missing or wrong. Arguments are
classes that the circuits' domains tell apart. The price of a `riskScore` call is
attested by the oracle: `Attested` is what the feed adds to a result, and
`ProvenanceChecks` the checks of `verifyProvenance` and `OracleSigVerifier` in their
order, behind the checks of the proof. `AlteredAttestations` are the attestations
that may arrive instead: with another price, commitment or signature, malformed or
of an unknown type. `Undescribed` are the tools the server's list gives no descriptor
for, so that the defaults of a missing descriptor are met too. `discover()` is assumed done, and
to have reported a positive `resultTtlMs`, as the server does; the capabilities
do not change between a call and its verification. ClientSession drops these
assumptions.

**ClientSession** models the state a `VerifiableClient` keeps about its server and the
operations that share it. An operation is a `discover()`, a `blindCall()` or a
`callTool()` followed by `verifyWithRequirement()`; `pc` is the request or the turn of
the event loop it is at, and a lazy discovery is the same `discover()` with a place to
`resume`. A server process is its number: its blind key, its signing key and its
attested key are the process's, so what `discovered`, `teeVerifier` and `signingKey`
hold is the process they came from. `Restart` replaces the process, with another
configuration or the same. HPKE is ideal: what was sealed for a key opens with that
key and the same associated data. `Deliver` hands any answer to any call, with or
without its proof; results that are altered in other ways are VerifiableCall's.

**TeeAttestation** models `tee-nitro-v1`: enclaves that sign results with the key
of their process and attest that key in a document signed by the platform's
certificate, while the clock runs and enclaves restart. A signature is the pair of
its key and what it signs; nobody signs with somebody else's key. The verifier keeps
no state, so it has no action: the invariants quantify over everything that may
arrive in a state (`Arriving`: any result made so far, combinations of parts of
two of them, and one whose document is `Unreadable`). Measurements are pinned per circuit;
a circuit without pins has no measurement that matches. `Walk` is the loop of the code as
a recursive function from hops to certificates: it follows the first matching issuer of
the bundle (`Issuer`, `Undefined` if there is none), at most as often as the bundle has
certificates. `Chain` says that it arrives at the root over valid certificates;
`ValidChain` is the definition it is compared with. The specification is `TeeSpec`, so
that its proofs can share a module with KeyRegistry's.

**Cbor** is a pure module: the encoder, the decoder and the COSE_Sign1 messages as
recursive operators over sequences of bytes. The format is kept whole and the byte
scaled down: the code's 24 immediate arguments become `Immediate`, and a byte has
`8 * (Immediate + 8)` values. A text is a sequence of characters, of which the model
keeps what the conversions tell apart: ordinary ones, written as the byte of the same
number, the byte order mark, the replacement character and a lone surrogate; one more
byte value is invalid in UTF-8. `TextEncode` and `TextDecode` are the two conversions.
**MCCbor** feeds it.

**ProofFormats** is the second pure module: for each of the five formats of `add` its
prover and its verifier (for ezkl and risc0 the sidecar's too) as functions of the
prover's input, the result's metadata and the call. Numbers are kept with their
notation (decimal, padded hex, little-endian felt; leading zeros and case), since the
code compares strings. A proof is the public values it was made for, beside the ones
an ezkl proof or a receipt shows of itself. `Ingest` is the rounding of a 32-bit float,
the reason for `EZKL_MAX_INPUT`. **MCCodecs** extends MCCbor and ProofFormats and checks
both: two calls are proven and fields of one result replaced by the other's.

`MCKeyRegistry`, `MCVerifiableCall`, `MCClientSession` and `MCTeeAttestation` give these
modules finite instances.
Names ending in `Mutant` are deliberate defects, used by the
mutation checks of the properties and by no specification.

## 3. Plan

Done, in this order: TaskStore, TaskPolling, ResultStore, ProverWorker,
KeyRegistry, ProofSlots / JobSlots, AttestSlots, VerifiableCall with input
provenance, TeeAttestation, Cbor; proofs for TaskStore, ResultStore, KeyRegistry and
ProofSlots; ClientSession (discovery, changing capabilities, blind calls, restarts);
ProofFormats; proofs for AttestSlots, ProverWorker, ClientSession, TaskPolling and
VerifiableCall; proofs for TeeAttestation, its certificate walk included, and for the
proof formats.

Left: what needs induction over data (section 5), the end-to-end check of ezkl's limbs
in process and the CBOR codec, if a prover that instantiates induction principles is at
hand.

## 4. Runs

| run | bounds | shows |
|---|---|---|
| `task_store` | 2 tasks, TTL 2, 7 ticks | `WorkingIsLive`, `StoppedIffAborted`, `NoControllerLeak`, `FinishedIsFinal` |
| `task_polling` | 1 task, TTL 3, interval 1, latency 1, 11 ticks, calls until tick 1 | `NeverForgotten`, `CancelIsObeyed`, `TimeoutIsHonest`, `PollTerminates` |
| `result_store` | 2 results, 2 contents, TTL 2, period 2, 9 ticks | `WitnessDeletedInTime`, `OneEntryPerResult`, refinement of ResultRetention |
| `prover_worker` | 3 requests, failing posts, workers that do not start, clean exits, fair | `OwnProofOnly`, `NoRequestLost`, `NoStall`, `OneLiveWorker`, `ServedInOrder`, `EveryRequestSettles` |
| `key_registry` | 2 callers, 2 hashes, 3 texts (one malformed) | `HandedKeysAgree`, `PinIsFinal` |
| `proof_slots` | 3 threads, 2 slots | `CounterIsExact`, refinement of JobSlots |
| `attest_slots` | 2 fetches, 2 attempts each, 1 permit, fair | `PermitsConserved`, `FetchInTime`, `FetchSettles`, refinement of JobSlots |
| `attest_jobs` | 1 fetch | violation: `JobsWithinLimit` |
| `verifiable_call` | 2 calls, 64 kinds of request, 2 prices | `RequiredIsProven`, `VerifiedIsGenuine`, `ActIsGenuine`, `HonestVerifies` |
| `tee_attestation` | 3 enclaves, 7 certificates, 12 bundles, 2 statements (one of a circuit without pins), 2 nonces, 2 proofs, 4 ticks, 1 restart | `AcceptedIsAttested`, `HonestIsAccepted` |
| `codecs` | CBOR: 474 values at the boundaries, their prefixes, all strings of up to 4 bytes of 27 values; proof formats: 5 formats, 7 pairs of arguments, 3 commitments, 6 nonces | `CodecIsExact`, `FormatsAreExact` |
| `client_session` | 2 operations of 6 kinds, 2 server processes of 3 configurations, 1 change of the capabilities | `SessionIsWhole`, `ProvenanceFailsClosed`, `ActNeedsFreedom`, `BlindResultIsOwn`, `OwnBlindResultIsAccepted` |

`prover_worker` and `attest_slots` also check their module's type invariant; that of
ProverWorker includes that no more workers are started than there are requests. Those of
TaskStore, ResultStore, KeyRegistry and ProofSlots are conjuncts of invariants that are
proved (section 5).

Why the bounds are enough. Two tasks let a sweep caused by one act on the other,
and 7 ticks cover two TTLs and the step over each boundary. One poller suffices
for TaskPolling because tasks do not interact except by sweeps, which
`OtherCall` adds; `Interval + 2 * Latency = TTL` is the tightest case its
assumption allows, and 11 ticks let the latest poll reach its deadline. A result
lives 3 TTLs, so 9 ticks see all of its life, late issues and period-boundary
sweeps. Three requests give a finished, an active and a queued one, or an
aborted, a crashed and a waiting one. Three threads for two slots are the least
in which a slot is contended. One call's result is foreign to one other call.
Two proofs are what a combination of results is made of, and in 4 ticks a
document becomes too old while its chain is valid and then the intermediate
certificate expires; nonces are symmetric. An enclave may prove the statement of the
circuit without pins, so its proofs are there to be passed off as the other's. The values of `MCCbor`
lie on both sides of every width of an argument, of the nesting limit and of the
safe integers, with map keys that differ in length, in a later byte and not at
all, and texts with byte order marks and lone surrogates in every place that matters,
as values and as keys. Two operations suffice for one to replace what the other has read at each of its
suspensions, and to be the sender of a foreign answer; a restart needs two processes,
and one change of the capabilities either way shows every mixture of old and new.
For the proof formats the field has 53 elements, a limb 4 values and an element 3
limbs, `U32_MAX` is 7 and `EZKL_MAX_INPUT` 3: this keeps the order of the real limits
(`ProofFormatsAssumption`), leaves the top limb partly unused as 254 bits leave it,
and puts arguments, sums and limbs on both sides of each limit. The commitments and
nonces of the instance differ by the field's order, a leading zero or their case.
The clocks are cut off at `MaxTime`, where only the time stops.

`TaskStore` and `ResultStore` keep `Get` enabled and the registry restarts calls,
so deadlock is checked there; `attest_slots`, `attest_jobs`, `verifiable_call`,
`tee_attestation`, `client_session` and `codecs` model calls that are made once and may all be over,
so they say `CHECK_DEADLOCK FALSE`.

**Fairness.** `PollTerminates` assumes that messages arrive, timers fire and time
passes, and nothing about the producer. `FetchSettles` assumes only time and the
feed's own timers; the sidecar may hang. `EveryRequestSettles` assumes that the
event loop handles pending events, a computation in a live worker ends, and
`terminate()` ends a thread. It excepts one case, as `NoStall` does: the exit handler
ignores code 0 (`prover-noir/src/index.ts:52`), so a worker that exits cleanly under a
request leaves it, and the queue behind it, pending until it is aborted
(`AbandonedByCleanExit`).

**What the client's session does.** Facts the run makes visible, none of them at odds
with the docs: a client never rediscovers by itself once it has a session, so after a
restart blind calls fail until `discover()` is called; when two discoveries overlap
the one that ends last wins, whichever server it asked; `teeVerifier` keeps the first
key it was given, so attested results of a restarted server are refused by this client
even after a new discovery. `OwnBlindResultIsAccepted` says
what may make a blind call refuse its own proven answer: formats narrowed meanwhile, a key
that was not fetched or is another process's, or provenance demanded and not waived. The guard at `client.ts:188` never
fires against this server, which always offers blind execution.

**What the formats show.** In process every verifier of `add` accepts exactly its
prover's answers for the call. The sidecars' `/verify` sees no call and vouches that the
result is right for some arguments; the client compares the rest. The ezkl sidecar also
reads decimals with leading zeros, which the in-process verifier refuses.

**What the codec loses.** `CodecIsExact` says exactly what survives encoding and decoding.
Numbers, byte strings, structure and ordinary text do. A lone surrogate is replaced
(`cbor.ts:41`; two keys of a map that thus become equal are refused as duplicates), and
a byte order mark at the beginning of a text is dropped when it is read (`cbor.ts:126`,
no `ignoreBOM`): a map whose keys differ only by it loses entries, and the encoding of
what was read is then shorter than the bytes it came from. No doc promises otherwise,
and the signed parts of a COSE message are byte strings, which keep every byte.

**Finding.** `attest_jobs`: `MAX_CONCURRENT_ATTESTATIONS` bounds the handlers being
awaited, not the attestations being computed. A client that closes the connection
frees the permit while the blocking task runs on; the feed's own retry after a
timeout is then a second attestation. `sidecars/tlsn/README.md:15` and
`sidecars/README.md:81` promise a 503 instead. The risc0 sidecar keeps its slot until
the job ends (`ProofSlots`, `CounterIsExact`).

## 5. Proofs

Proved with TLAPS for every value of the constants (any set of ids or hashes, any
TTL, period and clock bound), from the named assumptions of the modules only.

* **TaskStoreProofs.** `StoreInvariant`: the inductive invariant is the type
  invariant with `FreshIsUnused` (an id that was not handed out has left no trace),
  `WorkingIsLive`, `StoppedIffAborted`, `BodyMatchesStatus` and
  `NoControllerLeak`. They need each other: an abort reaches a working task
  only because its controller is registered, a late callback is harmless only because
  an aborted task is no longer working, and a task fails with `taskExpired` only in
  the sweep. `SweepEffect` says what a sweep does to one task, and every operation
  that sweeps is proved through it. From it follow `WorkingTasksAreLive`,
  `AbortedProducersNeverPublish`, `ControllersAreReleased` and the action property
  `FinishedTasksAreFinal`.

  The same module proves the polling clients, whose steps are steps of the store
  (`PollingImplementsStore`), so that the store's invariant holds for them too.
  `PollIInv` adds, for each client, that no message or timer is overdue (`OnTime`) and,
  the heart of it, `Watched`: a task that a client still asks about is in the store,
  and finished no longer ago than the client has looked away, which is no time when it
  has just been answered as working, one latency while an answer travels, and a latency
  and an interval before the next request arrives. With `PollingAssumption`
  (`Interval + 2 * Latency <= TTL`) the sweep cannot have dropped it. `PollNeverForgotten`,
  `CancellationIsObeyed` and `TimeoutsAreHonest` follow, the last two with what a
  client has been told (`Told`) and with what it ended (`Ended`).
* **ResultStoreProofs.** `StoreInvariant` relates both maps to the history:
  a retained result is the issued one, a tombstone carries creation time plus TTL,
  what is in neither map is older than three TTLs, and the timer is never overdue.
  `WitnessesDeletedInTime`, `OneEntryEach` and `Refinement` (every step is a step of
  `ResultRetention` or a stutter; `GetAnswers` is the interesting case) follow.
* **TrustedKeysProofs**, what makes a key trusted. KeyRegistry: `RegistryInvariant` says
  that keys handed out by `get` are the pinned ones and bytes are filed under their
  digest. `KeysAgree` and `PinsAreFinal` follow.

  TeeAttestation: the walk through the bundle is first shown to exist and to satisfy its
  equation (by a least hop at which it would fail, since the library's theorem about
  recursive functions cannot be instantiated). `WalkIsSound`: where it arrives at the
  root over valid certificates there is a valid chain. `WalkIsComplete`: where there is
  a valid chain and no certificate has two issuers, the walk can only follow that chain,
  again by a least hop at which it would leave it, and the hop limit is enough, as a
  chain visits no more certificates than the bundle has. `TeeInvariant`: every result made
  is one that an enclave signed with a key of its own, with a document of its own
  certificate, bundle, measurement and user data (`IssuedByEnclaves`).
  `AcceptedOnlyIfAttested` follows: a signature determines what it signs and its key, so
  the document is as some enclave signed it, whichever parts were combined, and the
  proof is by the key it states. `HonestAccepted` follows from `WalkIsComplete`. Both
  hold for any enclaves, certificates, bundles and clocks. `TeeAssumption` gives the
  constants their types; `Undefined` is no certificate.
* **ProvingProofs.** ProofSlots: `SlotsInvariant` says that the counter is the number of
  holders, and a thread that goes on after its load has loaded a value below the limit.
  The second part is what makes a successful compare-exchange safe: the value is the
  current one, so fewer than `Limit` slots are taken. `CounterExact` and
  `SlotsRefinement` follow, for every finite set of threads.

  ProofFormats, for every order of the field, every limit and every size of the limbs
  that `ProofFormatsAssumption` admits, for any arguments in `Nat` and for metadata with
  any values in its fields: `SnarkjsIsExact`, `NoirIsExact` and `DemoCommitIsExact` (a
  verifier accepts exactly what its prover answers), `Risc0IsExact` (the same, where the
  guest program's own sum is a premise, as only the receipt vouches for it),
  `Risc0SidecarIsExact` and `EzklSidecarIsExact` (a sidecar's `/verify` accepts exactly
  what its `/prove` answers for some arguments; for ezkl, but for leading zeros), and
  `ProofsBindCalls`. `EzklAnswers` shows that `/prove` refuses nothing in range: every
  limb is below `LimbBase`, hence exact as a float, so the instances are the expected
  ones. The sum needs no reduction in the field because two arguments and their sum fit
  in 32 bits (`U32_MAX < BN254_SCALAR_FIELD`). Two premises come with several of these:
  a result of `add` has no `inputAttestations`, and a refusal is no metadata. In process
  a snarkjs, noir or demo-commit proof shows what it proves (`shown` equals `proven`).

* **AttestSlotsProofs.** `AttestInvariant`: permits taken and permits free add up to the
  limit over finitely many handlers (`PermitsConserved`), where a fetch stands bounds
  the time it has spent (`WithinBudget`), and its next attempt is a connection the
  sidecar knows nothing of (`NextIsFresh`), so that an attempt takes a permit once.
  `AttestTypes`, `PermitsAreConserved`, `FetchStaysInTime` and `PermitsRefinement` (the
  handlers being awaited are a `JobSlots`) follow. The jobs are not: that is the finding
  of section 4.
* **ProverWorkerProofs.** `WorkerQueueInvariant` has four parts, which take the state as
  parameters because every handler hands an intermediate state to `pumpWorker()`.
  `QueueInv`: the pending requests are the queued ones and the active one, in the order
  of their ids. `OnlyRejectedWait`: with nothing active and no termination to come, only
requests wait whose callers have already been told that no worker started. `WorkerInv`: only the current worker is up, and a thread that has emitted
  its last event is dead. `ServiceInv`: an active request is owed an answer by the
  current worker, or the answer or the worker's failure is under way. `WorkerQueueTypes`,
  `ProofsAreOwn`, `NoRequestIsLost`, `ServiceInOrder`, `OneWorkerIsLive` and
  `QueueNeverStalls` follow for any number of requests.
* **ClientSessionProofs.** `SessionInvariant` says of each operation what it has read
  and not yet used: which process a session, a sealed request and a proven answer are
  of, what may have been delivered, who has waived an attestation or kept the freedom
  to send no proof, and what a verdict rests on, which is that of the first failing
  check (`ReasonCorrect`). `UnattestedNeedsWaiver`, `UnprovenNeedsFreedom`,
  `BlindResultsAreOwn`, `OwnBlindResultsAreAccepted` and the action property
  `SessionReplacedWhole` follow, for any number of operations and restarts.
  `SessionAssumption` includes that `None`, the code's undefined, is no process, no
  verdict and no encrypted reply.

* **VerifiableCallProofs.** `CallsInvariant` relates what the client may receive to what
  the server did: a statement was proven for its call's own output, or for a retained
  priceQuote under the nonce of `verifiable-tools/prove` (`ProofInv`, `RecordInv`); a
  result carries the proof it owes (`SentInv`); an attestation that arrives is an
  oracle's or an altered one (`Known`); and a verdict is what the checks say of it
  (`CallInv`). A nonce occurs in statements of one call and stage only, so a foreign
  proof fails; the commitments tie the rest, and where the client asked to prove
  somebody else's `resultId`, the same tool and arguments give the same content.
  `ReasonCorrect` turns the ordered checks into a conjunction. `RequiredProofsAreSent`,
  `VerifiedResultsAreGenuine`, `ActedOnResultsAreGenuine` and `HonestResultsAreVerified`
  follow for any calls, requests, formats, prices and missing descriptors. The last one
  showed that an honest proven result of a tool without external inputs is refused
  (`provenanceMissing`) when its descriptor is missing and the client demands
  provenance; the property says so. `UndefinedAssumption`: the code's undefined is no
  commitment and no attested datum.

Only model-checked: all liveness (`PollTerminates`, `FetchSettles`,
`EveryRequestSettles`: fairness is out of the prover's reach). Cbor recurses over bytes,
and the in-process ezkl verifier folds limbs back into a field element: what they compute
for every input needs induction over data, so `CodecIsExact` and that part of
`FormatsAreExact` stay with TLC. `FormatsAreExact` is defined beside the codec, whose
recursive operators the prover cannot load, so the theorems of ProvingProofs state its
other parts in their own words; they are stronger than the run, which replaces fields of
one result by another's.

## 6. Not modelled

Cryptography itself (signatures, the proof systems, the HPKE key schedule, TLSNotary) is
ideal; JCS with SHA-256 is an injective commitment. Not modelled at all: the HTTP front
end (each request is accepted or refused by its own headers and body; nothing is kept),
the SDK adapter (forwards requests and answers), the tlsn sidecar's notary session and
its `/verify`, the loading of keys and engines, fake receipts of risc0's development
mode, the wasm wrapper of the receipt verifier, the sidecar mock, the demo script and
the benchmark. Wall-clock adjustments are
not modelled: `Date.now()` never goes back. `PROJECT.json` gives the reason for
each part; every hazard it lists has a property.
