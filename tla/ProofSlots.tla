----------------------------- MODULE ProofSlots -----------------------------
(***************************************************************************)
(* Admission of /prove requests in the risc0 sidecar (sidecars/risc0/host/ *)
(* src/main.rs): one thread per request, a shared atomic counter of proofs *)
(* in flight, a load and a compare-exchange to take a slot, and a guard    *)
(* object that gives it back whichever way prove() returns.                *)
(*                                                                         *)
(* The other side is SidecarProver (packages/prover-sidecar/src/prover.ts) *)
(* which gives a request up on a timeout or an abort by closing the        *)
(* connection; the job does not notice.                                    *)
(***************************************************************************)
EXTENDS Naturals, FiniteSets

CONSTANTS
    Threads,  \* request threads; a thread serves one request after another
    Limit     \* max_concurrent_proofs()

ASSUME ProofSlotsAssumption == Limit \in Nat \ {0} /\ IsFiniteSet(Threads)

VARIABLES
    inFlight,  \* IN_FLIGHT_PROOFS
    pc,        \* where the thread of each request stands
    current,   \* the value try_acquire_proof_slot has loaded
    client     \* whether the SidecarProver behind each request still waits

vars == <<inFlight, pc, current, client>>

\* "reading": prove() holds the slot and reads and checks the request;
\* "proving": the r0vm job runs; "responding": prove() has returned.
ProofStates == {"free", "arrived", "loaded", "reading", "proving", "responding"}
ClientStates == {"none", "waiting", "gone"}

TypeOK ==
    /\ inFlight \in Nat
    /\ pc \in [Threads -> ProofStates]
    /\ current \in [Threads -> Nat]
    /\ client \in [Threads -> ClientStates]

Init ==
    /\ inFlight = 0
    /\ pc = [t \in Threads |-> "free"]
    /\ current = [t \in Threads |-> 0]
    /\ client = [t \in Threads |-> "none"]

\* Threads between taking a slot and dropping the guard.
Holders == {t \in Threads : pc[t] \in {"reading", "proving"}}

Goto(t, state) == pc' = [pc EXCEPT ![t] = state]

-----------------------------------------------------------------------------
\* SidecarProver.prove() posts a request and a thread is spawned for it.
Request(t) ==
    /\ pc[t] = "free"
    /\ Goto(t, "arrived")
    /\ client' = [client EXCEPT ![t] = "waiting"]
    /\ UNCHANGED <<inFlight, current>>

\* The timeout or the caller's signal ends the fetch; nothing reaches the job.
GiveUp(t) ==
    /\ client[t] = "waiting"
    /\ client' = [client EXCEPT ![t] = "gone"]
    /\ UNCHANGED <<inFlight, pc, current>>

\* The load: at the limit the request is answered 503 busy.
Load(t) ==
    /\ pc[t] = "arrived"
    /\ current' = [current EXCEPT ![t] = inFlight]
    /\ IF inFlight >= Limit
       THEN Goto(t, "responding")
       ELSE Goto(t, "loaded")
    /\ UNCHANGED <<inFlight, client>>

CompareExchangeMutant(t) ==
    /\ pc[t] = "loaded"
    /\ inFlight' = inFlight + 1 /\ Goto(t, "reading")
    /\ UNCHANGED <<current, client>>

\* The compare-exchange: the slot is taken, or somebody was faster and the
\* loop starts again.
CompareExchange(t) ==
    /\ pc[t] = "loaded"
    /\ IF inFlight = current[t]
       THEN inFlight' = inFlight + 1 /\ Goto(t, "reading")
       ELSE Goto(t, "arrived") /\ UNCHANGED inFlight
    /\ UNCHANGED <<current, client>>

\* The body is read and passes every check: the r0vm job starts.
StartJob(t) ==
    /\ pc[t] = "reading"
    /\ Goto(t, "proving")
    /\ UNCHANGED <<inFlight, current, client>>

RejectMutant(t) ==
    /\ pc[t] = "reading"
    /\ Goto(t, "responding")
    /\ UNCHANGED <<inFlight, current, client>>

\* A 400: the guard is dropped on the way out.
Reject(t) ==
    /\ pc[t] = "reading"
    /\ inFlight' = inFlight - 1
    /\ Goto(t, "responding")
    /\ UNCHANGED <<current, client>>

\* The job ends, with a proof or a 500, and the guard is dropped.
JobEnds(t) ==
    /\ pc[t] = "proving"
    /\ inFlight' = inFlight - 1
    /\ Goto(t, "responding")
    /\ UNCHANGED <<current, client>>

\* respond(), to a client that may have gone, and the thread ends.
Respond(t) ==
    /\ pc[t] = "responding"
    /\ Goto(t, "free")
    /\ client' = [client EXCEPT ![t] = "none"]
    /\ UNCHANGED <<inFlight, current>>

ThreadStep(t) ==
    \/ Load(t) \/ CompareExchange(t)
    \/ StartJob(t) \/ Reject(t) \/ JobEnds(t) \/ Respond(t)

Next == \E t \in Threads : Request(t) \/ GiveUp(t) \/ ThreadStep(t)

Spec == Init /\ [][Next]_vars

-----------------------------------------------------------------------------
Slots == INSTANCE JobSlots WITH Jobs <- Threads, holders <- Holders

\* The load and the compare-exchange of racing threads, and every way out of
\* prove(), amount to a semaphore of Limit slots (main.rs:32-46, 26-30).
ImplementsJobSlots == Slots!SlotsSpec

\* The counter is the number of proofs in flight: no early return, failed job
\* or vanished client leaks a slot or frees one twice, and a slot counts as
\* taken until the job really ends (main.rs:23-31, 131-206).
CounterIsExact == inFlight = Cardinality(Holders)

=============================================================================
