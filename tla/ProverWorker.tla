---------------------------- MODULE ProverWorker ----------------------------
(***************************************************************************)
(* The queue in front of the worker thread that computes zero-knowledge    *)
(* proofs (packages/prover-noir/src/index.ts and, line for line the same,  *)
(* packages/prover-snarkjs/src/index.ts).  Requests wait in `queued`, one  *)
(* is `active` on the current worker, an abort of the active one gives the *)
(* worker up and terminates it, and a failed worker is replaced.           *)
(*                                                                         *)
(* A worker is a thread: what it posts reaches the main thread later, as   *)
(* events in the order they were emitted, also after the main thread has   *)
(* given the worker up.  A call whose signal has already fired is rejected *)
(* without touching any of this state.                                     *)
(*                                                                         *)
(* Starting a worker may throw.  In a call of proveInWorker that rejects   *)
(* the promise of the request and leaves the request in the queue; in an   *)
(* event handler or after a termination nobody catches it, and the process *)
(* ends, which is the end of a behaviour.                                  *)
(***************************************************************************)
EXTENDS Naturals, Sequences, SequencesExt

CONSTANTS
    MaxRequests,  \* bound on the number of calls of proveInWorker
    PostMayFail,  \* whether postMessage may throw
    StartMayFail, \* whether new Worker may throw
    CleanExits    \* whether a worker may exit with code 0 on its own

ASSUME ProverWorkerAssumption ==
    /\ MaxRequests \in Nat
    /\ PostMayFail \in BOOLEAN /\ StartMayFail \in BOOLEAN /\ CleanExits \in BOOLEAN

VARIABLES
    nextRequestId,  \* id of the next request
    queued,         \* ids waiting, in order
    active,         \* id of the request posted to the worker, None if undefined
    worker,         \* the current worker, None if undefined
    started,        \* number of workers started so far; workers are numbered
    promise,        \* how the queue has settled each request
    rejected,       \* requests whose promise was rejected because no worker started
    proofOf,        \* the request whose proof a promise was resolved with
    thread,         \* state of each worker thread
    inbox,          \* requests posted to a worker and not answered
    events,         \* events a worker has emitted and the main thread not handled
    pumpAfter       \* workers whose terminate().finally(pumpWorker) is due

vars == <<nextRequestId, queued, active, worker, started, promise, rejected, proofOf,
          thread, inbox, events, pumpAfter>>

None == 0
Requests == 1..MaxRequests
\* A worker is started only to post a request to it, so there are never more.
Workers == 1..MaxRequests

PromiseStates == {"none", "pending", "resolved", "failed", "aborted", "closed"}
ThreadStates == {"unborn", "up", "stopping", "dead"}
Events == [kind : {"answer", "failure"}, id : Requests]
          \cup [kind : {"error", "exit", "cleanExit"}, id : {None}]

\* The types; no more workers are ever started than there are requests, so a
\* request that brings its worker down is not tried again (index.ts:42-59).
TypeOK ==
    /\ nextRequestId \in 1..(MaxRequests + 1)
    /\ queued \in Seq(Requests)
    /\ active \in Requests \cup {None}
    /\ worker \in Workers \cup {None}
    /\ started \in 0..MaxRequests
    /\ promise \in [Requests -> PromiseStates]
    /\ rejected \in SUBSET Requests
    /\ proofOf \in [Requests -> Requests \cup {None}]
    /\ thread \in [Workers -> ThreadStates]
    /\ inbox \in [Workers -> SUBSET Requests]
    /\ events \in [Workers -> Seq(Events)]
    /\ pumpAfter \in SUBSET Workers

Init ==
    /\ nextRequestId = 1
    /\ queued = <<>>
    /\ active = None
    /\ worker = None
    /\ started = 0
    /\ promise = [r \in Requests |-> "none"]
    /\ rejected = {}
    /\ proofOf = [r \in Requests |-> None]
    /\ thread = [w \in Workers |-> "unborn"]
    /\ inbox = [w \in Workers |-> {}]
    /\ events = [w \in Workers |-> <<>>]
    /\ pumpAfter = {}

Event(kind, id) == [kind |-> kind, id |-> id]

Settle(rs, how) == [r \in Requests |-> IF r \in rs THEN how ELSE promise[r]]

\* What the caller of a request sees: a promise is settled once, so whatever the
\* queue does with a rejected request comes too late.
Outcome(r) == IF r \in rejected THEN "failed" ELSE promise[r]

-----------------------------------------------------------------------------
(***************************************************************************)
(* pumpWorker(), run at the end of a handler that has left the queue at    *)
(* `queue`, the active request at `act`, the worker at `wkr`, the promises *)
(* at `settled` and the threads at `threads`.  With nothing active it      *)
(* posts the head of the queue to the worker, starting one if need be; a   *)
(* request whose postMessage throws is rejected and the next one tried.    *)
(* A message to a thread that is no longer up goes nowhere.                *)
(***************************************************************************)
Pump(queue, act, wkr, settled, threads) ==
    IF act # None \/ queue = <<>>
    THEN /\ queued' = queue /\ active' = act /\ worker' = wkr
         /\ promise' = settled /\ thread' = threads
         /\ UNCHANGED <<started, inbox>>
    ELSE \E failing \in 0..(IF PostMayFail THEN Len(queue) ELSE 0) :
         LET fresh == wkr = None
             target == IF fresh THEN started + 1 ELSE wkr
             rest == SubSeq(queue, failing + 1, Len(queue))
             up == fresh \/ threads[target] = "up"
         IN /\ started' = IF fresh THEN started + 1 ELSE started
            /\ worker' = target
            /\ thread' = IF fresh THEN [threads EXCEPT ![target] = "up"] ELSE threads
            /\ promise' = [r \in Requests |->
                            IF r \in Range(SubSeq(queue, 1, failing)) THEN "failed" ELSE settled[r]]
            /\ active' = IF rest = <<>> THEN None ELSE Head(rest)
            /\ queued' = IF rest = <<>> THEN <<>> ELSE Tail(rest)
            /\ inbox' = IF rest # <<>> /\ up
                        THEN [inbox EXCEPT ![target] = @ \cup {Head(rest)}]
                        ELSE inbox

ProveInWorkerMutant ==
    /\ nextRequestId \in Requests
    /\ nextRequestId' = nextRequestId + 1
    /\ Pump(<<nextRequestId>> \o queued, active, worker, Settle({nextRequestId}, "pending"), thread)
    /\ UNCHANGED <<rejected, proofOf, events, pumpAfter>>

\* proveInWorker(): queue the request and pump.
ProveInWorker ==
    /\ nextRequestId \in Requests
    /\ nextRequestId' = nextRequestId + 1
    /\ Pump(Append(queued, nextRequestId), active, worker, Settle({nextRequestId}, "pending"), thread)
    /\ UNCHANGED <<rejected, proofOf, events, pumpAfter>>

\* proveInWorker() when pumpWorker() has to start a worker and that throws: the
\* executor of the promise rejects it, and the request stays in the queue.
ProveInWorkerThrows ==
    /\ StartMayFail
    /\ nextRequestId \in Requests
    /\ active = None /\ worker = None
    /\ nextRequestId' = nextRequestId + 1
    /\ queued' = Append(queued, nextRequestId)
    /\ promise' = Settle({nextRequestId}, "pending")
    /\ rejected' = rejected \cup {nextRequestId}
    /\ UNCHANGED <<active, worker, started, proofOf, thread, inbox, events, pumpAfter>>

\* The abort listener of a request that is still queued.
AbortQueued(r) ==
    /\ \E queuedIndex \in DOMAIN queued :
           queued[queuedIndex] = r /\ queued' = RemoveAt(queued, queuedIndex)
    /\ promise' = Settle({r}, "aborted")
    /\ UNCHANGED <<nextRequestId, active, worker, started, rejected, proofOf, thread, inbox, events, pumpAfter>>

AbortActiveMutant(r) ==
    /\ active = r
    /\ active' = None
    /\ promise' = Settle({r}, "aborted")
    /\ worker' = None
    /\ pumpAfter' = pumpAfter \cup ({worker} \ {None})
    /\ UNCHANGED <<nextRequestId, queued, started, rejected, proofOf, thread, inbox, events>>

\* terminate() on the current worker, if there is one that still runs.
Terminate ==
    IF worker # None /\ thread[worker] = "up"
    THEN [thread EXCEPT ![worker] = "stopping"]
    ELSE thread

\* The abort listener of the active request: the worker is given up, and the
\* queue waits until it has terminated.
AbortActive(r) ==
    /\ active = r
    /\ active' = None
    /\ promise' = Settle({r}, "aborted")
    /\ worker' = None
    /\ thread' = Terminate
    /\ pumpAfter' = pumpAfter \cup ({worker} \ {None})
    /\ UNCHANGED <<nextRequestId, queued, started, rejected, proofOf, inbox, events>>

\* closeProverWorker(): every request is rejected and the worker terminated.
CloseProverWorker ==
    /\ queued' = <<>> /\ active' = None /\ worker' = None
    /\ promise' = Settle(Range(queued) \cup ({active} \ {None}), "closed")
    /\ thread' = Terminate
    /\ UNCHANGED <<nextRequestId, started, rejected, proofOf, inbox, events, pumpAfter>>

-----------------------------------------------------------------------------
(***************************************************************************)
(* The handlers of worker events on the main thread.                       *)
(***************************************************************************)
Take(w, kinds) ==
    /\ events[w] # <<>>
    /\ Head(events[w]).kind \in kinds
    /\ events' = [events EXCEPT ![w] = Tail(@)]

OnMessageMutant(w) ==
    /\ Take(w, {"answer", "failure"})
    /\ LET message == Head(events[w]) IN
       IF active # None
       THEN /\ Pump(queued, None, worker,
                    Settle({active}, IF message.kind = "answer" THEN "resolved" ELSE "failed"), thread)
            /\ proofOf' = IF message.kind = "answer"
                          THEN [proofOf EXCEPT ![active] = message.id] ELSE proofOf
       ELSE UNCHANGED <<queued, active, worker, started, promise, proofOf, thread, inbox>>
    /\ UNCHANGED <<nextRequestId, rejected, pumpAfter>>

\* "message": an answer to anything but the active request is ignored.
OnMessage(w) ==
    /\ Take(w, {"answer", "failure"})
    /\ LET message == Head(events[w]) IN
       IF active # None /\ message.id = active
       THEN /\ Pump(queued, None, worker,
                    Settle({active}, IF message.kind = "answer" THEN "resolved" ELSE "failed"), thread)
            /\ proofOf' = IF message.kind = "answer"
                          THEN [proofOf EXCEPT ![active] = message.id] ELSE proofOf
       ELSE UNCHANGED <<queued, active, worker, started, promise, proofOf, thread, inbox>>
    /\ UNCHANGED <<nextRequestId, rejected, pumpAfter>>

WorkerFailedMutant ==
    /\ Pump(queued, None, None, promise, thread)
    /\ UNCHANGED <<nextRequestId, rejected, proofOf, pumpAfter>>

WorkerRetriesMutant ==
    /\ Pump(IF active = None THEN queued ELSE <<active>> \o queued, None, None, promise, thread)
    /\ UNCHANGED <<nextRequestId, rejected, proofOf, pumpAfter>>

\* The current worker has failed: its request is rejected and the queue goes on
\* with a new worker.
WorkerFailed ==
    /\ Pump(queued, None, None, Settle({active} \ {None}, "failed"), thread)
    /\ UNCHANGED <<nextRequestId, rejected, proofOf, pumpAfter>>

IgnoreEvent ==
    UNCHANGED <<nextRequestId, queued, active, worker, started, promise, rejected, proofOf,
                thread, inbox, pumpAfter>>

\* "error": ignored unless it comes from the current worker.
OnError(w) ==
    /\ Take(w, {"error"})
    /\ IF worker = w THEN WorkerFailed ELSE IgnoreEvent

\* "exit": ignored unless the current worker exits with a code other than 0.
OnExit(w) ==
    /\ Take(w, {"exit", "cleanExit"})
    /\ IF worker = w /\ Head(events[w]).kind = "exit" THEN WorkerFailed ELSE IgnoreEvent

OnTerminatedMutant(w) ==
    /\ w \in pumpAfter
    /\ thread[w] = "dead"
    /\ events[w] = <<>>
    /\ pumpAfter' = pumpAfter \ {w}
    /\ UNCHANGED <<nextRequestId, queued, active, worker, started, promise, rejected, proofOf,
                   thread, inbox, events>>

\* terminate() of an aborted worker has resolved, after its exit event: pump.
OnTerminated(w) ==
    /\ w \in pumpAfter
    /\ thread[w] = "dead"
    /\ events[w] = <<>>
    /\ pumpAfter' = pumpAfter \ {w}
    /\ Pump(queued, active, worker, promise, thread)
    /\ UNCHANGED <<nextRequestId, rejected, proofOf, events>>

-----------------------------------------------------------------------------
(***************************************************************************)
(* The worker thread (worker.ts): it answers what was posted to it, or     *)
(* dies; a thread being terminated may still get an answer out.            *)
(***************************************************************************)
Running(w) == thread[w] \in {"up", "stopping"}

mainVars == <<nextRequestId, queued, active, worker, started, promise, rejected, proofOf, pumpAfter>>

WorkerAnswers(w, r) ==
    /\ Running(w)
    /\ r \in inbox[w]
    /\ inbox' = [inbox EXCEPT ![w] = @ \ {r}]
    /\ \E kind \in {"answer", "failure"} :
           events' = [events EXCEPT ![w] = Append(@, Event(kind, r))]
    /\ UNCHANGED <<mainVars, thread>>

Dies(w, last) ==
    /\ thread' = [thread EXCEPT ![w] = "dead"]
    /\ inbox' = [inbox EXCEPT ![w] = {}]
    /\ events' = [events EXCEPT ![w] = @ \o last]
    /\ UNCHANGED mainVars

\* An exception nobody catches: an error event, then exit with code 1.
WorkerCrashes(w) ==
    thread[w] = "up" /\ Dies(w, <<Event("error", None), Event("exit", None)>>)

\* The process of the thread ends with a failure code and no error event.
WorkerExits(w) ==
    thread[w] = "up" /\ Dies(w, <<Event("exit", None)>>)

WorkerExitsCleanly(w) ==
    CleanExits /\ thread[w] = "up" /\ Dies(w, <<Event("cleanExit", None)>>)

\* terminate() takes effect.
WorkerStops(w) ==
    thread[w] = "stopping" /\ Dies(w, <<Event("exit", None)>>)

MainStep ==
    \/ ProveInWorker \/ ProveInWorkerThrows
    \/ CloseProverWorker
    \/ \E r \in Requests : AbortQueued(r) \/ AbortActive(r)

HandleEvent(w) == OnMessage(w) \/ OnError(w) \/ OnExit(w) \/ OnTerminated(w)

WorkerStep(w) ==
    \/ \E r \in Requests : WorkerAnswers(w, r)
    \/ WorkerCrashes(w) \/ WorkerExits(w) \/ WorkerExitsCleanly(w) \/ WorkerStops(w)

Next ==
    \/ MainStep
    \/ \E w \in Workers : HandleEvent(w) \/ WorkerStep(w)

Spec == Init /\ [][Next]_vars

\* The event loop handles what is pending, a proof computation ends, and
\* terminate() ends the thread.  No caller ever has to abort or close.
Fairness ==
    \A w \in Workers :
        /\ WF_vars(OnMessage(w)) /\ WF_vars(OnError(w)) /\ WF_vars(OnExit(w))
        /\ WF_vars(OnTerminated(w)) /\ WF_vars(WorkerStops(w))
        /\ \A r \in Requests : WF_vars(WorkerAnswers(w, r))

FairSpec == Spec /\ Fairness

-----------------------------------------------------------------------------
\* A caller gets the proof of its own request: an answer that a given-up worker
\* posted before it was terminated never reaches the request that is active
\* when it arrives (index.ts:34).
OwnProofOnly == \A r \in Requests : proofOf[r] \in {None, r}

\* Whoever still waits for an outcome is queued or active, exactly one of the two
\* and once, and nobody who has one is, except a request that was rejected
\* because no worker started: nobody's promise is dropped on an abort, a crash
\* or a close, and no aborted request is proven (index.ts:65, 86-119).
NoRequestLost ==
    /\ \A r \in Requests : Outcome(r) = "pending" => r = active \/ r \in Range(queued)
    /\ \A r \in Range(queued) \cup ({active} \ {None}) : Outcome(r) = "pending" \/ r \in rejected
    /\ active \notin Range(queued)
    /\ \A i, j \in DOMAIN queued : queued[i] = queued[j] => i = j

\* The current worker owes the active request an answer, or has emitted an event
\* that will settle it.
ActiveIsServed ==
    /\ worker # None
    /\ \/ active \in inbox[worker]
       \/ \E i \in DOMAIN events[worker] :
             events[worker][i].kind \in {"error", "exit"} \/ events[worker][i].id = active

\* The current worker has exited with code 0, which the exit handler ignores
\* (index.ts:52): only an abort or a close gets the active request out of this.
AbandonedByCleanExit ==
    /\ CleanExits
    /\ active # None /\ worker # None
    /\ thread[worker] = "dead"
    /\ ~ActiveIsServed

\* Nobody waits for good: whenever requests that are still owed an outcome wait
\* and none is active, the termination of an aborted worker, which pumps, is
\* still to come, and an active request will be answered or failed, unless its
\* worker has left with code 0.  A request left behind by a worker that did not
\* start waits for the next call, but nobody waits for it (index.ts:33-75, 100).
NoStall ==
    /\ active = None /\ (\E r \in Range(queued) : Outcome(r) = "pending") => pumpAfter # {}
    /\ active # None => ActiveIsServed \/ AbandonedByCleanExit

\* At most one worker thread is in use; every other live one is being
\* terminated, so aborts, crashes and closes leak no thread.
OneLiveWorker == \A w \in Workers : thread[w] = "up" => w = worker

\* Requests are served in the order of the calls, aborts and crashes or not.
ServedInOrder ==
    /\ \A i, j \in DOMAIN queued : i < j => queued[i] < queued[j]
    /\ active # None => \A i \in DOMAIN queued : active < queued[i]

\* Every request is settled in the end, whatever is aborted, closed, crashes,
\* cannot be posted or was left behind before it, unless a worker has left with code 0 meanwhile.
EveryRequestSettles ==
    \A r \in Requests :
        Outcome(r) = "pending" ~> Outcome(r) # "pending" \/ AbandonedByCleanExit

=============================================================================
