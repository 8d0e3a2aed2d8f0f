---------------------------- MODULE AttestSlots ----------------------------
(***************************************************************************)
(* A TLSNotary attestation end to end: TlsnPriceFeed.fetch (packages/      *)
(* server/src/pricefeed.ts) retrying POST /attest under a timeout, and the *)
(* handler of the tlsn sidecar (sidecars/tlsn/src/main.rs) admitting       *)
(* requests with a semaphore.                                              *)
(*                                                                         *)
(* The handler is a future that holds the permit and awaits a blocking     *)
(* task.  When the connection is closed the HTTP server drops the future   *)
(* and with it the permit; the blocking task cannot be stopped and runs on.*)
(***************************************************************************)
EXTENDS Naturals, FiniteSets

CONSTANTS
    Feeds,       \* concurrent calls of fetch()
    Attempts,    \* attempts
    Timeout,     \* timeoutMs, in clock ticks
    RetryDelay,  \* retryDelayMs
    Limit        \* MAX_CONCURRENT_ATTESTATIONS

ASSUME AttestAssumption ==
    /\ Attempts \in Nat \ {0} /\ Timeout \in Nat \ {0}
    /\ RetryDelay \in Nat /\ Limit \in Nat

VARIABLES
    feed,     \* where each fetch() stands, since when, and for how long in all
    conn,     \* the connection of each request, <<feed, attempt>>
    running,  \* the requests whose blocking task runs
    permits   \* attest_slots

vars == <<feed, conn, running, permits>>

Requests == Feeds \X (1..Attempts)

FeedStates == {"idle", "waiting", "delay", "attested", "failed", "aborted"}
\* "handling": the future holds a permit and awaits the task; a number is the
\* status of a response under way.
ConnStates == {"none", "sent", "handling", "200", "4xx", "5xx", "ended"}

TypeOK ==
    /\ feed \in [Feeds -> [pc : FeedStates, attempt : 0..Attempts, waited : Nat, total : Nat]]
    /\ conn \in [Requests -> ConnStates]
    /\ running \in SUBSET Requests
    /\ permits \in 0..Limit

Init ==
    /\ feed = [f \in Feeds |-> [pc |-> "idle", attempt |-> 0, waited |-> 0, total |-> 0]]
    /\ conn = [q \in Requests |-> "none"]
    /\ running = {}
    /\ permits = Limit

\* The request a feed is waiting for.
Current(f) == <<f, feed[f].attempt>>

\* fetch() returns or throws.
Settle(f, how) == feed' = [feed EXCEPT ![f] = [pc |-> how, attempt |-> 0, waited |-> 0, total |-> 0]]

Delay(f) == feed' = [feed EXCEPT ![f].pc = "delay", ![f].waited = 0]

Handling == {q \in Requests : conn[q] = "handling"}

-----------------------------------------------------------------------------
(***************************************************************************)
(* The price feed.                                                         *)
(***************************************************************************)
\* The loop body up to its first await: POST /attest under a fresh timeout.
Post(f) ==
    /\ feed' = [feed EXCEPT ![f].pc = "waiting", ![f].attempt = @ + 1, ![f].waited = 0]
    /\ conn' = [conn EXCEPT ![<<f, feed[f].attempt + 1>>] = "sent"]
    /\ UNCHANGED <<running, permits>>

\* fetch() is entered.
Fetch(f) ==
    /\ feed[f].pc = "idle"
    /\ Post(f)

\* retryDelayMs is over: next iteration.
Retry(f) ==
    /\ feed[f].pc = "delay"
    /\ feed[f].waited >= RetryDelay
    /\ Post(f)

DelayOrFailMutant(f) == feed' = [feed EXCEPT ![f].waited = 0]

\* The end of an iteration without a body: wait and go on, or give up.
DelayOrFail(f) == IF feed[f].attempt < Attempts THEN Delay(f) ELSE Settle(f, "failed")

\* The response: a body ends the fetch, with an attestation or, if it is not
\* one, an error; a 4xx ends it, a 5xx does not.
Receive(f) ==
    /\ feed[f].pc = "waiting"
    /\ conn[Current(f)] \in {"200", "4xx", "5xx"}
    /\ CASE conn[Current(f)] = "200" -> \E how \in {"attested", "failed"} : Settle(f, how)
         [] conn[Current(f)] = "4xx" -> Settle(f, "failed")
         [] conn[Current(f)] = "5xx" -> DelayOrFail(f)
    /\ conn' = [conn EXCEPT ![Current(f)] = "ended"]
    /\ UNCHANGED <<running, permits>>

\* What the sidecar does with a connection its client has closed: a response
\* under way is lost, a request it handles is noticed by Drop.
Closed(f) ==
    IF conn[Current(f)] \in {"200", "4xx", "5xx"}
    THEN [conn EXCEPT ![Current(f)] = "ended"]
    ELSE conn

\* The connection breaks, or the sidecar is down.
ConnectionBreaks(f) ==
    /\ feed[f].pc = "waiting"
    /\ DelayOrFail(f)
    /\ conn' = Closed(f)
    /\ UNCHANGED <<running, permits>>

TimesOutMutant(f) ==
    feed[f].waited >= Timeout /\ conn[Current(f)] = "handling" /\ ConnectionBreaks(f)

\* AbortSignal.timeout fires.
TimesOut(f) == feed[f].waited >= Timeout /\ ConnectionBreaks(f)

\* The caller's signal fires, while waiting for the sidecar or between
\* attempts: the fetch ends at once.
Abort(f) ==
    /\ feed[f].pc \in {"waiting", "delay"}
    /\ Settle(f, "aborted")
    /\ conn' = Closed(f)
    /\ UNCHANGED <<running, permits>>

-----------------------------------------------------------------------------
(***************************************************************************)
(* The sidecar.                                                            *)
(***************************************************************************)
Abandoned(q) == feed[q[1]].pc # "waiting" \/ feed[q[1]].attempt # q[2]

HandleAttestMutant(q) ==
    /\ conn[q] = "sent"
    /\ conn' = [conn EXCEPT ![q] = "handling"]
    /\ running' = running \cup {q}
    /\ permits' = IF permits = 0 THEN 0 ELSE permits - 1
    /\ UNCHANGED feed

\* handle_attest up to its await: a malformed request is a 400, no free permit
\* a 503; otherwise the permit is taken and the blocking task spawned.
HandleAttest(q) ==
    /\ conn[q] = "sent"
    /\ \/ /\ conn' = [conn EXCEPT ![q] = "4xx"]
          /\ UNCHANGED <<running, permits>>
       \/ /\ permits = 0
          /\ conn' = [conn EXCEPT ![q] = "5xx"]
          /\ UNCHANGED <<running, permits>>
       \/ /\ permits > 0
          /\ conn' = [conn EXCEPT ![q] = "handling"]
          /\ running' = running \cup {q}
          /\ permits' = permits - 1
    /\ UNCHANGED feed

\* The blocking task ends; it does not depend on the connection.
JobEnds(q) ==
    /\ q \in running
    /\ running' = running \ {q}
    /\ UNCHANGED <<feed, conn, permits>>

RespondMutant(q) ==
    /\ conn[q] = "handling"
    /\ q \notin running
    /\ conn' = [conn EXCEPT ![q] = "200"]
    /\ permits' = permits + 2
    /\ UNCHANGED <<feed, running>>

\* The future resumes, answers with the attestation or the error of the task,
\* and drops the permit.
Respond(q) ==
    /\ conn[q] = "handling"
    /\ q \notin running
    /\ \E status \in {"200", "5xx"} : conn' = [conn EXCEPT ![q] = status]
    /\ permits' = permits + 1
    /\ UNCHANGED <<feed, running>>

DropMutant(q) ==
    /\ Abandoned(q)
    /\ conn[q] \in {"sent", "handling"}
    /\ conn' = [conn EXCEPT ![q] = "ended"]
    /\ UNCHANGED <<feed, running, permits>>

\* The server notices that the client has gone and drops the future.
Drop(q) ==
    /\ Abandoned(q)
    /\ conn[q] \in {"sent", "handling"}
    /\ conn' = [conn EXCEPT ![q] = "ended"]
    /\ permits' = IF conn[q] = "handling" THEN permits + 1 ELSE permits
    /\ UNCHANGED <<feed, running>>

-----------------------------------------------------------------------------
Active == {f \in Feeds : feed[f].pc \in {"waiting", "delay"}}

\* Time passes for the fetches under way, but not past a timer that is due.
Tick ==
    /\ Active # {}
    /\ \A f \in Active :
           feed[f].waited < IF feed[f].pc = "waiting" THEN Timeout ELSE RetryDelay
    /\ feed' = [f \in Feeds |->
                  IF f \in Active
                  THEN [feed[f] EXCEPT !.waited = @ + 1, !.total = @ + 1]
                  ELSE feed[f]]
    /\ UNCHANGED <<conn, running, permits>>

FeedStep(f) == Fetch(f) \/ Retry(f) \/ Receive(f) \/ ConnectionBreaks(f) \/ TimesOut(f) \/ Abort(f)

SidecarStep(q) == HandleAttest(q) \/ JobEnds(q) \/ Respond(q) \/ Drop(q)

Next ==
    \/ \E f \in Feeds : FeedStep(f)
    \/ \E q \in Requests : SidecarStep(q)
    \/ Tick

Spec == Init /\ [][Next]_vars

\* Time passes and the feed's timers fire.  Nothing is assumed of the sidecar,
\* which may hang.
Fairness ==
    /\ \A f \in Feeds : WF_vars(Retry(f)) /\ WF_vars(TimesOut(f))
    /\ WF_vars(Tick)

FairSpec == Spec /\ Fairness

-----------------------------------------------------------------------------
PermitSlots == INSTANCE JobSlots WITH Jobs <- Requests, holders <- Handling

\* The futures being awaited share the permits as a semaphore of Limit slots,
\* whatever connections break or time out (main.rs:430-435).
ImplementsJobSlots == PermitSlots!SlotsSpec

\* Every permit is free or held by a future that is still awaited: none is lost
\* with a connection or returned twice.
PermitsConserved == permits + Cardinality(Handling) = Limit

\* fetch() settles within its budget, whatever the sidecar does: all attempts
\* at their full timeout and the delays between them (pricefeed.ts:86-120).
FetchInTime ==
    \A f \in Active : feed[f].total <= Attempts * Timeout + (Attempts - 1) * RetryDelay

\* Every fetch() settles, even against a sidecar that never answers.
FetchSettles ==
    \A f \in Feeds : feed[f].pc = "waiting" ~> feed[f].pc \in {"attested", "failed", "aborted"}

\* At most MAX_CONCURRENT_ATTESTATIONS attestations run: one more gets 503
\* busy (sidecars/tlsn/README.md:15).
JobsWithinLimit == Cardinality(running) <= Limit

=============================================================================
