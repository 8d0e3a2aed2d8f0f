------------------------- MODULE AttestSlotsProofs -------------------------
(***************************************************************************)
(* The permits of the tlsn sidecar are conserved and shared as the         *)
(* semaphore of JobSlots, and fetch() stays within its budget of attempts  *)
(* and delays, for every set of feeds, every limit and every setting of    *)
(* the timers.                                                             *)
(***************************************************************************)
EXTENDS AttestSlots, FiniteSetTheorems, TLAPS

\* The clock ticks that `n` attempts may take with the delays after them.
Budget(n) == n * (Timeout + RetryDelay)

\* Where a feed stands bounds what it has spent: the attempts behind it in full
\* and the wait it is in, which its timer ends (pricefeed.ts:86-120).
WithinBudget ==
    \A f \in Feeds :
        /\ feed[f].pc = "idle" => feed[f].attempt = 0 /\ feed[f].total = 0
        /\ feed[f].pc = "waiting" =>
              /\ feed[f].attempt >= 1
              /\ feed[f].waited <= Timeout
              /\ feed[f].total <= Budget(feed[f].attempt - 1) + feed[f].waited
        /\ feed[f].pc = "delay" =>
              /\ feed[f].attempt >= 1 /\ feed[f].attempt < Attempts
              /\ feed[f].waited <= RetryDelay
              /\ feed[f].total <= Budget(feed[f].attempt - 1) + Timeout + feed[f].waited

\* The next attempt of a fetch() that has not settled is a connection of its
\* own, which the sidecar knows nothing of.
NextIsFresh ==
    \A f \in Feeds : feed[f].pc \in {"idle", "waiting", "delay"} =>
        \A n \in 1..Attempts : n > feed[f].attempt => conn[<<f, n>>] = "none"

IInv ==
    /\ TypeOK
    /\ WithinBudget
    /\ NextIsFresh
    /\ IsFiniteSet(Handling)
    /\ PermitsConserved

-----------------------------------------------------------------------------
(***************************************************************************)
(* The budget.                                                             *)
(***************************************************************************)
\* One attempt and one delay more.
LEMMA BudgetStep ==
    ASSUME NEW n \in Nat
    PROVE  /\ Budget(n) \in Nat
           /\ Budget(n + 1) = Budget(n) + Timeout + RetryDelay
  BY AttestAssumption, SMTT(30) DEF Budget

\* The budget of fewer attempts is smaller.
LEMMA BudgetMonotone ==
    ASSUME NEW m \in Nat, NEW n \in Nat, m <= n
    PROVE  Budget(m) <= Budget(n)
<1>1. PICK d \in Nat : n = m + d
  <2>1. n - m \in Nat /\ n = m + (n - m)
    OBVIOUS
  <2>2. QED
    BY <2>1
<1>2. Budget(n) = Budget(m) + Budget(d)
  BY <1>1, AttestAssumption, SMTT(30) DEF Budget
<1>3. QED
  BY <1>2, BudgetStep

\* All attempts and the delays between them: what FetchInTime allows.
LEMMA WholeBudget ==
    Attempts * Timeout + (Attempts - 1) * RetryDelay = Budget(Attempts - 1) + Timeout
  BY AttestAssumption, SMTT(30) DEF Budget

\* A fetch() within the budget of its attempt is within that of the call.
LEMMA BudgetSuffices == TypeOK /\ WithinBudget => FetchInTime
<1> SUFFICES ASSUME TypeOK, WithinBudget, NEW f \in Active
             PROVE  feed[f].total <= Budget(Attempts - 1) + Timeout
  BY WholeBudget DEF FetchInTime
<1>1. f \in Feeds /\ feed[f].pc \in {"waiting", "delay"}
  BY DEF Active
<1>2. feed[f].attempt \in 1..Attempts /\ feed[f].waited \in Nat /\ feed[f].total \in Nat
  BY <1>1, AttestAssumption DEF TypeOK, WithinBudget
<1> DEFINE n == feed[f].attempt - 1
<1>3. n \in Nat /\ Attempts - 1 \in Nat /\ n <= Attempts - 1
  BY <1>2, AttestAssumption
<1>4. Budget(n) \in Nat /\ Budget(Attempts - 1) \in Nat /\ Budget(n) <= Budget(Attempts - 1)
  BY <1>3, BudgetStep, BudgetMonotone
<1>5. CASE feed[f].pc = "waiting"
  BY <1>1, <1>2, <1>4, <1>5, AttestAssumption DEF WithinBudget
<1>6. CASE feed[f].pc = "delay"
  <2>1. n + 1 \in Nat /\ n + 1 <= Attempts - 1
    BY <1>1, <1>2, <1>6, AttestAssumption DEF WithinBudget
  <2>2. Budget(n) + Timeout + RetryDelay <= Budget(Attempts - 1)
    BY <1>3, <2>1, BudgetStep, BudgetMonotone
  <2>3. feed[f].total <= Budget(n) + Timeout + feed[f].waited /\ feed[f].waited <= RetryDelay
    BY <1>1, <1>6 DEF WithinBudget
  <2>4. QED
    BY <1>2, <1>4, <2>2, <2>3, AttestAssumption
<1>7. QED
  BY <1>1, <1>5, <1>6

-----------------------------------------------------------------------------
(***************************************************************************)
(* The permits.                                                            *)
(***************************************************************************)
\* JobSlots counts as this module does.
LEMMA SameCardinality == ASSUME NEW S PROVE PermitSlots!Cardinality(S) = Cardinality(S)
  BY DEF Cardinality, PermitSlots!Cardinality

\* What a step does to the permits: they stay conserved, and the futures that
\* hold one change as the abstract semaphore allows, or not at all.
PermitStep ==
    /\ IsFiniteSet(Handling')
    /\ PermitsConserved'
    /\ permits' \in 0..Limit
    /\ [PermitSlots!SlotsNext]_Handling

PermitInv == TypeOK /\ IsFiniteSet(Handling) /\ PermitsConserved

\* A step that neither starts nor ends the handling of a request.
LEMMA KeepsPermits ==
    ASSUME PermitInv, UNCHANGED <<Handling, permits>>
    PROVE  PermitStep
  BY DEF PermitInv, TypeOK, PermitStep, PermitsConserved

\* A connection in another state than "handling" goes to another such state.
LEMMA OtherConnection ==
    ASSUME TypeOK, NEW q \in Requests, NEW s, conn[q] # "handling", s # "handling",
           conn' = [conn EXCEPT ![q] = s]
    PROVE  Handling' = Handling
  BY DEF TypeOK, Handling

\* The permit is taken: one more future is awaited.
LEMMA TakesPermit ==
    ASSUME PermitInv, NEW q \in Requests, conn[q] = "sent", permits > 0,
           conn' = [conn EXCEPT ![q] = "handling"], permits' = permits - 1
    PROVE  PermitStep
<1>1. q \notin Handling /\ Handling' = Handling \cup {q}
  BY DEF PermitInv, TypeOK, Handling
<1>2. Cardinality(Handling) \in Nat
  BY FS_CardinalityType DEF PermitInv
<1>3. IsFiniteSet(Handling') /\ Cardinality(Handling') = Cardinality(Handling) + 1
  BY <1>1, FS_AddElement DEF PermitInv
<1>4. PermitSlots!Acquire(q)
  <2>1. Cardinality(Handling) < Limit
    BY <1>2, AttestAssumption DEF PermitInv, TypeOK, PermitsConserved
  <2>2. QED
    BY <1>1, <2>1, SameCardinality DEF PermitSlots!Acquire
<1>5. PermitSlots!SlotsNext
  BY <1>4 DEF PermitSlots!SlotsNext
<1>6. QED
  BY <1>2, <1>3, <1>5, AttestAssumption DEF PermitInv, TypeOK, PermitStep, PermitsConserved

\* The permit is dropped with the future: one future less is awaited.
LEMMA DropsPermit ==
    ASSUME PermitInv, NEW q \in Requests, conn[q] = "handling", NEW s, s # "handling",
           conn' = [conn EXCEPT ![q] = s], permits' = permits + 1
    PROVE  PermitStep
<1>1. q \in Handling /\ Handling' = Handling \ {q}
  BY DEF PermitInv, TypeOK, Handling
<1>2. Cardinality(Handling) \in Nat
  BY FS_CardinalityType DEF PermitInv
<1>3. /\ IsFiniteSet(Handling')
      /\ Cardinality(Handling') = Cardinality(Handling) - 1
  BY <1>1, FS_RemoveElement DEF PermitInv
<1>4. Cardinality(Handling') \in Nat
  BY <1>3, FS_CardinalityType
<1>5. PermitSlots!SlotsNext
  BY <1>1 DEF PermitSlots!SlotsNext, PermitSlots!Release
<1>6. QED
  BY <1>2, <1>3, <1>4, <1>5, AttestAssumption DEF PermitInv, TypeOK, PermitStep, PermitsConserved

-----------------------------------------------------------------------------
(***************************************************************************)
(* The steps of the price feed.                                            *)
(***************************************************************************)
FeedInv == TypeOK /\ WithinBudget /\ NextIsFresh

\* The inductive invariant is preserved, and the permits are shared as a
\* semaphore.
Step == IInv' /\ [PermitSlots!SlotsNext]_Handling

\* A step that keeps both halves of the invariant.
LEMMA StepOf ==
    ASSUME IInv, FeedInv', PermitStep PROVE Step
  BY DEF FeedInv, PermitStep, Step, IInv

\* POST /attest: a fresh connection, within the budget of one attempt more.
LEMMA PostCorrect ==
    ASSUME IInv, NEW f \in Feeds, Fetch(f) \/ Retry(f)
    PROVE  Step
<1> DEFINE n == feed[f].attempt
<1>1. Post(f) /\ feed[f].pc \in {"idle", "delay"}
  BY DEF Fetch, Retry
<1>2. feed[f] \in [pc : FeedStates, attempt : 0..Attempts, waited : Nat, total : Nat]
  BY DEF IInv, TypeOK
<1>3. n \in Nat /\ n + 1 \in 1..Attempts
  BY <1>1, <1>2, AttestAssumption DEF IInv, WithinBudget
<1>4. <<f, n + 1>> \in Requests /\ conn[<<f, n + 1>>] = "none"
  BY <1>1, <1>3 DEF IInv, NextIsFresh, Requests
<1>5. PermitStep
  BY <1>1, <1>4, OtherConnection, KeepsPermits DEF IInv, PermitInv, Post
<1>6. feed[f].total <= Budget(n)
  <2>1. CASE feed[f].pc = "idle"
    BY <1>2, <1>3, <2>1, BudgetStep DEF IInv, WithinBudget
  <2>2. CASE feed[f].pc = "delay"
    <3>1. n - 1 \in Nat /\ (n - 1) + 1 = n
      BY <1>3, <2>2 DEF IInv, WithinBudget
    <3>2. Budget(n) = Budget(n - 1) + Timeout + RetryDelay /\ Budget(n - 1) \in Nat
      BY <3>1, BudgetStep
    <3>3. feed[f].total <= Budget(n - 1) + Timeout + feed[f].waited /\ feed[f].waited <= RetryDelay
      BY <2>2 DEF IInv, WithinBudget
    <3>4. QED
      BY <1>2, <3>2, <3>3, AttestAssumption
  <2>3. QED
    BY <1>1, <2>1, <2>2
<1>7. TypeOK'
  BY <1>1, <1>2, <1>3, <1>4 DEF IInv, TypeOK, Post, FeedStates, ConnStates
<1>8. feed'[f] = [pc |-> "waiting", attempt |-> n + 1, waited |-> 0, total |-> feed[f].total]
      /\ \A g \in Feeds \ {f} : feed'[g] = feed[g]
  BY <1>1, <1>2 DEF IInv, TypeOK, Post
<1>9. WithinBudget'
  <2>1. SUFFICES ASSUME NEW g \in Feeds PROVE WithinBudget!(g)'
    BY DEF WithinBudget
  <2>2. CASE g # f
    BY <1>8, <2>2 DEF IInv, WithinBudget
  <2>3. CASE g = f
    <3>1. (n + 1) - 1 = n /\ n + 1 >= 1 /\ Budget(n) \in Nat
      BY <1>3, BudgetStep
    <3>2. QED
      BY <1>2, <1>6, <1>8, <2>3, <3>1, AttestAssumption
  <2>4. QED
    BY <2>2, <2>3
<1>10. NextIsFresh'
  BY <1>1, <1>3, <1>4, <1>8 DEF IInv, TypeOK, NextIsFresh, Post, Requests
<1>11. QED
  BY <1>5, <1>7, <1>9, <1>10, StepOf DEF FeedInv

\* An iteration ends: fetch() settles, or waits for its next attempt.
IterationEnds(f) ==
    \/ \E how \in {"attested", "failed", "aborted"} : Settle(f, how)
    \/ feed[f].pc = "waiting" /\ feed[f].attempt < Attempts /\ Delay(f)

\* The client is done with its connection: a response is over, a request that is
\* still with the sidecar is left to it.
ConnectionEnds(f) ==
    \/ UNCHANGED conn
    \/ /\ conn[Current(f)] \in {"200", "4xx", "5xx"}
       /\ conn' = [conn EXCEPT ![Current(f)] = "ended"]

\* The attempt a fetch() is at, or waits after, is one of its requests.
LEMMA CurrentIsRequest ==
    ASSUME IInv, NEW f \in Feeds, feed[f].pc \in {"waiting", "delay"}
    PROVE  /\ feed[f] \in [pc : FeedStates, attempt : 0..Attempts, waited : Nat, total : Nat]
           /\ feed[f].attempt \in 1..Attempts
           /\ Current(f) \in Requests
<1>1. feed[f] \in [pc : FeedStates, attempt : 0..Attempts, waited : Nat, total : Nat]
  BY DEF IInv, TypeOK
<1>2. feed[f].attempt \in 1..Attempts
  BY <1>1, AttestAssumption DEF IInv, WithinBudget
<1>3. QED
  BY <1>1, <1>2 DEF Current, Requests

\* The end of an iteration keeps the invariant and touches no permit: whoever
\* gives up leaves the permit to the future that holds it.
LEMMA IterationEndCorrect ==
    ASSUME IInv, NEW f \in Feeds, feed[f].pc \in {"waiting", "delay"},
           IterationEnds(f), ConnectionEnds(f), UNCHANGED <<running, permits>>
    PROVE  Step
<1> DEFINE n == feed[f].attempt
<1>1. /\ feed[f] \in [pc : FeedStates, attempt : 0..Attempts, waited : Nat, total : Nat]
      /\ n \in 1..Attempts
      /\ Current(f) \in Requests
  BY CurrentIsRequest
<1>2. PermitStep
  <2>1. Handling' = Handling
    BY <1>1, OtherConnection DEF ConnectionEnds, Handling, IInv
  <2>2. QED
    BY <2>1, KeepsPermits DEF IInv, PermitInv
<1>3. conn' \in [Requests -> ConnStates]
      /\ \A q \in Requests : conn[q] = "none" => conn'[q] = "none"
  BY <1>1 DEF IInv, TypeOK, ConnectionEnds, ConnStates
<1>4. \A g \in Feeds \ {f} : feed'[g] = feed[g]
  BY DEF IInv, TypeOK, IterationEnds, Settle, Delay
<1>5. CASE \E how \in {"attested", "failed", "aborted"} : Settle(f, how)
  <2>1. feed' \in [Feeds -> [pc : FeedStates, attempt : 0..Attempts, waited : Nat, total : Nat]]
        /\ feed'[f].pc \in {"attested", "failed", "aborted"}
    BY <1>5, AttestAssumption DEF IInv, TypeOK, Settle, FeedStates
  <2>2. TypeOK'
    BY <1>3, <2>1 DEF IInv, TypeOK
  <2>3. WithinBudget'
    BY <1>4, <2>1 DEF IInv, WithinBudget
  <2>4. NextIsFresh'
    BY <1>3, <1>4, <2>1 DEF IInv, NextIsFresh, Requests
  <2>5. QED
    BY <1>2, <2>2, <2>3, <2>4, StepOf DEF FeedInv
<1>6. CASE feed[f].pc = "waiting" /\ n < Attempts /\ Delay(f)
  <2>1. feed'[f] = [pc |-> "delay", attempt |-> n, waited |-> 0, total |-> feed[f].total]
    BY <1>1, <1>6 DEF IInv, TypeOK, Delay
  <2>2. TypeOK'
    BY <1>1, <1>3, <1>6 DEF IInv, TypeOK, Delay, FeedStates
  <2>3. WithinBudget'
    <3>1. SUFFICES ASSUME NEW g \in Feeds PROVE WithinBudget!(g)'
      BY DEF WithinBudget
    <3>2. CASE g # f
      BY <1>4, <3>2 DEF IInv, WithinBudget
    <3>3. CASE g = f
      <4>1. n - 1 \in Nat /\ Budget(n - 1) \in Nat
        BY <1>1, BudgetStep
      <4>2. feed[f].waited <= Timeout /\ feed[f].total <= Budget(n - 1) + feed[f].waited
        BY <1>6 DEF IInv, WithinBudget
      <4>3. feed[f].total <= Budget(n - 1) + Timeout + 0
        BY <1>1, <4>1, <4>2, AttestAssumption
      <4>4. QED
        BY <1>1, <1>6, <2>1, <3>3, <4>3, AttestAssumption
    <3>4. QED
      BY <3>2, <3>3
  <2>4. NextIsFresh'
    BY <1>3, <1>4, <1>6, <2>1 DEF IInv, NextIsFresh, Requests
  <2>5. QED
    BY <1>2, <2>2, <2>3, <2>4, StepOf DEF FeedInv
<1>7. QED
  BY <1>5, <1>6 DEF IterationEnds

\* Every step of fetch().
LEMMA FeedStepCorrect ==
    ASSUME IInv, NEW f \in Feeds, FeedStep(f)
    PROVE  Step
<1>1. CASE Fetch(f) \/ Retry(f)
  BY <1>1, PostCorrect
<1>2. CASE Receive(f)
  <2>1. IterationEnds(f)
    <3>1. CASE conn[Current(f)] = "200"
      BY <1>2, <3>1 DEF Receive, IterationEnds
    <3>2. CASE conn[Current(f)] = "4xx"
      BY <1>2, <3>2 DEF Receive, IterationEnds
    <3>3. CASE conn[Current(f)] = "5xx"
      BY <1>2, <3>3 DEF Receive, IterationEnds, DelayOrFail
    <3>4. QED
      BY <1>2, <3>1, <3>2, <3>3 DEF Receive
  <2>2. QED
    BY <1>2, <2>1, IterationEndCorrect DEF Receive, ConnectionEnds
<1>3. CASE ConnectionBreaks(f) \/ TimesOut(f)
  <2>1. ConnectionBreaks(f)
    BY <1>3 DEF TimesOut
  <2>2. QED
    BY <2>1, IterationEndCorrect
       DEF ConnectionBreaks, DelayOrFail, IterationEnds, Closed, ConnectionEnds
<1>4. CASE Abort(f)
  BY <1>4, IterationEndCorrect DEF Abort, IterationEnds, Closed, ConnectionEnds
<1>5. QED
  BY <1>1, <1>2, <1>3, <1>4 DEF FeedStep

-----------------------------------------------------------------------------
(***************************************************************************)
(* The steps of the sidecar, and time.                                     *)
(***************************************************************************)
\* The sidecar works on connections that were made, and leaves the feeds alone.
LEMMA ConnectionMoves ==
    ASSUME IInv, NEW q \in Requests, conn[q] # "none", NEW s \in ConnStates,
           conn' = [conn EXCEPT ![q] = s], UNCHANGED feed,
           running' \in SUBSET Requests, PermitStep
    PROVE  Step
<1>1. TypeOK'
  BY DEF IInv, TypeOK, PermitStep
<1>2. WithinBudget'
  BY DEF IInv, WithinBudget
<1>3. NextIsFresh'
  BY DEF IInv, TypeOK, NextIsFresh, Requests
<1>4. QED
  BY <1>1, <1>2, <1>3, StepOf DEF FeedInv

\* Every step of the sidecar: a permit is taken when the blocking task is
\* spawned, and dropped with the response or with the connection.
LEMMA SidecarStepCorrect ==
    ASSUME IInv, NEW q \in Requests, SidecarStep(q)
    PROVE  Step
<1>0. PermitInv /\ running \in SUBSET Requests
  BY DEF IInv, PermitInv, TypeOK
<1>1. CASE HandleAttest(q)
  <2>1. CASE UNCHANGED <<running, permits>> /\ \E s \in {"4xx", "5xx"} : conn' = [conn EXCEPT ![q] = s]
    <3>1. PermitStep
      BY <1>0, <1>1, <2>1, OtherConnection, KeepsPermits DEF PermitInv, HandleAttest
    <3>2. QED
      BY <1>0, <1>1, <2>1, <3>1, ConnectionMoves DEF HandleAttest, ConnStates
  <2>2. CASE /\ permits > 0 /\ permits' = permits - 1
             /\ conn' = [conn EXCEPT ![q] = "handling"] /\ running' = running \cup {q}
    <3>1. PermitStep
      BY <1>0, <1>1, <2>2, TakesPermit DEF HandleAttest
    <3>2. QED
      BY <1>0, <1>1, <2>2, <3>1, ConnectionMoves DEF HandleAttest, ConnStates
  <2>3. QED
    BY <1>1, <2>1, <2>2 DEF HandleAttest
<1>2. CASE JobEnds(q)
  <2>1. PermitStep
    BY <1>0, <1>2, KeepsPermits DEF JobEnds, Handling
  <2>2. FeedInv'
    BY <1>2 DEF IInv, TypeOK, WithinBudget, NextIsFresh, FeedInv, JobEnds
  <2>3. QED
    BY <2>1, <2>2, StepOf
<1>3. CASE Respond(q)
  <2>1. PICK s \in {"200", "5xx"} : conn' = [conn EXCEPT ![q] = s]
    BY <1>3 DEF Respond
  <2>2. PermitStep
    BY <1>0, <1>3, <2>1, DropsPermit DEF Respond
  <2>3. QED
    BY <1>0, <1>3, <2>1, <2>2, ConnectionMoves DEF Respond, ConnStates
<1>4. CASE Drop(q)
  <2>1. PermitStep
    <3>1. CASE conn[q] = "handling"
      BY <1>0, <1>4, <3>1, DropsPermit DEF Drop
    <3>2. CASE conn[q] # "handling"
      BY <1>0, <1>4, <3>2, OtherConnection, KeepsPermits DEF PermitInv, Drop
    <3>3. QED
      BY <3>1, <3>2
  <2>2. QED
    BY <1>0, <1>4, <2>1, ConnectionMoves DEF Drop, ConnStates
<1>5. QED
  BY <1>1, <1>2, <1>3, <1>4 DEF SidecarStep

\* Time passes only while every timer has some left.
LEMMA TickCorrect == ASSUME IInv, Tick PROVE Step
<1>1. PermitStep
  BY KeepsPermits DEF IInv, PermitInv, Tick, Handling
<1> DEFINE Feed == [pc : FeedStates, attempt : 0..Attempts, waited : Nat, total : Nat]
           Later(r) == [r EXCEPT !.waited = @ + 1, !.total = @ + 1]
<1>2. ASSUME NEW r \in Feed
      PROVE  /\ Later(r) \in Feed
             /\ Later(r).pc = r.pc /\ Later(r).attempt = r.attempt
             /\ Later(r).waited = r.waited + 1 /\ Later(r).total = r.total + 1
  <2>1. Later(r) \in Feed
    <3>1. \A a, b \in Nat : [r EXCEPT !.waited = a, !.total = b] \in Feed
      OBVIOUS
    <3>2. r.waited + 1 \in Nat /\ r.total + 1 \in Nat
      OBVIOUS
    <3>3. QED
      BY <3>1, <3>2
  <2>2. Later(r).pc = r.pc /\ Later(r).attempt = r.attempt
    OBVIOUS
  <2>3. Later(r).waited = r.waited + 1 /\ Later(r).total = r.total + 1
    OBVIOUS
  <2>4. QED
    BY <2>1, <2>2, <2>3
<1> HIDE DEF Later
<1>3. \A f \in Feeds : feed[f] \in Feed /\ feed'[f] = IF f \in Active THEN Later(feed[f]) ELSE feed[f]
  <2>1. feed' = [f \in Feeds |-> IF f \in Active THEN Later(feed[f]) ELSE feed[f]]
    BY DEF Tick, Later
  <2>2. QED
    BY <2>1 DEF IInv, TypeOK
<1> HIDE DEF Feed
<1>4. TypeOK'
  <2>1. feed' \in [Feeds -> Feed]
    BY <1>2, <1>3 DEF Tick
  <2>2. QED
    BY <2>1 DEF IInv, TypeOK, Tick, Feed
<1>5. WithinBudget'
  <2>1. SUFFICES ASSUME NEW f \in Feeds PROVE WithinBudget!(f)'
    BY DEF WithinBudget
  <2>2. CASE f \notin Active
    BY <1>3, <2>2 DEF IInv, WithinBudget
  <2>3. CASE f \in Active
    <3>1. feed[f].pc \in {"waiting", "delay"}
      BY <2>3 DEF Active
    <3>2. feed[f].attempt - 1 \in Nat /\ Budget(feed[f].attempt - 1) \in Nat
      BY <3>1, CurrentIsRequest, BudgetStep
    <3>3. feed[f].waited < IF feed[f].pc = "waiting" THEN Timeout ELSE RetryDelay
      BY <2>3 DEF Tick
    <3>4. /\ feed'[f].pc = feed[f].pc /\ feed'[f].attempt = feed[f].attempt
          /\ feed'[f].waited = feed[f].waited + 1 /\ feed'[f].total = feed[f].total + 1
      BY <1>2, <1>3, <2>3
    <3>5. WithinBudget!(f)
      BY DEF IInv, WithinBudget
    <3>6. feed[f].attempt \in 1..Attempts /\ feed[f].waited \in Nat /\ feed[f].total \in Nat
      BY <3>1, CurrentIsRequest
    <3>7. CASE feed[f].pc = "waiting"
      BY <3>2, <3>3, <3>4, <3>5, <3>6, <3>7, AttestAssumption
    <3>8. CASE feed[f].pc = "delay"
      BY <3>2, <3>3, <3>4, <3>5, <3>6, <3>8, AttestAssumption
    <3>9. QED
      BY <3>1, <3>7, <3>8
  <2>4. QED
    BY <2>2, <2>3
<1>6. NextIsFresh'
  <2>1. \A f \in Feeds : feed'[f].pc = feed[f].pc /\ feed'[f].attempt = feed[f].attempt
    BY <1>2, <1>3
  <2>2. UNCHANGED conn
    BY DEF Tick
  <2>3. QED
    BY <2>1, <2>2 DEF IInv, NextIsFresh
<1>7. QED
  BY <1>1, <1>4, <1>5, <1>6, StepOf DEF FeedInv

-----------------------------------------------------------------------------
\* At first no request is handled and every permit is free.
LEMMA InitCorrect == ASSUME Init PROVE IInv /\ PermitSlots!SlotsInit
<1>1. Handling = {}
  BY DEF Init, Handling
<1>2. IsFiniteSet(Handling) /\ Cardinality(Handling) = 0
  BY <1>1, FS_EmptySet
<1>3. TypeOK
  BY AttestAssumption DEF Init, TypeOK, FeedStates, ConnStates
<1>4. WithinBudget /\ NextIsFresh
  BY DEF Init, WithinBudget, NextIsFresh, Requests
<1>5. QED
  BY <1>1, <1>2, <1>3, <1>4, AttestAssumption
     DEF Init, IInv, PermitsConserved, PermitSlots!SlotsInit

\* Every step keeps the inductive invariant and is one of the semaphore or none.
LEMMA NextCorrect == IInv /\ [Next]_vars => Step
<1> SUFFICES ASSUME IInv, [Next]_vars PROVE Step
  OBVIOUS
<1>1. CASE Next
  BY <1>1, FeedStepCorrect, SidecarStepCorrect, TickCorrect DEF Next
<1>2. CASE UNCHANGED vars
  <2>1. PermitStep
    BY <1>2, KeepsPermits DEF vars, IInv, PermitInv, Handling
  <2>2. FeedInv'
    BY <1>2 DEF vars, IInv, TypeOK, WithinBudget, NextIsFresh, FeedInv
  <2>3. QED
    BY <2>1, <2>2, StepOf
<1>3. QED
  BY <1>1, <1>2

\* The inductive invariant of a price attestation, from POST /attest with its
\* timeout and retries (pricefeed.ts:83-126) to the sidecar's handler
\* (sidecars/tlsn/src/main.rs:425-458).
THEOREM AttestInvariant == Spec => []IInv
<1>1. Init => IInv
  BY InitCorrect
<1>2. IInv /\ [Next]_vars => IInv'
  BY NextCorrect DEF Step
<1>3. QED
  BY <1>1, <1>2, PTL DEF Spec

\* The variables keep their types; an attempt above `attempts` is never made.
THEOREM AttestTypes == Spec => []TypeOK
<1>1. IInv => TypeOK
  BY DEF IInv
<1>2. QED
  BY <1>1, AttestInvariant, PTL

\* No permit is lost with a connection that breaks or times out, and none is
\* returned twice.
THEOREM PermitsAreConserved == Spec => []PermitsConserved
<1>1. IInv => PermitsConserved
  BY DEF IInv
<1>2. QED
  BY <1>1, AttestInvariant, PTL

\* fetch() never takes longer than its attempts and the delays between them,
\* whatever the sidecar does (pricefeed.ts:86-120).
THEOREM FetchStaysInTime == Spec => []FetchInTime
<1>1. IInv => FetchInTime
  BY BudgetSuffices DEF IInv
<1>2. QED
  BY <1>1, AttestInvariant, PTL

\* The futures that hold a permit implement the semaphore of
\* MAX_CONCURRENT_ATTESTATIONS slots (main.rs:430-435).
THEOREM PermitsRefinement == Spec => ImplementsJobSlots
<1>1. Init => PermitSlots!SlotsInit
  BY InitCorrect
<1>2. IInv /\ [Next]_vars => [PermitSlots!SlotsNext]_Handling
  BY NextCorrect DEF Step
<1>3. QED
  BY <1>1, <1>2, AttestInvariant, PTL DEF Spec, ImplementsJobSlots, PermitSlots!SlotsSpec

=============================================================================
