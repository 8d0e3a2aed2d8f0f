------------------------- MODULE ProverWorkerProofs -------------------------
(***************************************************************************)
(* The queue in front of the prover's worker thread neither loses nor      *)
(* repeats a request, serves them in order, keeps one worker, never stands *)
(* still and never hands out somebody else's proof, for every number of    *)
(* requests.                                                               *)
(***************************************************************************)
EXTENDS ProverWorker, SequenceTheorems, TLAPS

\* The events with which a thread ends, and those the handlers act on.
Deaths == {"error", "exit", "cleanExit"}
Failures == {"error", "exit"}

(***************************************************************************)
(* The parts of the inductive invariant take the state as parameters, so   *)
(* that they can be stated of the intermediate state a handler passes to   *)
(* pumpWorker().                                                           *)
(***************************************************************************)
\* The requests that wait or are active are the pending ones, in the order of
\* their ids; a worker has been started for ids before them only, which is why
\* there are never more workers than requests.
QueueInv(queue, act, settled, next, begun) ==
    /\ queue \in Seq(Requests)
    /\ act \in Requests \cup {None}
    /\ settled \in [Requests -> PromiseStates]
    /\ begun < next
    /\ \A r \in Requests : settled[r] = "pending" <=> r = act \/ \E i \in 1..Len(queue) : queue[i] = r
    /\ \A i, j \in 1..Len(queue) : i < j => queue[i] < queue[j]
    /\ \A i \in 1..Len(queue) : begun < queue[i] /\ queue[i] < next /\ act < queue[i]
    /\ act # None => begun <= act /\ act < next

\* Only the current worker is up, and it is not being terminated; a thread that
\* has emitted its last event is dead, and those not started are unborn.
WorkerInv(wkr, begun, threads, evs) ==
    /\ begun \in 0..MaxRequests
    /\ wkr \in 0..begun
    /\ threads \in [Workers -> ThreadStates]
    /\ evs \in [Workers -> Seq(Events)]
    /\ \A w \in Workers : threads[w] = "up" => w = wkr
    /\ \A w \in Workers : w > begun => threads[w] = "unborn"
    /\ wkr # None => threads[wkr] \in {"up", "dead"}
    /\ \A w \in Workers : \A i \in 1..Len(evs[w]) :
           evs[w][i].kind \in Deaths => threads[w] = "dead"

\* A worker that is dead and still the current one has a failure under way or
\* has left with code 0; an active request is owed an answer by the current
\* worker, or its answer or its worker's failure is under way.
ServiceInv(act, wkr, threads, evs, inb) ==
    /\ inb \in [Workers -> SUBSET Requests]
    /\ wkr # None /\ threads[wkr] = "dead" =>
           CleanExits \/ \E i \in 1..Len(evs[wkr]) : evs[wkr][i].kind \in Failures
    /\ act # None =>
           /\ wkr # None
           /\ \/ act \in inb[wkr]
              \/ \E i \in 1..Len(evs[wkr]) : evs[wkr][i].kind \in Failures \/ evs[wkr][i].id = act
              \/ CleanExits /\ threads[wkr] = "dead"

\* With no request active and no termination to come, only requests wait whose
\* callers no longer do.
OnlyRejectedWait(queue, act, refused, after) ==
    act = None => after # {} \/ \A i \in 1..Len(queue) : queue[i] \in refused

IInv ==
    /\ nextRequestId \in 1..(MaxRequests + 1)
    /\ proofOf \in [Requests -> Requests \cup {None}]
    /\ pumpAfter \in SUBSET Workers
    /\ rejected \in SUBSET Requests
    /\ OwnProofOnly
    /\ QueueInv(queued, active, promise, nextRequestId, started)
    /\ WorkerInv(worker, started, thread, events)
    /\ ServiceInv(active, worker, thread, events, inbox)
    /\ OnlyRejectedWait(queued, active, rejected, pumpAfter)

-----------------------------------------------------------------------------
(***************************************************************************)
(* pumpWorker().                                                           *)
(***************************************************************************)
\* What pumpWorker() leaves behind: the invariant, and nobody waiting for an
\* idle worker.
Pumped(next, evs) ==
    /\ QueueInv(queued', active', promise', next, started')
    /\ WorkerInv(worker', started', thread', evs)
    /\ ServiceInv(active', worker', thread', evs, inbox')
    /\ active' = None => queued' = <<>>

\* A queue without its first k entries.
LEMMA SuffixProperties ==
    ASSUME NEW S, NEW queue \in Seq(S), NEW k \in 0..Len(queue)
    PROVE  LET rest == SubSeq(queue, k + 1, Len(queue)) IN
           /\ rest \in Seq(S)
           /\ Len(rest) = Len(queue) - k
           /\ \A i \in 1..(Len(queue) - k) : rest[i] = queue[k + i]
           /\ rest = <<>> <=> k = Len(queue)
<1> DEFINE rest == SubSeq(queue, k + 1, Len(queue))
<1>1. Len(queue) \in Nat
  BY LenProperties
<1>2. \A i \in (k + 1)..Len(queue) : queue[i] \in S
  BY <1>1, ElementOfSeq
<1>3. /\ rest \in Seq(S) /\ Len(rest) = Len(queue) - k
      /\ \A i \in 1..(Len(queue) - k) : rest[i] = queue[k + i]
  <2>1. /\ rest \in Seq(S)
        /\ Len(rest) = IF k + 1 <= Len(queue) THEN Len(queue) - (k + 1) + 1 ELSE 0
        /\ \A i \in 1..(Len(queue) - (k + 1) + 1) : rest[i] = queue[(k + 1) + i - 1]
    BY <1>1, <1>2, SubSeqProperties
  <2> HIDE DEF rest
  <2>2. QED
    BY <1>1, <2>1
<1>4. rest = <<>> <=> k = Len(queue)
  <2>1. ASSUME rest = <<>> PROVE k = Len(queue)
    <3>1. Len(rest) = 0
      BY <2>1, EmptySeq
    <3> HIDE DEF rest
    <3>2. QED
      BY <1>1, <1>3, <3>1
  <2>2. k = Len(queue) => rest = <<>>
    BY <1>1, SubSeqEmpty
  <2>3. QED
    BY <2>1, <2>2
<1>5. QED
  BY <1>3, <1>4

\* What shift() leaves of a queue.
LEMMA ShiftProperties ==
    ASSUME NEW S, NEW queue \in Seq(S), queue # <<>>
    PROVE  /\ Head(queue) = queue[1] /\ Head(queue) \in S
           /\ Tail(queue) \in Seq(S)
           /\ Len(queue) \in Nat \ {0}
           /\ Len(Tail(queue)) = Len(queue) - 1
           /\ \A i \in 1..(Len(queue) - 1) : Tail(queue)[i] = queue[i + 1]
  BY HeadTailProperties, EmptySeq

\* pumpWorker() with a request active, or nobody waiting, does nothing.
LEMMA PumpIdle ==
    ASSUME NEW queue, NEW act, NEW wkr, NEW settled, NEW threads, NEW next, NEW evs,
           QueueInv(queue, act, settled, next, started),
           WorkerInv(wkr, started, threads, evs),
           ServiceInv(act, wkr, threads, evs, inbox),
           Pump(queue, act, wkr, settled, threads),
           act # None \/ queue = <<>>
    PROVE  Pumped(next, evs)
<1>1. /\ queued' = queue /\ active' = act /\ worker' = wkr
      /\ promise' = settled /\ thread' = threads
      /\ started' = started /\ inbox' = inbox
  BY DEF Pump
<1>2. QED
  BY <1>1 DEF Pumped

\* pumpWorker() with requests waiting: those whose postMessage throws are
\* rejected, the next one is active on the current worker or on a new one.
LEMMA PumpPosts ==
    ASSUME NEW queue, NEW wkr, NEW settled, NEW threads, NEW next \in Nat, NEW evs,
           QueueInv(queue, None, settled, next, started),
           WorkerInv(wkr, started, threads, evs),
           ServiceInv(None, wkr, threads, evs, inbox),
           Pump(queue, None, wkr, settled, threads),
           queue # <<>>
    PROVE  Pumped(next, evs)
<1> DEFINE fresh == wkr = None
           target == IF fresh THEN started + 1 ELSE wkr
<1>1. PICK failing \in 0..(IF PostMayFail THEN Len(queue) ELSE 0) :
        LET rest == SubSeq(queue, failing + 1, Len(queue))
            up == fresh \/ threads[target] = "up"
        IN /\ started' = IF fresh THEN started + 1 ELSE started
           /\ worker' = target
           /\ thread' = IF fresh THEN [threads EXCEPT ![target] = "up"] ELSE threads
           /\ promise' = [r \in Requests |->
                           IF r \in Range(SubSeq(queue, 1, failing)) THEN "failed" ELSE settled[r]]
           /\ active' = IF rest = <<>> THEN None ELSE Head(rest)
           /\ queued' = IF rest = <<>> THEN <<>> ELSE Tail(rest)
           /\ inbox' = IF rest # <<>> /\ up
                       THEN [inbox EXCEPT ![target] = @ \cup {Head(rest)}]
                       ELSE inbox
  BY DEF Pump
<1> DEFINE rest == SubSeq(queue, failing + 1, Len(queue))
<1>2. queue \in Seq(Requests) /\ Len(queue) \in Nat /\ 1 <= Len(queue)
  BY EmptySeq DEF QueueInv
<1>3. failing \in 0..Len(queue)
  BY <1>2
<1>4. /\ rest \in Seq(Requests)
      /\ Len(rest) = Len(queue) - failing
      /\ \A i \in 1..(Len(queue) - failing) : rest[i] = queue[failing + i]
      /\ rest = <<>> <=> failing = Len(queue)
  BY <1>2, <1>3, SuffixProperties
<1>5. \A i \in 1..Len(queue) : queue[i] \in Requests
  BY <1>2, ElementOfSeq
<1>6. Range(SubSeq(queue, 1, failing)) = {queue[i] : i \in 1..failing}
  <2> DEFINE prefix == SubSeq(queue, 1, failing)
  <2>1. /\ prefix \in Seq(Requests)
        /\ Len(prefix) = IF 1 <= failing THEN failing - 1 + 1 ELSE 0
        /\ \A i \in 1..(failing - 1 + 1) : prefix[i] = queue[1 + i - 1]
    BY <1>2, <1>3, <1>5, SubSeqProperties
  <2>2. Range(prefix) = {prefix[i] : i \in 1..Len(prefix)}
    BY <2>1, RangeEquality
  <2> HIDE DEF prefix
  <2>3. Len(prefix) = failing /\ \A i \in 1..failing : prefix[i] = queue[i]
    BY <1>2, <1>3, <2>1
  <2>4. Range(prefix) = {queue[i] : i \in 1..failing}
    BY <2>2, <2>3
  <2>5. QED
    BY <2>4 DEF prefix
<1> HIDE DEF rest
<1>7. started \in Nat /\ wkr \in 0..started /\ started <= MaxRequests /\ MaxRequests \in Nat
  BY ProverWorkerAssumption DEF WorkerInv
<1>8. started < queue[1] /\ queue[1] \in Requests /\ queue[1] < next
  BY <1>2, <1>5 DEF QueueInv
<1>9. /\ started' \in Nat /\ started <= started' /\ started' <= queue[1]
      /\ target \in Workers /\ target <= started' /\ worker' = target
  BY <1>1, <1>7, <1>8 DEF Requests, Workers, None
<1>10. promise' = [r \in Requests |-> IF \E i \in 1..failing : queue[i] = r THEN "failed" ELSE settled[r]]
  BY <1>1, <1>6
<1>11. /\ rest = <<>> => active' = None /\ queued' = <<>> /\ inbox' = inbox
       /\ rest # <<>> => active' = Head(rest) /\ queued' = Tail(rest)
       /\ rest # <<>> /\ (fresh \/ threads[target] = "up") =>
             inbox' = [inbox EXCEPT ![target] = @ \cup {Head(rest)}]
       /\ rest # <<>> /\ ~(fresh \/ threads[target] = "up") => inbox' = inbox
  BY <1>1 DEF rest
<1>12. rest # <<>> =>
         /\ failing + 1 \in 1..Len(queue)
         /\ active' = queue[failing + 1]
         /\ queued' \in Seq(Requests)
         /\ Len(queued') = Len(queue) - failing - 1
         /\ \A i \in 1..(Len(queue) - failing - 1) : queued'[i] = queue[failing + 1 + i]
  <2> HAVE rest # <<>>
  <2>1. /\ Head(rest) = rest[1]
        /\ Tail(rest) \in Seq(Requests)
        /\ Len(Tail(rest)) = Len(rest) - 1
        /\ \A i \in 1..(Len(rest) - 1) : Tail(rest)[i] = rest[i + 1]
    BY <1>4, ShiftProperties
  <2>2. failing + 1 \in 1..Len(queue)
    BY <1>2, <1>3, <1>4
  <2>3. Head(rest) = queue[failing + 1]
    BY <1>2, <1>3, <1>4, <2>1, <2>2
  <2>4. \A i \in 1..(Len(queue) - failing - 1) : Tail(rest)[i] = queue[failing + 1 + i]
    BY <1>2, <1>3, <1>4, <2>1
  <2>5. QED
    BY <1>2, <1>3, <1>4, <1>11, <2>1, <2>2, <2>3, <2>4
<1>13. QueueInv(queued', active', promise', next, started')
  <2>1. promise' \in [Requests -> PromiseStates]
    BY <1>10 DEF QueueInv, PromiseStates
  <2>2. started' < next
    BY <1>5, <1>8, <1>9 DEF Requests
  <2>3. /\ \A i, j \in 1..Len(queue) : i < j => queue[i] < queue[j]
        /\ \A i \in 1..Len(queue) : queue[i] < next
        /\ \A r \in Requests : settled[r] = "pending" <=> \E i \in 1..Len(queue) : queue[i] = r
    BY DEF QueueInv, Requests, None
  <2>4. \A i \in 1..Len(queue) : i > 1 => started' < queue[i]
    BY <1>2, <1>5, <1>8, <1>9, <2>3 DEF Requests
  <2>5. CASE rest = <<>>
    <3>1. active' = None /\ queued' = <<>> /\ failing = Len(queue)
      BY <1>4, <1>11, <2>5
    <3>2. \A r \in Requests : promise'[r] # "pending"
      BY <1>10, <2>3, <3>1
    <3>3. queued' \in Seq(Requests) /\ Len(queued') = 0
      BY <3>1, EmptySeq
    <3>4. QED
      BY <2>1, <2>2, <3>1, <3>2, <3>3 DEF QueueInv, Requests, None
  <2>6. CASE rest # <<>>
    <3> DEFINE k == failing + 1
    <3>1. /\ k \in 1..Len(queue) /\ active' = queue[k] /\ queued' \in Seq(Requests)
          /\ Len(queued') = Len(queue) - k
          /\ \A i \in 1..(Len(queue) - k) : queued'[i] = queue[k + i]
      BY <1>2, <1>3, <1>12, <2>6
    <3>2. \A r \in Requests : promise'[r] = "pending" <=> \E i \in k..Len(queue) : queue[i] = r
      <4>1. SUFFICES ASSUME NEW r \in Requests
                     PROVE  promise'[r] = "pending" <=> \E i \in k..Len(queue) : queue[i] = r
        OBVIOUS
      <4>2. CASE \E i \in 1..failing : queue[i] = r
        <5>1. promise'[r] = "failed"
          BY <1>10, <4>2
        <5>2. \A j \in k..Len(queue) : queue[j] # r
          BY <1>2, <1>3, <1>5, <2>3, <4>2 DEF Requests
        <5>3. QED
          BY <5>1, <5>2
      <4>3. CASE ~\E i \in 1..failing : queue[i] = r
        <5>1. promise'[r] = settled[r]
          BY <1>10, <4>3
        <5>2. (\E i \in 1..Len(queue) : queue[i] = r) <=> \E i \in k..Len(queue) : queue[i] = r
          BY <1>2, <1>3, <4>3
        <5>3. QED
          BY <2>3, <5>1, <5>2
      <4>4. QED
        BY <4>2, <4>3
    <3>3. \A r \in Requests :
            promise'[r] = "pending" <=> r = active' \/ \E i \in 1..Len(queued') : queued'[i] = r
      <4>1. SUFFICES ASSUME NEW r \in Requests
                     PROVE  promise'[r] = "pending"
                            <=> r = active' \/ \E i \in 1..Len(queued') : queued'[i] = r
        OBVIOUS
      <4> HIDE DEF k
      <4>2. k \in Nat /\ 1 <= k /\ k <= Len(queue)
        BY <1>2, <3>1
      <4>3. \A i \in k..Len(queue) : i = k \/ (i - k \in 1..(Len(queue) - k) /\ k + (i - k) = i)
        BY <1>2, <4>2
      <4>4. \A i \in 1..(Len(queue) - k) : k + i \in k..Len(queue)
        BY <1>2, <4>2
      <4>5. (\E i \in k..Len(queue) : queue[i] = r)
            <=> r = queue[k] \/ \E i \in 1..(Len(queue) - k) : queue[k + i] = r
        <5>1. ASSUME NEW i \in k..Len(queue), queue[i] = r, i # k
              PROVE  \E j \in 1..(Len(queue) - k) : queue[k + j] = r
          <6>1. i - k \in 1..(Len(queue) - k) /\ queue[k + (i - k)] = r
            BY <4>3, <5>1
          <6>2. QED
            BY <6>1
        <5>2. k \in k..Len(queue)
          BY <1>2, <4>2
        <5>3. QED
          BY <4>4, <5>1, <5>2
      <4>6. (\E i \in 1..Len(queued') : queued'[i] = r)
            <=> \E i \in 1..(Len(queue) - k) : queue[k + i] = r
        BY <3>1
      <4>7. QED
        BY <3>1, <3>2, <4>5, <4>6
    <3>4. \A i \in 1..(Len(queue) - k) : k + i \in 1..Len(queue) /\ k + i > 1 /\ k < k + i
      BY <1>2, <3>1
    <3>5. \A i, j \in 1..Len(queued') : i < j => queued'[i] < queued'[j]
      BY <1>2, <2>3, <3>1, <3>4
    <3>6. \A i \in 1..Len(queued') :
             started' < queued'[i] /\ queued'[i] < next /\ active' < queued'[i]
      BY <1>2, <2>3, <2>4, <3>1, <3>4
    <3>7. active' \in Requests /\ started' <= active' /\ active' < next
      <4>1. CASE k = 1
        BY <1>5, <1>8, <1>9, <3>1, <4>1
      <4>2. CASE k > 1
        BY <1>5, <1>9, <2>3, <2>4, <3>1, <4>2 DEF Requests
      <4>3. QED
        BY <3>1, <4>1, <4>2
    <3>8. QED
      BY <2>1, <2>2, <3>1, <3>3, <3>5, <3>6, <3>7 DEF QueueInv
  <2>7. QED
    BY <2>5, <2>6
<1>14. WorkerInv(worker', started', thread', evs)
  <2>1. CASE fresh
    <3>1. /\ started' = started + 1 /\ worker' = started + 1 /\ started + 1 \in Workers
          /\ thread' = [threads EXCEPT ![started + 1] = "up"]
      BY <1>1, <1>9, <2>1
    <3>2. threads[started + 1] = "unborn" /\ \A w \in Workers : threads[w] # "up"
      BY <1>7, <2>1, <3>1 DEF WorkerInv, Workers, None
    <3>3. QED
      BY <1>7, <1>9, <3>1, <3>2 DEF WorkerInv, Workers, ThreadStates, None
  <2>2. CASE ~fresh
    BY <1>1, <2>2
  <2>3. QED
    BY <2>1, <2>2
<1>15. ServiceInv(active', worker', thread', evs, inbox')
  <2>1. inbox' \in [Workers -> SUBSET Requests]
    <3>1. rest # <<>> => Head(rest) \in Requests
      BY <1>5, <1>11, <1>12
    <3>2. inbox \in [Workers -> SUBSET Requests]
      BY DEF ServiceInv
    <3>3. QED
      BY <1>9, <1>11, <3>1, <3>2
  <2>2. thread'[worker'] = "dead" =>
           CleanExits \/ \E i \in 1..Len(evs[worker']) : evs[worker'][i].kind \in Failures
    <3>1. CASE fresh
      BY <1>1, <1>9, <3>1 DEF WorkerInv
    <3>2. CASE ~fresh
      BY <1>1, <3>2 DEF ServiceInv
    <3>3. QED
      BY <3>1, <3>2
  <2>3. worker' # None
    BY <1>9 DEF Workers, None
  <2>4. active' # None =>
           \/ active' \in inbox'[worker']
           \/ \E i \in 1..Len(evs[worker']) : evs[worker'][i].kind \in Failures \/ evs[worker'][i].id = active'
           \/ CleanExits /\ thread'[worker'] = "dead"
    <3>1. SUFFICES ASSUME rest # <<>> PROVE <2>4!2
      BY <1>11
    <3>2. CASE fresh \/ threads[target] = "up"
      BY <1>9, <1>11, <3>1, <3>2 DEF ServiceInv
    <3>3. CASE ~(fresh \/ threads[target] = "up")
      <4>1. thread'[worker'] = "dead"
        BY <1>1, <3>3 DEF WorkerInv
      <4>2. QED
        BY <2>2, <4>1
    <3>4. QED
      BY <3>2, <3>3
  <2>5. QED
    BY <2>1, <2>2, <2>3, <2>4 DEF ServiceInv
<1>16. active' = None => queued' = <<>>
  BY <1>5, <1>11, <1>12 DEF Requests, None
<1>17. QED
  BY <1>13, <1>14, <1>15, <1>16 DEF Pumped

\* pumpWorker() keeps the invariant from every state a handler leaves it in.
LEMMA PumpCorrect ==
    ASSUME NEW queue, NEW act, NEW wkr, NEW settled, NEW threads, NEW next \in Nat, NEW evs,
           QueueInv(queue, act, settled, next, started),
           WorkerInv(wkr, started, threads, evs),
           ServiceInv(act, wkr, threads, evs, inbox),
           Pump(queue, act, wkr, settled, threads)
    PROVE  Pumped(next, evs)
  BY PumpIdle, PumpPosts

\* A handler that ends with pumpWorker() keeps the inductive invariant.
LEMMA PumpedStep ==
    ASSUME Pumped(nextRequestId', events'),
           nextRequestId' \in 1..(MaxRequests + 1),
           proofOf' \in [Requests -> Requests \cup {None}], OwnProofOnly',
           pumpAfter' \in SUBSET Workers, rejected' \in SUBSET Requests
    PROVE  IInv'
<1>1. active' = None => 1..Len(queued') = {}
  BY EmptySeq DEF Pumped
<1>2. QED
  BY <1>1 DEF Pumped, IInv, OnlyRejectedWait

-----------------------------------------------------------------------------
(***************************************************************************)
(* Calls, aborts and close.                                                *)
(***************************************************************************)
\* A request that is called joins the queue at its end, as pending.
LEMMA JoinsTheQueue ==
    ASSUME IInv, nextRequestId \in Requests
    PROVE  QueueInv(Append(queued, nextRequestId), active, Settle({nextRequestId}, "pending"),
                    nextRequestId + 1, started)
<1> DEFINE n == nextRequestId
           queue == Append(queued, n)
           settled == Settle({n}, "pending")
<1>1. n \in Requests /\ n \in Nat
  BY DEF Requests
<1>2. QueueInv(queued, active, promise, n, started) /\ started \in Nat
  BY DEF IInv, WorkerInv
<1>3. /\ queued \in Seq(Requests) /\ Len(queued) \in Nat
      /\ \A i \in 1..Len(queued) : queued[i] \in Requests
  BY <1>2, LenProperties, ElementOfSeq DEF QueueInv
<1>4. /\ queue \in Seq(Requests) /\ Len(queue) = Len(queued) + 1
      /\ \A i \in 1..Len(queued) : queue[i] = queued[i]
      /\ queue[Len(queued) + 1] = n
  BY <1>1, <1>3, AppendProperties
<1>5. settled = [r \in Requests |-> IF r = n THEN "pending" ELSE promise[r]]
  BY DEF Settle
<1> HIDE DEF queue, settled
<1>6. settled \in [Requests -> PromiseStates]
  BY <1>2, <1>5 DEF QueueInv, PromiseStates
<1>7. \A i \in 1..Len(queue) : i \in 1..Len(queued) \/ i = Len(queued) + 1
  BY <1>3, <1>4
<1>8. active \in Nat /\ active < n
  BY <1>1, <1>2 DEF QueueInv, Requests, None
<1>9. \A i \in 1..Len(queue) : started < queue[i] /\ queue[i] < n + 1 /\ active < queue[i]
  BY <1>1, <1>2, <1>3, <1>4, <1>7, <1>8 DEF QueueInv, Requests
<1>10. \A i, j \in 1..Len(queue) : i < j => queue[i] < queue[j]
  BY <1>1, <1>2, <1>3, <1>4, <1>7 DEF QueueInv, Requests
<1>11. \A r \in Requests : settled[r] = "pending" <=> r = active \/ \E i \in 1..Len(queue) : queue[i] = r
  <2>1. SUFFICES ASSUME NEW r \in Requests
                 PROVE  settled[r] = "pending" <=> r = active \/ \E i \in 1..Len(queue) : queue[i] = r
    OBVIOUS
  <2>2. CASE r = n
    BY <1>3, <1>4, <1>5, <2>2
  <2>3. CASE r # n
    <3>1. (\E i \in 1..Len(queue) : queue[i] = r) <=> \E i \in 1..Len(queued) : queued[i] = r
      BY <1>3, <1>4, <1>7, <2>3
    <3>2. QED
      BY <1>2, <1>5, <2>3, <3>1 DEF QueueInv
  <2>4. QED
    BY <2>2, <2>3
<1>12. active \in Requests \cup {None} /\ started < n + 1
  BY <1>1, <1>2 DEF QueueInv
<1>13. active # None => started <= active /\ active < n + 1
  BY <1>1, <1>2, <1>8 DEF QueueInv
<1>14. QueueInv(queue, active, settled, n + 1, started)
  BY <1>4, <1>6, <1>9, <1>10, <1>11, <1>12, <1>13 DEF QueueInv
<1>15. QED
  BY <1>14 DEF queue, settled

\* proveInWorker(): the request joins the queue, which is pumped.
LEMMA ProveInWorkerCorrect == ASSUME IInv, ProveInWorker PROVE IInv'
<1> DEFINE n == nextRequestId
           queue == Append(queued, n)
           settled == Settle({n}, "pending")
<1>1. /\ n \in Requests /\ n + 1 \in 1..(MaxRequests + 1)
      /\ nextRequestId' = n + 1 /\ n + 1 \in Nat
      /\ UNCHANGED <<rejected, proofOf, events, pumpAfter>>
      /\ Pump(queue, active, worker, settled, thread)
  BY ProverWorkerAssumption DEF ProveInWorker, Requests
<1>2. QueueInv(queue, active, settled, n + 1, started)
  BY <1>1, JoinsTheQueue
<1>3. Pumped(n + 1, events)
  <2> HIDE DEF n, queue, settled
  <2>1. QED
    BY <1>1, <1>2, PumpCorrect DEF IInv
<1>4. QED
  BY <1>1, <1>3, PumpedStep DEF IInv, OwnProofOnly

\* A call that could not start a worker leaves its request in the queue, where
\* it waits with others like it or for a termination.
LEMMA ProveInWorkerThrowsCorrect == ASSUME IInv, ProveInWorkerThrows PROVE IInv'
<1>1. /\ nextRequestId \in Requests /\ nextRequestId + 1 \in 1..(MaxRequests + 1)
      /\ nextRequestId' = nextRequestId + 1
      /\ queued' = Append(queued, nextRequestId)
      /\ promise' = Settle({nextRequestId}, "pending")
      /\ rejected' = rejected \cup {nextRequestId}
      /\ active = None
      /\ UNCHANGED <<active, worker, started, proofOf, thread, inbox, events, pumpAfter>>
  BY ProverWorkerAssumption DEF ProveInWorkerThrows, Requests
<1>2. QueueInv(queued', active', promise', nextRequestId', started')
  BY <1>1, JoinsTheQueue
<1>3. OnlyRejectedWait(queued', active', rejected', pumpAfter')
  <2>1. queued \in Seq(Requests) /\ Len(queued) \in Nat
    BY LenProperties DEF IInv, QueueInv
  <2>2. /\ Len(queued') = Len(queued) + 1
        /\ \A i \in 1..Len(queued) : queued'[i] = queued[i]
        /\ queued'[Len(queued) + 1] = nextRequestId
    BY <1>1, <2>1, AppendProperties
  <2>3. \A i \in 1..Len(queued') : i \in 1..Len(queued) \/ i = Len(queued) + 1
    BY <2>1, <2>2
  <2>4. pumpAfter # {} \/ \A i \in 1..Len(queued) : queued[i] \in rejected
    BY <1>1 DEF IInv, OnlyRejectedWait
  <2>5. QED
    BY <1>1, <2>2, <2>3, <2>4 DEF OnlyRejectedWait
<1>4. rejected' \in SUBSET Requests
  BY <1>1 DEF IInv
<1>5. WorkerInv(worker', started', thread', events') /\ ServiceInv(active', worker', thread', events', inbox')
  BY <1>1 DEF IInv
<1>6. QED
  BY <1>1, <1>2, <1>3, <1>4, <1>5 DEF IInv, OwnProofOnly

\* A queue without the entry at k.
LEMMA RemoveAtProperties ==
    ASSUME NEW S, NEW queue \in Seq(S), NEW k \in 1..Len(queue)
    PROVE  /\ RemoveAt(queue, k) \in Seq(S)
           /\ Len(RemoveAt(queue, k)) = Len(queue) - 1
           /\ \A i \in 1..(Len(queue) - 1) :
                  RemoveAt(queue, k)[i] = IF i < k THEN queue[i] ELSE queue[i + 1]
<1> DEFINE front == SubSeq(queue, 1, k - 1)
           back == SubSeq(queue, k + 1, Len(queue))
<1>1. Len(queue) \in Nat /\ k \in Nat /\ 1 <= k /\ k <= Len(queue)
      /\ \A i \in 1..Len(queue) : queue[i] \in S
  BY LenProperties, ElementOfSeq
<1>2. /\ front \in Seq(S)
      /\ Len(front) = IF 1 <= k - 1 THEN k - 1 - 1 + 1 ELSE 0
      /\ \A i \in 1..(k - 1 - 1 + 1) : front[i] = queue[1 + i - 1]
  <2>1. \A i \in 1..(k - 1) : queue[i] \in S
    BY <1>1
  <2>2. QED
    BY <1>1, <2>1, SubSeqProperties
<1>3. /\ back \in Seq(S)
      /\ Len(back) = Len(queue) - k
      /\ \A i \in 1..(Len(queue) - k) : back[i] = queue[k + i]
  BY <1>1, SuffixProperties
<1>4. /\ front \o back \in Seq(S)
      /\ Len(front \o back) = Len(front) + Len(back)
      /\ \A i \in 1..(Len(front) + Len(back)) :
            (front \o back)[i] = IF i <= Len(front) THEN front[i] ELSE back[i - Len(front)]
  BY <1>2, <1>3, ConcatProperties
<1>5. RemoveAt(queue, k) = front \o back
  BY DEF RemoveAt
<1> HIDE DEF front, back
<1>6. Len(front) = k - 1 /\ \A i \in 1..(k - 1) : front[i] = queue[i]
  BY <1>1, <1>2
<1>7. Len(front \o back) = Len(queue) - 1
  BY <1>1, <1>3, <1>4, <1>6
<1>8. ASSUME NEW i \in 1..(Len(queue) - 1)
      PROVE  (front \o back)[i] = IF i < k THEN queue[i] ELSE queue[i + 1]
  <2>1. i \in 1..(Len(front) + Len(back))
    BY <1>1, <1>3, <1>6
  <2>2. CASE i < k
    <3>1. i <= Len(front) /\ i \in 1..(k - 1)
      BY <1>1, <1>6, <2>2
    <3>2. QED
      BY <1>4, <1>6, <2>1, <2>2, <3>1
  <2>3. CASE ~(i < k)
    <3>1. ~(i <= Len(front)) /\ i - Len(front) \in 1..(Len(queue) - k) /\ k + (i - Len(front)) = i + 1
      BY <1>1, <1>6, <2>3
    <3>2. QED
      BY <1>3, <1>4, <2>1, <2>3, <3>1
  <2>4. QED
    BY <2>2, <2>3
<1>9. QED
  BY <1>4, <1>5, <1>7, <1>8

\* The abort listener of a waiting request takes that one out of the queue.
LEMMA AbortQueuedCorrect ==
    ASSUME IInv, NEW r \in Requests, AbortQueued(r) PROVE IInv'
<1>1. PICK k \in DOMAIN queued : queued[k] = r /\ queued' = RemoveAt(queued, k)
  BY DEF AbortQueued
<1>2. /\ queued \in Seq(Requests) /\ Len(queued) \in Nat /\ k \in 1..Len(queued)
      /\ \A i \in 1..Len(queued) : queued[i] \in Requests
  <2>1. queued \in Seq(Requests)
    BY DEF IInv, QueueInv
  <2>2. QED
    BY <1>1, <2>1, LenProperties, ElementOfSeq
<1>3. /\ queued' \in Seq(Requests)
      /\ Len(queued') = Len(queued) - 1
      /\ \A i \in 1..(Len(queued) - 1) : queued'[i] = IF i < k THEN queued[i] ELSE queued[i + 1]
  BY <1>1, <1>2, RemoveAtProperties
<1>4. /\ promise' = [q \in Requests |-> IF q = r THEN "aborted" ELSE promise[q]]
      /\ UNCHANGED <<nextRequestId, active, worker, started, rejected, proofOf, thread, inbox, events, pumpAfter>>
  BY DEF AbortQueued, Settle
<1>5. QueueInv(queued, active, promise, nextRequestId, started)
  BY DEF IInv
<1> DEFINE from(i) == IF i < k THEN i ELSE i + 1
<1>6. \A i \in 1..Len(queued') : from(i) \in 1..Len(queued) /\ from(i) # k /\ queued'[i] = queued[from(i)]
  BY <1>2, <1>3
<1>7. \A i, j \in 1..Len(queued') : i < j => from(i) < from(j)
  BY <1>2, <1>3
<1>8. \A i \in 1..Len(queued) : i # k => \E j \in 1..Len(queued') : from(j) = i
  <2>1. SUFFICES ASSUME NEW i \in 1..Len(queued), i # k
                 PROVE  \E j \in 1..Len(queued') : from(j) = i
    OBVIOUS
  <2>2. CASE i < k
    BY <1>2, <1>3, <2>2
  <2>3. CASE i > k
    <3>1. i - 1 \in 1..Len(queued') /\ from(i - 1) = i
      BY <1>2, <1>3, <2>3
    <3>2. QED
      BY <3>1
  <2>4. QED
    BY <1>2, <2>1, <2>2, <2>3
<1> HIDE DEF from
<1>9. QueueInv(queued', active', promise', nextRequestId', started')
  <2>1. promise' \in [Requests -> PromiseStates]
    BY <1>4, <1>5 DEF QueueInv, PromiseStates
  <2>2. \A i, j \in 1..Len(queued') : i < j => queued'[i] < queued'[j]
    BY <1>5, <1>6, <1>7 DEF QueueInv
  <2>3. \A i \in 1..Len(queued') :
           started < queued'[i] /\ queued'[i] < nextRequestId /\ active < queued'[i]
    BY <1>5, <1>6 DEF QueueInv
  <2>4. r # active
    BY <1>1, <1>2, <1>5 DEF QueueInv, Requests
  <2>5. \A i \in 1..Len(queued) : queued[i] = r => i = k
    BY <1>1, <1>2, <1>5 DEF QueueInv, Requests
  <2>6. \A q \in Requests : q # r =>
           ((\E i \in 1..Len(queued') : queued'[i] = q) <=> \E i \in 1..Len(queued) : queued[i] = q)
    <3>1. ASSUME NEW q \in Requests, q # r, NEW i \in 1..Len(queued), queued[i] = q
          PROVE  \E j \in 1..Len(queued') : queued'[j] = q
      <4>1. PICK j \in 1..Len(queued') : from(j) = i
        BY <1>1, <1>8, <3>1
      <4>2. queued'[j] = q
        BY <1>6, <3>1, <4>1
      <4>3. QED
        BY <4>2
    <3>2. ASSUME NEW q \in Requests, NEW j \in 1..Len(queued'), queued'[j] = q
          PROVE  \E i \in 1..Len(queued) : queued[i] = q
      BY <1>6, <3>2
    <3>3. QED
      BY <3>1, <3>2
  <2>7. ~\E i \in 1..Len(queued') : queued'[i] = r
    BY <1>6, <2>5
  <2>8. \A q \in Requests :
           promise'[q] = "pending" <=> q = active \/ \E i \in 1..Len(queued') : queued'[i] = q
    <3>1. promise'[r] = "aborted" /\ \A q \in Requests : q # r => promise'[q] = promise[q]
      BY <1>4
    <3>2. QED
      BY <1>5, <2>4, <2>6, <2>7, <3>1 DEF QueueInv
  <2>9. QED
    BY <1>3, <1>4, <1>5, <2>1, <2>2, <2>3, <2>8 DEF QueueInv
<1>10. OnlyRejectedWait(queued', active', rejected', pumpAfter')
  BY <1>4, <1>6 DEF IInv, OnlyRejectedWait
<1>11. WorkerInv(worker', started', thread', events') /\ ServiceInv(active', worker', thread', events', inbox')
  BY <1>4 DEF IInv
<1>12. QED
  BY <1>4, <1>9, <1>10, <1>11 DEF IInv, OwnProofOnly

\* Whoever leaves the worker idle keeps the queue as it is.
LEMMA ActiveSettled ==
    ASSUME IInv, NEW how \in PromiseStates \ {"pending"}
    PROVE  QueueInv(queued, None, Settle({active} \ {None}, how), nextRequestId, started)
<1>1. QueueInv(queued, active, promise, nextRequestId, started)
  BY DEF IInv
<1>2. Settle({active} \ {None}, how) =
        [r \in Requests |-> IF r = active THEN how ELSE promise[r]]
  BY DEF Settle, Requests, None
<1>3. \A i \in 1..Len(queued) : queued[i] \in Requests
  BY <1>1, ElementOfSeq DEF QueueInv
<1>4. active \in Nat /\ None \notin Requests
  BY <1>1 DEF QueueInv, Requests, None
<1>5. \A i \in 1..Len(queued) : queued[i] # active /\ None < queued[i]
  BY <1>1, <1>3, <1>4 DEF QueueInv, Requests, None
<1>6. QED
  BY <1>1, <1>2, <1>4, <1>5 DEF QueueInv

\* There are never more workers than requests.
LEMMA CurrentWorker ==
    ASSUME IInv
    PROVE  started \in Nat /\ (worker = None \/ worker \in Workers)
<1>1. started \in 0..MaxRequests /\ worker \in 0..started
  BY DEF IInv, WorkerInv
<1>2. QED
  BY <1>1, ProverWorkerAssumption DEF Workers, None

\* terminate() on the current worker, which is given up, leaves no thread up.
LEMMA WorkerTerminated ==
    ASSUME IInv
    PROVE  WorkerInv(None, started, Terminate, events)
<1>1. WorkerInv(worker, started, thread, events)
  BY DEF IInv
<1>2. started \in Nat /\ (worker = None \/ worker \in Workers)
  BY CurrentWorker
<1>3. CASE worker # None /\ thread[worker] = "up"
  <2>1. Terminate = [thread EXCEPT ![worker] = "stopping"]
    BY <1>3 DEF Terminate
  <2>2. QED
    BY <1>1, <1>2, <1>3, <2>1 DEF WorkerInv, Workers, ThreadStates, None
<1>4. CASE ~(worker # None /\ thread[worker] = "up")
  <2>1. Terminate = thread
    BY <1>4 DEF Terminate
  <2>2. QED
    BY <1>1, <1>2, <1>4, <2>1 DEF WorkerInv, Workers, None
<1>5. QED
  BY <1>3, <1>4

\* Without a worker and without an active request nothing is owed.
LEMMA NothingOwed ==
    ASSUME NEW threads, NEW evs, NEW inb \in [Workers -> SUBSET Requests]
    PROVE  ServiceInv(None, None, threads, evs, inb)
  BY DEF ServiceInv

\* The abort listener of the active request: the termination it starts will pump.
LEMMA AbortActiveCorrect ==
    ASSUME IInv, NEW r \in Requests, AbortActive(r) PROVE IInv'
<1>1. /\ active = r /\ active' = None /\ worker' = None /\ thread' = Terminate
      /\ promise' = Settle({r}, "aborted")
      /\ pumpAfter' = pumpAfter \cup ({worker} \ {None})
      /\ UNCHANGED <<nextRequestId, queued, started, rejected, proofOf, inbox, events>>
  BY DEF AbortActive
<1>2. {r} = {active} \ {None}
  BY <1>1 DEF Requests, None
<1>3. QueueInv(queued', active', promise', nextRequestId', started')
  BY <1>1, <1>2, ActiveSettled DEF PromiseStates
<1>4. WorkerInv(worker', started', thread', events')
  BY <1>1, WorkerTerminated
<1>5. inbox \in [Workers -> SUBSET Requests]
  BY DEF IInv, ServiceInv
<1>6. ServiceInv(active', worker', thread', events', inbox')
  BY <1>1, <1>5, NothingOwed
<1>7. worker \in Workers /\ worker # None
  <2>1. active # None
    BY <1>1 DEF Requests, None
  <2>2. QED
    BY <2>1, CurrentWorker DEF IInv, ServiceInv
<1>8. QED
  BY <1>1, <1>3, <1>4, <1>6, <1>7 DEF IInv, OnlyRejectedWait, OwnProofOnly

\* closeProverWorker() rejects whoever waits or is active.
LEMMA CloseCorrect == ASSUME IInv, CloseProverWorker PROVE IInv'
<1>1. /\ queued' = <<>> /\ active' = None /\ worker' = None /\ thread' = Terminate
      /\ promise' = Settle(Range(queued) \cup ({active} \ {None}), "closed")
      /\ UNCHANGED <<nextRequestId, started, rejected, proofOf, inbox, events, pumpAfter>>
  BY DEF CloseProverWorker
<1>2. QueueInv(queued, active, promise, nextRequestId, started)
  BY DEF IInv
<1>3. Range(queued) = {queued[i] : i \in 1..Len(queued)}
  BY <1>2, RangeEquality DEF QueueInv
<1>4. queued' \in Seq(Requests) /\ Len(queued') = 0
  BY <1>1, EmptySeq
<1>5. \A r \in Requests :
        promise'[r] = IF r = active \/ \E i \in 1..Len(queued) : queued[i] = r
                      THEN "closed" ELSE promise[r]
  BY <1>1, <1>3 DEF Settle, Requests, None
<1>6. promise' \in [Requests -> PromiseStates] /\ \A r \in Requests : promise'[r] # "pending"
  <2>1. \A r \in Requests : promise'[r] \in PromiseStates /\ promise'[r] # "pending"
    BY <1>2, <1>5 DEF QueueInv, PromiseStates
  <2>2. promise' = [r \in Requests |-> promise'[r]]
    BY <1>1 DEF Settle
  <2>3. QED
    BY <2>1, <2>2
<1>7. QueueInv(queued', active', promise', nextRequestId', started')
  <2>1. started < nextRequestId
    BY <1>2 DEF QueueInv
  <2>2. 1..Len(queued') = {} /\ None \notin Requests
    BY <1>4 DEF Requests, None
  <2>3. QED
    BY <1>1, <1>4, <1>6, <2>1, <2>2 DEF QueueInv
<1>8. WorkerInv(worker', started', thread', events')
  BY <1>1, WorkerTerminated
<1>9. inbox \in [Workers -> SUBSET Requests]
  BY DEF IInv, ServiceInv
<1>10. ServiceInv(active', worker', thread', events', inbox')
  BY <1>1, <1>9, NothingOwed
<1>11. OnlyRejectedWait(queued', active', rejected', pumpAfter')
  BY <1>4 DEF OnlyRejectedWait
<1>12. QED
  BY <1>1, <1>7, <1>8, <1>10, <1>11 DEF IInv, OwnProofOnly

-----------------------------------------------------------------------------
(***************************************************************************)
(* Events of the workers.                                                  *)
(***************************************************************************)
\* An event is taken from the front; the rest move up.
LEMMA TakeProperties ==
    ASSUME IInv, NEW w \in Workers, NEW kinds, Take(w, kinds)
    PROVE  /\ Head(events[w]) \in Events /\ Head(events[w]).kind \in kinds
           /\ Head(events[w]) = events[w][1] /\ Len(events[w]) \in Nat \ {0}
           /\ events' \in [Workers -> Seq(Events)]
           /\ \A v \in Workers : v # w => events'[v] = events[v]
           /\ Len(events'[w]) = Len(events[w]) - 1
           /\ \A i \in 1..(Len(events[w]) - 1) : events'[w][i] = events[w][i + 1]
<1>1. events \in [Workers -> Seq(Events)]
  BY DEF IInv, WorkerInv
<1>2. /\ events[w] \in Seq(Events) /\ events[w] # <<>> /\ Head(events[w]).kind \in kinds
      /\ events' = [events EXCEPT ![w] = Tail(events[w])]
  BY <1>1 DEF Take
<1>3. /\ Head(events[w]) = events[w][1] /\ Head(events[w]) \in Events
      /\ Tail(events[w]) \in Seq(Events)
      /\ Len(events[w]) \in Nat \ {0}
      /\ Len(Tail(events[w])) = Len(events[w]) - 1
      /\ \A i \in 1..(Len(events[w]) - 1) : Tail(events[w])[i] = events[w][i + 1]
  BY <1>2, ShiftProperties
<1>4. events'[w] = Tail(events[w]) /\ \A v \in Workers : v # w => events'[v] = events[v]
  BY <1>1, <1>2
<1>5. events' \in [Workers -> Seq(Events)]
  BY <1>1, <1>2, <1>3
<1>6. QED
  BY <1>2, <1>3, <1>4, <1>5

\* Handling an event takes nothing from what is known of the threads.
LEMMA TakeKeepsWorkers ==
    ASSUME IInv, NEW w \in Workers, NEW kinds, Take(w, kinds)
    PROVE  WorkerInv(worker, started, thread, events')
<1>1. WorkerInv(worker, started, thread, events)
  BY DEF IInv
<1>2. ASSUME NEW v \in Workers, NEW i \in 1..Len(events'[v]), events'[v][i].kind \in Deaths
      PROVE  thread[v] = "dead"
  <2>1. CASE v # w
    BY <1>1, <1>2, <2>1, TakeProperties DEF WorkerInv
  <2>2. CASE v = w
    <3>1. i + 1 \in 1..Len(events[w]) /\ events'[w][i] = events[w][i + 1]
      BY <1>2, <2>2, TakeProperties
    <3>2. QED
      BY <1>1, <1>2, <2>2, <3>1 DEF WorkerInv
  <2>3. QED
    BY <2>1, <2>2
<1>3. events' \in [Workers -> Seq(Events)]
  BY TakeProperties
<1>4. QED
  BY <1>1, <1>2, <1>3 DEF WorkerInv

\* An event that is none of the current worker's failures, and not the answer
\* to the active request, is not what the active request waits for.
LEMMA TakeKeepsService ==
    ASSUME IInv, NEW w \in Workers, NEW kinds, Take(w, kinds), NEW act \in {active, None},
           w = worker => /\ Head(events[w]).kind \notin Failures
                         /\ act # None => Head(events[w]).id # act
    PROVE  ServiceInv(act, worker, thread, events', inbox)
<1>1. ServiceInv(act, worker, thread, events, inbox)
  BY DEF IInv, ServiceInv
<1>2. CASE w # worker
  <2>1. worker # None => events'[worker] = events[worker]
    BY <1>2, TakeProperties, CurrentWorker
  <2>2. QED
    BY <1>1, <2>1 DEF ServiceInv
<1>3. CASE w = worker
  <2>1. ASSUME NEW i \in 1..Len(events[w]), i # 1
        PROVE  i - 1 \in 1..Len(events'[w]) /\ events'[w][i - 1] = events[w][i]
    BY <2>1, TakeProperties
  <2>2. ASSUME NEW i \in 1..Len(events[w]), events[w][i].kind \in Failures
        PROVE  \E j \in 1..Len(events'[w]) : events'[w][j].kind \in Failures
    <3>1. i # 1
      BY <1>3, <2>2, TakeProperties
    <3>2. QED
      BY <2>1, <2>2, <3>1
  <2>3. ASSUME NEW i \in 1..Len(events[w]), act # None, events[w][i].id = act
        PROVE  \E j \in 1..Len(events'[w]) : events'[w][j].id = act
    <3>1. i # 1
      BY <1>3, <2>3, TakeProperties
    <3>2. QED
      BY <2>1, <2>3, <3>1
  <2>4. QED
    BY <1>1, <1>3, <2>2, <2>3 DEF ServiceInv
<1>4. QED
  BY <1>2, <1>3

\* "message": the active request is settled by its own answer; any other answer
\* changes nothing.
LEMMA OnMessageCorrect == ASSUME IInv, NEW w \in Workers, OnMessage(w) PROVE IInv'
<1> DEFINE message == Head(events[w])
           how == IF message.kind = "answer" THEN "resolved" ELSE "failed"
<1>1. Take(w, {"answer", "failure"}) /\ UNCHANGED <<nextRequestId, rejected, pumpAfter>>
  BY DEF OnMessage
<1>2. message.kind \in {"answer", "failure"}
  BY <1>1, TakeProperties
<1>3. WorkerInv(worker, started, thread, events')
  BY <1>1, TakeKeepsWorkers
<1>4. CASE active # None /\ message.id = active
  <2>1. /\ Pump(queued, None, worker, Settle({active}, how), thread)
        /\ proofOf' = IF message.kind = "answer"
                      THEN [proofOf EXCEPT ![active] = message.id] ELSE proofOf
    BY <1>4 DEF OnMessage
  <2>2. active \in Requests /\ {active} = {active} \ {None}
    BY <1>4 DEF IInv, QueueInv
  <2>3. QueueInv(queued, None, Settle({active}, how), nextRequestId, started)
    BY <2>2, ActiveSettled DEF PromiseStates
  <2>4. ServiceInv(None, worker, thread, events', inbox)
    BY <1>1, <1>2, TakeKeepsService DEF Failures
  <2>5. nextRequestId \in Nat
    BY ProverWorkerAssumption DEF IInv
  <2> HIDE DEF how
  <2>6. Pumped(nextRequestId, events')
    BY <1>3, <2>1, <2>3, <2>4, <2>5, PumpCorrect
  <2> HIDE DEF message
  <2>7. proofOf' \in [Requests -> Requests \cup {None}] /\ OwnProofOnly'
    BY <1>4, <2>1, <2>2 DEF IInv, OwnProofOnly
  <2>8. QED
    BY <1>1, <2>6, <2>7, PumpedStep DEF IInv
<1>5. CASE ~(active # None /\ message.id = active)
  <2>1. UNCHANGED <<queued, active, worker, started, promise, proofOf, thread, inbox>>
    BY <1>5 DEF OnMessage
  <2>2. ServiceInv(active, worker, thread, events', inbox)
    BY <1>1, <1>2, <1>5, TakeKeepsService DEF Failures
  <2>3. QED
    BY <1>1, <1>3, <2>1, <2>2 DEF IInv, OwnProofOnly
<1>6. QED
  BY <1>4, <1>5

\* An event nobody acts on.
LEMMA IgnoreCorrect ==
    ASSUME IInv, NEW w \in Workers, NEW kinds, Take(w, kinds), IgnoreEvent,
           w = worker => Head(events[w]).kind = "cleanExit"
    PROVE  IInv'
<1>1. UNCHANGED <<nextRequestId, queued, active, worker, started, promise, rejected, proofOf,
                  thread, inbox, pumpAfter>>
  BY DEF IgnoreEvent
<1>2. w = worker => /\ Head(events[w]).kind \notin Failures
                    /\ active # None => Head(events[w]).id # active
  <2>1. Head(events[w]).kind = "cleanExit" => Head(events[w]).id = None
    BY TakeProperties DEF Events
  <2>2. QED
    BY <2>1 DEF Failures
<1>3. ServiceInv(active, worker, thread, events', inbox)
  BY <1>2, TakeKeepsService
<1>4. WorkerInv(worker, started, thread, events')
  BY TakeKeepsWorkers
<1>5. QED
  BY <1>1, <1>3, <1>4 DEF IInv, OwnProofOnly

\* The current worker has failed: it is dead, its request is rejected, and the
\* queue goes on with a new worker.
LEMMA WorkerFailedCorrect ==
    ASSUME IInv, NEW w \in Workers, NEW kinds, Take(w, kinds), w = worker,
           Head(events[w]).kind \in Failures, WorkerFailed
    PROVE  IInv'
<1>1. /\ Pump(queued, None, None, Settle({active} \ {None}, "failed"), thread)
      /\ UNCHANGED <<nextRequestId, rejected, proofOf, pumpAfter>>
  BY DEF WorkerFailed
<1>2. thread[w] = "dead"
  <2>1. 1 \in 1..Len(events[w]) /\ events[w][1].kind \in Deaths
    BY TakeProperties DEF Failures, Deaths
  <2>2. QED
    BY <2>1 DEF IInv, WorkerInv
<1>3. WorkerInv(worker, started, thread, events')
  BY TakeKeepsWorkers
<1>4. WorkerInv(None, started, thread, events')
  BY <1>2, <1>3, CurrentWorker DEF WorkerInv, None
<1>5. QueueInv(queued, None, Settle({active} \ {None}, "failed"), nextRequestId, started)
  BY ActiveSettled DEF PromiseStates
<1>6. inbox \in [Workers -> SUBSET Requests] /\ nextRequestId \in Nat
  BY ProverWorkerAssumption DEF IInv, ServiceInv
<1>7. ServiceInv(None, None, thread, events', inbox)
  BY <1>6, NothingOwed
<1>8. Pumped(nextRequestId, events')
  BY <1>1, <1>4, <1>5, <1>6, <1>7, PumpCorrect
<1>9. QED
  BY <1>1, <1>8, PumpedStep DEF IInv, OwnProofOnly

\* The handlers of "error" and "exit".
LEMMA OnEndCorrect == ASSUME IInv, NEW w \in Workers, OnError(w) \/ OnExit(w) PROVE IInv'
<1>1. CASE OnError(w)
  <2>1. Take(w, {"error"})
    BY <1>1 DEF OnError
  <2>2. Head(events[w]).kind \in Failures
    BY <2>1, TakeProperties DEF Failures
  <2>3. CASE worker = w
    BY <1>1, <2>1, <2>2, <2>3, WorkerFailedCorrect DEF OnError
  <2>4. CASE worker # w
    BY <1>1, <2>1, <2>4, IgnoreCorrect DEF OnError
  <2>5. QED
    BY <2>3, <2>4
<1>2. CASE OnExit(w)
  <2>1. Take(w, {"exit", "cleanExit"})
    BY <1>2 DEF OnExit
  <2>2. Head(events[w]).kind \in {"exit", "cleanExit"}
    BY <2>1, TakeProperties
  <2>3. CASE worker = w /\ Head(events[w]).kind = "exit"
    BY <1>2, <2>1, <2>3, WorkerFailedCorrect DEF OnExit, Failures
  <2>4. CASE ~(worker = w /\ Head(events[w]).kind = "exit")
    BY <1>2, <2>1, <2>2, <2>4, IgnoreCorrect DEF OnExit
  <2>5. QED
    BY <2>3, <2>4
<1>3. QED
  BY <1>1, <1>2

\* terminate() of an aborted worker has resolved: pump.
LEMMA OnTerminatedCorrect == ASSUME IInv, NEW w \in Workers, OnTerminated(w) PROVE IInv'
<1>1. /\ Pump(queued, active, worker, promise, thread)
      /\ pumpAfter' = pumpAfter \ {w}
      /\ UNCHANGED <<nextRequestId, rejected, proofOf, events>>
  BY DEF OnTerminated
<1>2. nextRequestId \in Nat
  BY ProverWorkerAssumption DEF IInv
<1>3. Pumped(nextRequestId, events)
  BY <1>1, <1>2, PumpCorrect DEF IInv
<1>4. QED
  BY <1>1, <1>3, PumpedStep DEF IInv, OwnProofOnly

-----------------------------------------------------------------------------
(***************************************************************************)
(* The worker thread.                                                      *)
(***************************************************************************)
\* An answer moves a request from the inbox to the events.
LEMMA WorkerAnswersCorrect ==
    ASSUME IInv, NEW w \in Workers, NEW r \in Requests, WorkerAnswers(w, r) PROVE IInv'
<1>1. PICK kind \in {"answer", "failure"} :
        events' = [events EXCEPT ![w] = Append(events[w], Event(kind, r))]
  BY DEF WorkerAnswers
<1>2. inbox' = [inbox EXCEPT ![w] = inbox[w] \ {r}] /\ UNCHANGED <<mainVars, thread>>
  BY DEF WorkerAnswers
<1>3. /\ WorkerInv(worker, started, thread, events)
      /\ ServiceInv(active, worker, thread, events, inbox)
  BY DEF IInv
<1>4. Event(kind, r) \in Events /\ Event(kind, r).kind \notin Deaths /\ Event(kind, r).id = r
  BY DEF Event, Events, Deaths
<1>5. /\ events \in [Workers -> Seq(Events)] /\ inbox \in [Workers -> SUBSET Requests]
      /\ events[w] \in Seq(Events) /\ Len(events[w]) \in Nat
  <2>1. events \in [Workers -> Seq(Events)] /\ inbox \in [Workers -> SUBSET Requests]
    BY <1>3 DEF WorkerInv, ServiceInv
  <2>2. QED
    BY <2>1, LenProperties
<1>6. /\ events'[w] \in Seq(Events) /\ Len(events'[w]) = Len(events[w]) + 1
      /\ \A i \in 1..Len(events[w]) : events'[w][i] = events[w][i]
      /\ events'[w][Len(events[w]) + 1] = Event(kind, r)
      /\ \A v \in Workers : v # w => events'[v] = events[v]
      /\ events' \in [Workers -> Seq(Events)]
  <2> DEFINE longer == Append(events[w], Event(kind, r))
  <2>1. /\ longer \in Seq(Events) /\ Len(longer) = Len(events[w]) + 1
        /\ \A i \in 1..Len(events[w]) : longer[i] = events[w][i]
        /\ longer[Len(events[w]) + 1] = Event(kind, r)
    BY <1>4, <1>5, AppendProperties
  <2>2. events' = [events EXCEPT ![w] = longer]
    BY <1>1
  <2> HIDE DEF longer
  <2>3. QED
    BY <1>5, <2>1, <2>2
<1>7. WorkerInv(worker, started, thread, events')
  <2>1. ASSUME NEW v \in Workers, NEW i \in 1..Len(events'[v]), events'[v][i].kind \in Deaths
        PROVE  thread[v] = "dead"
    <3>1. CASE v # w
      BY <1>3, <1>6, <2>1, <3>1 DEF WorkerInv
    <3>2. CASE v = w
      <4>1. i \in 1..Len(events[w])
        BY <1>4, <1>5, <1>6, <2>1, <3>2
      <4>2. QED
        BY <1>3, <1>6, <2>1, <3>2, <4>1 DEF WorkerInv
    <3>3. QED
      BY <3>1, <3>2
  <2>2. QED
    BY <1>3, <1>6, <2>1 DEF WorkerInv
<1>8. ServiceInv(active, worker, thread, events', inbox')
  <2>1. inbox' \in [Workers -> SUBSET Requests]
    BY <1>2, <1>5
  <2>2. CASE worker # w
    <3>1. worker # None => events'[worker] = events[worker] /\ inbox'[worker] = inbox[worker]
      BY <1>2, <1>5, <1>6, <2>2, CurrentWorker
    <3>2. QED
      BY <1>3, <2>1, <3>1 DEF ServiceInv
  <2>3. CASE worker = w
    <3>1. \A i \in 1..Len(events[w]) : i \in 1..Len(events'[w]) /\ events'[w][i] = events[w][i]
      BY <1>5, <1>6
    <3>2. Len(events[w]) + 1 \in 1..Len(events'[w]) /\ events'[w][Len(events[w]) + 1].id = r
      BY <1>4, <1>5, <1>6
    <3>3. inbox'[w] = inbox[w] \ {r}
      BY <1>2, <1>5
    <3>4. active \in inbox[w] => active \in inbox'[w] \/ \E i \in 1..Len(events'[w]) : events'[w][i].id = active
      BY <3>2, <3>3
    <3>5. QED
      BY <1>3, <2>1, <2>3, <3>1, <3>4 DEF ServiceInv
  <2>4. QED
    BY <2>2, <2>3
<1>9. QED
  BY <1>2, <1>7, <1>8 DEF IInv, OwnProofOnly, mainVars

\* A thread ends, and says so with its last events.
LEMMA DiesCorrect ==
    ASSUME IInv, NEW w \in Workers, thread[w] \in {"up", "stopping"},
           NEW last \in Seq(Events), Dies(w, last),
           w = worker => CleanExits \/ \E i \in 1..Len(last) : last[i].kind \in Failures
    PROVE  IInv'
<1>1. /\ thread' = [thread EXCEPT ![w] = "dead"]
      /\ inbox' = [inbox EXCEPT ![w] = {}]
      /\ events' = [events EXCEPT ![w] = events[w] \o last]
      /\ UNCHANGED mainVars
  BY DEF Dies
<1>2. /\ WorkerInv(worker, started, thread, events)
      /\ ServiceInv(active, worker, thread, events, inbox)
  BY DEF IInv
<1>3. /\ events \in [Workers -> Seq(Events)] /\ inbox \in [Workers -> SUBSET Requests]
      /\ thread \in [Workers -> ThreadStates]
      /\ events[w] \in Seq(Events) /\ Len(events[w]) \in Nat /\ Len(last) \in Nat
  <2>1. /\ events \in [Workers -> Seq(Events)] /\ inbox \in [Workers -> SUBSET Requests]
        /\ thread \in [Workers -> ThreadStates]
    BY <1>2 DEF WorkerInv, ServiceInv
  <2>2. QED
    BY <2>1, LenProperties
<1>4. /\ Len(events'[w]) = Len(events[w]) + Len(last)
      /\ \A i \in 1..Len(last) : events'[w][Len(events[w]) + i] = last[i]
      /\ \A v \in Workers : v # w => events'[v] = events[v]
      /\ events' \in [Workers -> Seq(Events)]
  <2> DEFINE longer == events[w] \o last
  <2>1. /\ longer \in Seq(Events) /\ Len(longer) = Len(events[w]) + Len(last)
        /\ \A i \in 1..(Len(events[w]) + Len(last)) :
              longer[i] = IF i <= Len(events[w]) THEN events[w][i] ELSE last[i - Len(events[w])]
    BY <1>3, ConcatProperties
  <2>2. events' = [events EXCEPT ![w] = longer]
    BY <1>1
  <2> HIDE DEF longer
  <2>3. events'[w] = longer
    BY <1>3, <2>2
  <2>4. \A i \in 1..Len(last) : longer[Len(events[w]) + i] = last[i]
    <3>1. SUFFICES ASSUME NEW i \in 1..Len(last) PROVE longer[Len(events[w]) + i] = last[i]
      OBVIOUS
    <3> DEFINE m == Len(events[w])
    <3>2. /\ m + i \in 1..(m + Len(last)) /\ ~(m + i <= m) /\ (m + i) - m = i
      BY <1>3
    <3>3. longer[m + i] = last[(m + i) - m]
      <4>1. m \in Nat /\ \A k \in 1..(m + Len(last)) :
                            longer[k] = IF k <= m THEN events[w][k] ELSE last[k - m]
        BY <1>3, <2>1
      <4> HIDE DEF m
      <4>2. QED
        BY <3>2, <4>1
    <3>4. QED
      BY <3>2, <3>3
  <2>5. QED
    BY <1>3, <2>1, <2>2, <2>3, <2>4
<1>5. thread'[w] = "dead" /\ \A v \in Workers : v # w => thread'[v] = thread[v]
  BY <1>1, <1>3
<1>6. WorkerInv(worker, started, thread', events')
  <2>1. thread' \in [Workers -> ThreadStates]
    BY <1>1, <1>3 DEF ThreadStates
  <2>2. \A v \in Workers : \A i \in 1..Len(events'[v]) : events'[v][i].kind \in Deaths => thread'[v] = "dead"
    BY <1>2, <1>4, <1>5 DEF WorkerInv
  <2>3. \A v \in Workers : v > started => thread'[v] = "unborn"
    BY <1>2, <1>5 DEF WorkerInv
  <2>4. worker # None => thread'[worker] \in {"up", "dead"}
    BY <1>2, <1>5, CurrentWorker DEF WorkerInv
  <2>5. \A v \in Workers : thread'[v] = "up" => v = worker
    BY <1>2, <1>5 DEF WorkerInv
  <2>6. QED
    BY <1>2, <1>4, <2>1, <2>2, <2>3, <2>4, <2>5 DEF WorkerInv
<1>7. ServiceInv(active, worker, thread', events', inbox')
  <2>1. inbox' \in [Workers -> SUBSET Requests]
    BY <1>1, <1>3
  <2>2. CASE worker # w
    <3>1. worker # None => /\ events'[worker] = events[worker] /\ inbox'[worker] = inbox[worker]
                           /\ thread'[worker] = thread[worker]
      BY <1>1, <1>3, <1>4, <1>5, <2>2, CurrentWorker
    <3>2. QED
      BY <1>2, <2>1, <3>1 DEF ServiceInv
  <2>3. CASE worker = w
    <3>1. CleanExits \/ \E i \in 1..Len(events'[w]) : events'[w][i].kind \in Failures
      <4>1. ASSUME NEW i \in 1..Len(last), last[i].kind \in Failures
            PROVE  \E j \in 1..Len(events'[w]) : events'[w][j].kind \in Failures
        <5>1. Len(events[w]) + i \in 1..Len(events'[w]) /\ events'[w][Len(events[w]) + i] = last[i]
          BY <1>3, <1>4
        <5>2. QED
          BY <4>1, <5>1
      <4>2. QED
        BY <2>3, <4>1
    <3>2. QED
      BY <1>2, <1>5, <2>1, <2>3, <3>1 DEF ServiceInv
  <2>4. QED
    BY <2>2, <2>3
<1>8. QED
  BY <1>1, <1>6, <1>7 DEF IInv, OwnProofOnly, mainVars

\* Every step of a worker thread.  A thread being terminated is no longer the
\* current worker's, so only a clean exit leaves a request unanswered.
LEMMA WorkerStepCorrect == ASSUME IInv, NEW w \in Workers, WorkerStep(w) PROVE IInv'
<1> DEFINE error == Event("error", None)
           exit == Event("exit", None)
           cleanExit == Event("cleanExit", None)
<1>1. /\ error \in Events /\ exit \in Events /\ cleanExit \in Events
      /\ error.kind \in Failures /\ exit.kind \in Failures
  BY DEF Event, Events, Failures
<1> HIDE DEF error, exit, cleanExit
<1>2. /\ <<error, exit>> \in Seq(Events) /\ <<exit>> \in Seq(Events) /\ <<cleanExit>> \in Seq(Events)
      /\ Len(<<error, exit>>) = 2 /\ Len(<<exit>>) = 1
      /\ <<error, exit>>[1] = error /\ <<exit>>[1] = exit
  BY <1>1
<1>3. /\ \E i \in 1..Len(<<error, exit>>) : <<error, exit>>[i].kind \in Failures
      /\ \E i \in 1..Len(<<exit>>) : <<exit>>[i].kind \in Failures
  BY <1>1, <1>2
<1>4. CASE \E r \in Requests : WorkerAnswers(w, r)
  BY <1>4, WorkerAnswersCorrect
<1>5. CASE WorkerCrashes(w)
  BY <1>2, <1>3, <1>5, DiesCorrect DEF WorkerCrashes, error, exit
<1>6. CASE WorkerExits(w) \/ WorkerStops(w)
  BY <1>2, <1>3, <1>6, DiesCorrect DEF WorkerExits, WorkerStops, exit
<1>7. CASE WorkerExitsCleanly(w)
  BY <1>2, <1>7, DiesCorrect DEF WorkerExitsCleanly, cleanExit
<1>8. QED
  BY <1>4, <1>5, <1>6, <1>7 DEF WorkerStep

-----------------------------------------------------------------------------
\* At first nothing is called and no worker started.
LEMMA InitCorrect == ASSUME Init PROVE IInv
<1>1. QueueInv(queued, active, promise, nextRequestId, started)
  <2>1. queued \in Seq(Requests) /\ 1..Len(queued) = {}
    BY EmptySeq DEF Init
  <2>2. QED
    BY <2>1 DEF Init, QueueInv, PromiseStates, Requests, None
<1>2. WorkerInv(worker, started, thread, events)
  <2>1. \A w \in Workers : events[w] = <<>> /\ 1..Len(events[w]) = {}
    BY DEF Init
  <2>2. events \in [Workers -> Seq(Events)]
    BY EmptySeq DEF Init
  <2>3. QED
    BY <2>1, <2>2, ProverWorkerAssumption DEF Init, WorkerInv, ThreadStates, None
<1>3. ServiceInv(active, worker, thread, events, inbox)
  BY DEF Init, ServiceInv
<1>4. OnlyRejectedWait(queued, active, rejected, pumpAfter)
  <2>1. 1..Len(queued) = {}
    BY EmptySeq DEF Init
  <2>2. QED
    BY <2>1 DEF OnlyRejectedWait
<1>5. QED
  BY <1>1, <1>2, <1>3, <1>4, ProverWorkerAssumption DEF Init, IInv, OwnProofOnly

\* The inductive invariant of the queue and its workers (index.ts:25-119).
THEOREM WorkerQueueInvariant == Spec => []IInv
<1>1. Init => IInv
  BY InitCorrect
<1>2. IInv /\ [Next]_vars => IInv'
  <2> SUFFICES ASSUME IInv, [Next]_vars PROVE IInv'
    OBVIOUS
  <2>1. CASE MainStep
    BY <2>1, ProveInWorkerCorrect, ProveInWorkerThrowsCorrect, CloseCorrect,
       AbortQueuedCorrect, AbortActiveCorrect DEF MainStep
  <2>2. CASE \E w \in Workers : HandleEvent(w)
    BY <2>2, OnMessageCorrect, OnEndCorrect, OnTerminatedCorrect DEF HandleEvent
  <2>3. CASE \E w \in Workers : WorkerStep(w)
    BY <2>3, WorkerStepCorrect
  <2>4. CASE UNCHANGED vars
    BY <2>4 DEF vars, IInv, OwnProofOnly
  <2>5. QED
    BY <2>1, <2>2, <2>3, <2>4 DEF Next
<1>3. QED
  BY <1>1, <1>2, PTL DEF Spec

\* The variables keep their types: in particular no more workers are started
\* than there are requests.
THEOREM WorkerQueueTypes == Spec => []TypeOK
<1>1. ASSUME IInv PROVE TypeOK
  <2>1. worker \in Workers \cup {None}
    BY <1>1, CurrentWorker
  <2>2. QED
    BY <1>1, <2>1 DEF IInv, QueueInv, WorkerInv, ServiceInv, TypeOK
<1>2. QED
  BY <1>1, WorkerQueueInvariant, PTL

\* An answer posted by a worker that has been given up never becomes the proof
\* of another request (index.ts:34).
THEOREM ProofsAreOwn == Spec => []OwnProofOnly
<1>1. IInv => OwnProofOnly
  BY DEF IInv
<1>2. QED
  BY <1>1, WorkerQueueInvariant, PTL

\* No request is dropped, and none is both waiting and active, or twice in the
\* queue, whatever is aborted, closed or fails; the requests that are served
\* although nobody waits for them are those of calls that found no worker
\* (index.ts:65, 86-119).
THEOREM NoRequestIsLost == Spec => []NoRequestLost
<1>1. ASSUME IInv PROVE NoRequestLost
  <2>1. QueueInv(queued, active, promise, nextRequestId, started)
    BY <1>1 DEF IInv
  <2>2. /\ queued \in Seq(Requests) /\ DOMAIN queued = 1..Len(queued)
        /\ Range(queued) = {queued[i] : i \in 1..Len(queued)}
        /\ \A i \in 1..Len(queued) : queued[i] \in Requests
    BY <2>1, LenProperties, RangeEquality, ElementOfSeq DEF QueueInv
  <2>3. \A r \in Requests : promise[r] = "pending" <=> r = active \/ r \in Range(queued)
    BY <2>1, <2>2 DEF QueueInv
  <2>4. active \notin Range(queued)
    BY <2>1, <2>2 DEF QueueInv, Requests
  <2>5. \A i, j \in DOMAIN queued : queued[i] = queued[j] => i = j
    BY <2>1, <2>2 DEF QueueInv, Requests
  <2>6. \A r \in Range(queued) \cup ({active} \ {None}) : r \in Requests
    BY <2>1, <2>2 DEF QueueInv
  <2>7. QED
    BY <2>3, <2>4, <2>5, <2>6 DEF NoRequestLost, Outcome
<1>2. QED
  BY <1>1, WorkerQueueInvariant, PTL

\* Requests are served in the order of their calls.
THEOREM ServiceInOrder == Spec => []ServedInOrder
<1>1. ASSUME IInv PROVE ServedInOrder
  <2>1. QueueInv(queued, active, promise, nextRequestId, started)
    BY <1>1 DEF IInv
  <2>2. DOMAIN queued = 1..Len(queued)
    BY <2>1, LenProperties DEF QueueInv
  <2>3. QED
    BY <2>1, <2>2 DEF QueueInv, ServedInOrder
<1>2. QED
  BY <1>1, WorkerQueueInvariant, PTL

\* Aborts, crashes and closes leak no worker thread.
THEOREM OneWorkerIsLive == Spec => []OneLiveWorker
<1>1. IInv => OneLiveWorker
  BY DEF IInv, WorkerInv, OneLiveWorker
<1>2. QED
  BY <1>1, WorkerQueueInvariant, PTL

\* Whoever waits for an outcome will be pumped, and whoever is active will be answered, unless
\* the worker has left with code 0 (index.ts:33-75, 100).
THEOREM QueueNeverStalls == Spec => []NoStall
<1>1. ASSUME IInv PROVE NoStall
  <2>1. ASSUME active # None PROVE ActiveIsServed \/ AbandonedByCleanExit
    <3>1. worker # None /\ ServiceInv(active, worker, thread, events, inbox)
      BY <1>1, <2>1 DEF IInv, ServiceInv
    <3>2. events[worker] \in Seq(Events)
      BY <1>1, <3>1, CurrentWorker DEF IInv, WorkerInv
    <3>3. DOMAIN events[worker] = 1..Len(events[worker])
      BY <3>2, LenProperties
    <3>4. QED
      BY <2>1, <3>1, <3>3 DEF ServiceInv, Failures, ActiveIsServed, AbandonedByCleanExit
  <2>2. ASSUME active = None, NEW r \in Range(queued), Outcome(r) = "pending" PROVE pumpAfter # {}
    <3>1. r \notin rejected
      BY <2>2 DEF Outcome
    <3>2. Range(queued) = {queued[i] : i \in 1..Len(queued)}
      BY <1>1, RangeEquality DEF IInv, QueueInv
    <3>3. QED
      BY <1>1, <2>2, <3>1, <3>2 DEF IInv, OnlyRejectedWait
  <2>3. QED
    BY <2>1, <2>2 DEF NoStall
<1>2. QED
  BY <1>1, WorkerQueueInvariant, PTL

=============================================================================
