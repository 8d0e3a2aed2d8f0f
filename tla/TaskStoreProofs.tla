-------------------------- MODULE TaskStoreProofs --------------------------
(***************************************************************************)
(* The safety of TaskStore for any number of tasks, any TTL and any bound  *)
(* on the clock, and of TaskPolling for any number of clients, interval    *)
(* and latency that the TTL allows for.                                    *)
(***************************************************************************)
EXTENDS TaskPolling, TLAPS

\* An id that was never handed out has left no trace in the store: what makes
\* the invariant below inductive over Create.
FreshIsUnused ==
    \A id \in Ids : chain[id] = "idle" =>
        tasks[id] = AbsentTask /\ id \notin controllers /\ id \notin aborted

\* The inductive invariant.
IInv ==
    /\ TypeOK
    /\ FreshIsUnused
    /\ WorkingIsLive
    /\ StoppedIffAborted
    /\ BodyMatchesStatus
    /\ NoControllerLeak

\* What a step that sweeps does to the task `id`: nothing, or it fails and aborts
\* an expired working task, or it forgets a finished one.
SweptStep(id) ==
    \/ /\ tasks'[id] = tasks[id]
       /\ id \in aborted' <=> id \in aborted
       /\ id \in controllers' <=> id \in controllers
    \/ /\ tasks[id].status = "working"
       /\ tasks'[id] = [status |-> "failed", lastUpdatedAt |-> now, body |-> "taskExpired"]
       /\ id \in aborted' /\ id \notin controllers'
    \/ /\ tasks[id].status \in Terminal /\ tasks'[id] = AbsentTask
       /\ now > tasks[id].lastUpdatedAt + TTL
       /\ id \in aborted' <=> id \in aborted
       /\ id \in controllers' <=> id \in controllers

-----------------------------------------------------------------------------
\* What a sweep leaves in the store: well-typed tasks, each of them unchanged,
\* failed with taskExpired, or forgotten (tasks.ts:34-48).
LEMMA SweepEffect ==
    ASSUME TypeOK
    PROVE  /\ Swept \in [Ids -> Task]
           /\ SweptControllers \subseteq controllers
           /\ aborted \subseteq SweptAborted /\ SweptAborted \in SUBSET Ids
           /\ \A id \in Ids :
                \/ ~Expired(id) /\ Swept[id] = tasks[id]
                \/ /\ Expired(id) /\ tasks[id].status = "working"
                   /\ Swept[id] = [status |-> "failed", lastUpdatedAt |-> now, body |-> "taskExpired"]
                \/ Expired(id) /\ tasks[id].status # "working" /\ Swept[id] = AbsentTask
<1> USE DEF TypeOK, Task, Statuses, Bodies, AbsentTask
<1>1. \A id \in Ids : SweptTask(id) \in Task
  BY DEF SweptTask
<1>2. Swept \in [Ids -> Task]
  BY <1>1 DEF Swept
<1>3. QED
  BY <1>2, Zenon DEF Swept, SweptTask, SweptControllers, SweptAborted, ExpiredWorking

\* Sweeping alone keeps the invariant: an expired working task gives up its
\* controller and its signal fires in the same step that fails it.
LEMMA SweepPreserves ==
    ASSUME IInv,
           tasks' = Swept, controllers' = SweptControllers, aborted' = SweptAborted,
           chain' = chain, now' = now
    PROVE  IInv'
<1> USE TaskStoreAssumption DEF IInv, AbsentTask, SweptStep, Terminal
<1>1. /\ tasks' \in [Ids -> Task]
      /\ controllers' \subseteq controllers
      /\ aborted \subseteq aborted' /\ aborted' \in SUBSET Ids
  BY SweepEffect
<1>2. TypeOK'
  BY <1>1 DEF TypeOK
<1>3. \A id \in Ids : SweptStep(id)
  BY SweepEffect DEF SweptControllers, SweptAborted, ExpiredWorking, WorkingIsLive, Expired, TypeOK, Task, Statuses
<1>4. FreshIsUnused'
  BY <1>3 DEF FreshIsUnused
<1>5. WorkingIsLive'
  BY <1>3 DEF WorkingIsLive
<1>6. StoppedIffAborted'
  BY <1>3 DEF StoppedIffAborted, BodyMatchesStatus
<1>7. BodyMatchesStatus'
  BY <1>3 DEF BodyMatchesStatus
<1>8. NoControllerLeak'
  BY <1>1 DEF NoControllerLeak
<1>9. QED
  BY <1>2, <1>4, <1>5, <1>6, <1>7, <1>8

-----------------------------------------------------------------------------
\* create() after the sweep: the new task is working, registered and fresh.
LEMMA CreatePreserves ==
    ASSUME IInv, NEW id \in Ids, Create(id)
    PROVE  IInv'
<1> USE TaskStoreAssumption DEF IInv, AbsentTask, SweptStep, Terminal
<1> DEFINE new == [status |-> "working", lastUpdatedAt |-> now, body |-> "none"]
<1>1. /\ tasks' = [Swept EXCEPT ![id] = new]
      /\ controllers' = SweptControllers \cup {id}
      /\ aborted' = SweptAborted
      /\ chain[id] = "idle" /\ chain' = [chain EXCEPT ![id] = "queued"]
      /\ now' = now
  BY DEF Create
<1>2. Swept \in [Ids -> Task] /\ SweptAborted \in SUBSET Ids /\ SweptControllers \subseteq controllers
  BY SweepEffect
<1>3. TypeOK'
  <2>1. new \in Task
    BY DEF TypeOK, Task, Statuses, Bodies
  <2>2. QED
    BY <1>1, <1>2, <2>1 DEF TypeOK, ChainStates
<1>4. tasks'[id] = new /\ id \in controllers' /\ id \notin aborted' /\ chain'[id] = "queued"
  BY <1>1, <1>2 DEF FreshIsUnused, TypeOK, SweptAborted
<1>5. \A j \in Ids \ {id} :
        /\ chain'[j] = chain[j]
        /\ SweptStep(j)
  <2> SUFFICES ASSUME NEW j \in Ids, j # id
               PROVE  <1>5!(j)
    OBVIOUS
  <2>1. tasks'[j] = Swept[j] /\ chain'[j] = chain[j]
    BY <1>1, <1>2 DEF TypeOK
  <2>2. QED
    BY <1>1, <2>1, SweepEffect DEF SweptControllers, SweptAborted, ExpiredWorking, WorkingIsLive, Expired, TypeOK, Task, Statuses
<1>6. FreshIsUnused'
  BY <1>4, <1>5 DEF FreshIsUnused
<1>7. WorkingIsLive'
  BY <1>4, <1>5 DEF WorkingIsLive
<1>8. StoppedIffAborted'
  BY <1>4, <1>5 DEF StoppedIffAborted, BodyMatchesStatus
<1>9. BodyMatchesStatus'
  BY <1>4, <1>5 DEF BodyMatchesStatus
<1>10. NoControllerLeak'
  BY <1>1, <1>2, <1>4, <1>5 DEF NoControllerLeak, TypeOK
<1>11. QED
  BY <1>3, <1>6, <1>7, <1>8, <1>9, <1>10

-----------------------------------------------------------------------------
\* cancel() of a working task: its signal fires in the step that marks it.
LEMMA CancelPreserves ==
    ASSUME IInv, NEW id \in Ids, Cancel(id)
    PROVE  IInv'
<1> USE TaskStoreAssumption DEF IInv, AbsentTask, SweptStep, Terminal
<1>1. CASE Swept[id].status # "working"
  <2>1. /\ tasks' = Swept /\ controllers' = SweptControllers /\ aborted' = SweptAborted
        /\ chain' = chain /\ now' = now
    BY <1>1 DEF Cancel
  <2>2. QED
    BY <2>1, SweepPreserves
<1>2. CASE Swept[id].status = "working"
  <2> DEFINE cancelled == [status |-> "cancelled", lastUpdatedAt |-> now, body |-> "none"]
  <2>1. /\ tasks' = [Swept EXCEPT ![id] = cancelled]
        /\ aborted' = SweptAborted \cup ({id} \cap SweptControllers)
        /\ controllers' = SweptControllers
        /\ chain' = chain /\ now' = now
    BY <1>2 DEF Cancel
  <2>2. Swept \in [Ids -> Task] /\ SweptAborted \in SUBSET Ids /\ SweptControllers \subseteq controllers
    BY SweepEffect
  <2>3. ~Expired(id) /\ tasks[id].status = "working"
    BY <1>2, SweepEffect
  <2>4. TypeOK'
    <3>1. cancelled \in Task
      BY DEF TypeOK, Task, Statuses, Bodies
    <3>2. QED
      BY <2>1, <2>2, <3>1 DEF TypeOK
  <2>5. /\ tasks'[id] = cancelled /\ id \in aborted'
        /\ id \in controllers' /\ chain[id] \notin {"idle", "done"}
    BY <2>1, <2>2, <2>3 DEF SweptControllers, ExpiredWorking, WorkingIsLive
  <2>6. \A j \in Ids \ {id} : SweptStep(j)
    <3> SUFFICES ASSUME NEW j \in Ids, j # id
                 PROVE  SweptStep(j)
      OBVIOUS
    <3>1. tasks'[j] = Swept[j]
      BY <2>1, <2>2
    <3>2. QED
      BY <2>1, <3>1, SweepEffect
         DEF SweptControllers, SweptAborted, ExpiredWorking, WorkingIsLive, Expired, TypeOK, Task, Statuses
  <2>7. FreshIsUnused'
    BY <2>1, <2>5, <2>6 DEF FreshIsUnused
  <2>8. WorkingIsLive'
    BY <2>1, <2>5, <2>6 DEF WorkingIsLive
  <2>9. StoppedIffAborted'
    BY <2>5, <2>6 DEF StoppedIffAborted, BodyMatchesStatus
  <2>10. BodyMatchesStatus'
    BY <2>5, <2>6 DEF BodyMatchesStatus
  <2>11. NoControllerLeak'
    BY <2>1, <2>2 DEF NoControllerLeak
  <2>12. QED
    BY <2>4, <2>7, <2>8, <2>9, <2>10, <2>11
<1>3. QED
  BY <1>1, <1>2

\* A callback of the promise chain: it publishes at most once, and only for a
\* task that is still working.
LEMMA ChainStepPreserves ==
    ASSUME IInv, NEW id \in Ids, ChainStep(id)
    PROVE  IInv'
<1> USE DEF IInv, AbsentTask
<1> USE DEF TypeOK, Task, Statuses, Bodies, ChainStates
<1> USE DEF FreshIsUnused, WorkingIsLive, StoppedIffAborted, BodyMatchesStatus, NoControllerLeak
<1>1. CASE StartProduce(id)
  BY <1>1 DEF StartProduce
<1>2. CASE ProducerSettles(id)
  BY <1>2 DEF ProducerSettles
<1>3. CASE PublishResult(id)
  BY <1>3 DEF PublishResult, Publish
<1>4. CASE PublishError(id)
  BY <1>4 DEF PublishError, Publish
<1>5. CASE ReleaseController(id)
  BY <1>5 DEF ReleaseController
<1>6. QED
  BY <1>1, <1>2, <1>3, <1>4, <1>5 DEF ChainStep

-----------------------------------------------------------------------------
\* The store's invariant holds in every reachable state, for any set of tasks
\* and any TTL (tasks.ts:4-64).
THEOREM StoreInvariant == Spec => []IInv
<1>1. Init => IInv
  BY DEF Init, IInv, TypeOK, Task, Statuses, Bodies, ChainStates, AbsentTask,
         FreshIsUnused, WorkingIsLive, StoppedIffAborted, BodyMatchesStatus, NoControllerLeak
<1>2. IInv /\ [Next]_vars => IInv'
  <2> SUFFICES ASSUME IInv, [Next]_vars
               PROVE  IInv'
    OBVIOUS
  <2>1. ASSUME NEW id \in Ids, Create(id)
        PROVE  IInv'
    BY <2>1, CreatePreserves
  <2>2. CASE Get
    BY <2>2, SweepPreserves DEF Get
  <2>3. ASSUME NEW id \in Ids, Cancel(id)
        PROVE  IInv'
    BY <2>3, CancelPreserves
  <2>4. ASSUME NEW id \in Ids, ChainStep(id)
        PROVE  IInv'
    BY <2>4, ChainStepPreserves
  <2>5. CASE Tick
    BY <2>5 DEF Tick, IInv, TypeOK, FreshIsUnused, WorkingIsLive, StoppedIffAborted,
                BodyMatchesStatus, NoControllerLeak
  <2>6. CASE UNCHANGED vars
    BY <2>6 DEF vars, IInv, TypeOK, FreshIsUnused, WorkingIsLive, StoppedIffAborted,
                BodyMatchesStatus, NoControllerLeak
  <2>7. QED
    BY <2>1, <2>2, <2>3, <2>4, <2>5, <2>6 DEF Next
<1>3. QED
  BY <1>1, <1>2, PTL DEF Spec

\* A working task always has a registered, unfired controller and a callback
\* that will settle it.
THEOREM WorkingTasksAreLive == Spec => []WorkingIsLive
<1>1. IInv => WorkingIsLive
  BY DEF IInv
<1>2. QED
  BY <1>1, StoreInvariant, PTL

\* Exactly the cancelled and the expired producers are aborted, and what an
\* aborted producer yields is never published.
THEOREM AbortedProducersNeverPublish == Spec => []StoppedIffAborted
<1>1. IInv => StoppedIffAborted
  BY DEF IInv
<1>2. QED
  BY <1>1, StoreInvariant, PTL

\* No controller outlives the promise chain it was made for.
THEOREM ControllersAreReleased == Spec => []NoControllerLeak
<1>1. IInv => NoControllerLeak
  BY DEF IInv
<1>2. QED
  BY <1>1, StoreInvariant, PTL

\* A finished task keeps its outcome for the whole TTL, whatever is called.
THEOREM FinishedTasksAreFinal == Spec => FinishedIsFinal
<1>1. IInv /\ [Next]_vars => [\A id \in Ids : KeepsOutcome(id)]_vars
  <2> SUFFICES ASSUME IInv, Next, NEW id \in Ids
               PROVE  KeepsOutcome(id)
    OBVIOUS
  <2> USE TaskStoreAssumption DEF Terminal, AbsentTask, KeepsOutcome
  <2>1. /\ Swept \in [Ids -> Task]
        /\ tasks[id].status = "working" => Swept[id].status # "absent"
        /\ tasks[id].status \in Terminal /\ Swept[id] # tasks[id] =>
               Swept[id] = AbsentTask /\ now > tasks[id].lastUpdatedAt + TTL
        /\ tasks[id].status \in Terminal => Swept[id].status # "working"
        /\ tasks[id].status # "absent" => chain[id] # "idle"
    BY SweepEffect DEF IInv, TypeOK, Task, FreshIsUnused, Expired
  <2>2. ASSUME NEW j \in Ids, Create(j)
        PROVE  KeepsOutcome(id)
    BY <2>1, <2>2 DEF Create
  <2>3. CASE Get
    BY <2>1, <2>3 DEF Get
  <2>4. ASSUME NEW j \in Ids, Cancel(j)
        PROVE  KeepsOutcome(id)
    BY <2>1, <2>4 DEF Cancel
  <2>5. ASSUME NEW j \in Ids, ChainStep(j)
        PROVE  KeepsOutcome(id)
    BY <2>5 DEF ChainStep, StartProduce, ProducerSettles, PublishResult, PublishError,
                ReleaseController, Publish, IInv, TypeOK
  <2>6. CASE Tick
    BY <2>6 DEF Tick
  <2>7. QED
    BY <2>2, <2>3, <2>4, <2>5, <2>6 DEF Next
<1>2. QED
  BY <1>1, StoreInvariant, PTL DEF Spec, FinishedIsFinal

-----------------------------------------------------------------------------
(***************************************************************************)
(* The polling clients.                                                    *)
(***************************************************************************)
PollStates == {"idle", "created", "request", "reply", "sleep", "done"}
Outcomes == {"none", "invalidTaskId", "result", "error", "cancelled", "timedOut"}

PollTypes ==
    /\ poll \in [Ids -> [pc : PollStates, at : Nat]]
    /\ deadline \in [Ids -> Nat]
    /\ reply \in [Ids -> Task]
    /\ outcome \in [Ids -> Outcomes]
    /\ cancelAck \in SUBSET Ids

\* A wait is as old as its message or its timer allows.
OnTime(id) ==
    /\ poll[id].at <= now
    /\ poll[id].pc \in {"created", "request", "reply"} => now <= poll[id].at + Latency
    /\ poll[id].pc = "sleep" => now <= poll[id].at + Interval

\* The client has not been told that its task is finished.
Watching(id) ==
    \/ poll[id].pc \in {"created", "request", "sleep"}
    \/ poll[id].pc = "reply" /\ reply[id].status = "working"

\* How long before its present wait the client may last have seen the task working.
Lag(id) ==
    CASE poll[id].pc = "sleep" -> Latency
      [] poll[id].pc = "request" -> Latency + Interval
      [] OTHER -> 0

\* A task that is watched is in the store, and has not been finished for longer
\* than the client has been looking away.
Watched(id) ==
    Watching(id) =>
        /\ tasks[id].status # "absent"
        /\ tasks[id].status \in Terminal => poll[id].at <= tasks[id].lastUpdatedAt + Lag(id)

\* The store said so, and does not say otherwise.
HasResult(id) == outcome[id] = "result" \/ (poll[id].pc = "reply" /\ reply[id].status = "completed")

Told(id) ==
    /\ poll[id].pc = "reply" => reply[id].status # "absent"
    /\ HasResult(id) => tasks[id].status \in {"completed", "absent"}
    /\ id \in cancelAck => tasks[id].status \in {"cancelled", "absent"} /\ ~HasResult(id)

\* How the poll has ended.
Ended(id) ==
    /\ outcome[id] # "none" <=> poll[id].pc = "done"
    /\ outcome[id] # "invalidTaskId"
    /\ poll[id].pc = "idle" => id \notin cancelAck
    /\ outcome[id] = "timedOut" =>
           /\ now > deadline[id]
           /\ tasks[id].status = "completed" => tasks[id].lastUpdatedAt + Interval + Latency > deadline[id]

PollInv(id) == OnTime(id) /\ Watched(id) /\ Told(id) /\ Ended(id)

\* The inductive invariant, beside that of the store.
PollIInv == PollTypes /\ \A id \in Ids : PollInv(id)

-----------------------------------------------------------------------------
LEMMA PollStepIsStoreStep == [PollNext]_allVars => [Next]_vars
<1> SUFFICES ASSUME PollNext PROVE [Next]_vars
  BY DEF allVars
<1>1. ASSUME NEW id \in Ids,
             StartPoll(id) \/ Receive(id) \/ Wake(id)
      PROVE  UNCHANGED vars
  BY <1>1 DEF StartPoll, Receive, Wake
<1>2. ASSUME NEW id \in Ids,
             CallTool(id) \/ GetTask(id) \/ CancelTask(id) \/ ServerStep(id)
      PROVE  Next
  BY <1>2 DEF CallTool, GetTask, CancelTask, ServerStep, Next
<1>3. OtherCall \/ PollTick => Next
  BY DEF OtherCall, PollTick, Next
<1>4. QED
  BY <1>1, <1>2, <1>3 DEF PollNext

\* Clients that poll use the store as its specification allows (server tasks.ts),
\* so that all of the above holds under polling.
THEOREM PollingImplementsStore == PollSpec => Spec
<1>1. PollInit => Init
  BY DEF PollInit
<1>2. QED
  BY <1>1, PollStepIsStoreStep, PTL DEF PollSpec, Spec

\* What a step of the store that does not create the task does to it.
Moves(id) ==
    \/ tasks'[id] = tasks[id]
    \/ /\ tasks[id].status = "working"
       /\ tasks'[id].status \in Terminal /\ tasks'[id].lastUpdatedAt = now
    \/ /\ tasks[id].status \in Terminal /\ tasks'[id] = AbsentTask
       /\ tasks[id].lastUpdatedAt + TTL < now

LEMMA SweepMoves ==
    ASSUME TypeOK, NEW id \in Ids, Swept[id] # tasks[id]
    PROVE  \/ /\ tasks[id].status = "working"
              /\ Swept[id].status \in Terminal /\ Swept[id].lastUpdatedAt = now
           \/ /\ tasks[id].status \in Terminal /\ Swept[id] = AbsentTask
              /\ tasks[id].lastUpdatedAt + TTL < now
  BY SweepEffect DEF TypeOK, Task, Statuses, Terminal, Expired

LEMMA StoreMoves ==
    ASSUME TypeOK, NEW id \in Ids, NEW j \in Ids,
           Get \/ Cancel(j) \/ ChainStep(j) \/ (Create(j) /\ j # id)
    PROVE  Moves(id)
<1>1. Swept \in [Ids -> Task]
  BY SweepEffect
<1>2. CASE Get
  BY <1>2, SweepMoves DEF Get, Moves
<1>3. CASE Cancel(j)
  <2>1. CASE j = id /\ Swept[id].status = "working"
    <3>1. tasks'[id] = [status |-> "cancelled", lastUpdatedAt |-> now, body |-> "none"]
      BY <1>1, <1>3, <2>1 DEF Cancel
    <3>2. tasks[id].status = "working"
      BY <2>1, SweepMoves DEF Terminal, AbsentTask
    <3>3. QED
      BY <3>1, <3>2 DEF Moves, Terminal
  <2>2. CASE ~(j = id /\ Swept[id].status = "working")
    <3>1. tasks'[id] = Swept[id]
      BY <1>1, <1>3, <2>2 DEF Cancel
    <3>2. QED
      BY <3>1, SweepMoves DEF Moves
  <2>3. QED
    BY <2>1, <2>2
<1>4. CASE ChainStep(j)
  BY <1>4 DEF ChainStep, StartProduce, ProducerSettles, PublishResult, PublishError,
              ReleaseController, Publish, TypeOK, Moves, Terminal
<1>5. CASE Create(j) /\ j # id
  <2>1. tasks'[id] = Swept[id]
    BY <1>1, <1>5 DEF Create
  <2>2. QED
    BY <2>1, SweepMoves DEF Moves
<1>6. QED
  BY <1>2, <1>3, <1>4, <1>5

\* Within its round a client finds its task before the store forgets it.
LEMMA WatchedIsKept ==
    ASSUME TypeOK, NEW id \in Ids, PollTypes, OnTime(id), Watched(id), Watching(id), Moves(id)
    PROVE  /\ tasks'[id].status # "absent"
           /\ \/ tasks'[id] = tasks[id]
              \/ tasks'[id].status \in Terminal /\ tasks'[id].lastUpdatedAt = now
<1> USE TaskStoreAssumption, PollingAssumption
<1>1. /\ now \in Nat /\ poll[id].at \in Nat /\ tasks[id].lastUpdatedAt \in Nat
      /\ TTL \in Nat /\ Interval \in Nat /\ Latency \in Nat
  BY DEF TypeOK, Task, PollTypes
<1>2. tasks[id].status \in Terminal => now <= tasks[id].lastUpdatedAt + TTL
  <2> SUFFICES ASSUME tasks[id].status \in Terminal PROVE now <= tasks[id].lastUpdatedAt + TTL
    OBVIOUS
  <2>1. poll[id].at <= tasks[id].lastUpdatedAt + Lag(id)
    BY DEF Watched
  <2>2. CASE poll[id].pc = "sleep"
    BY <1>1, <2>1, <2>2 DEF Lag, OnTime
  <2>3. CASE poll[id].pc = "request"
    BY <1>1, <2>1, <2>3 DEF Lag, OnTime
  <2>4. CASE poll[id].pc \in {"created", "reply"}
    BY <1>1, <2>1, <2>4 DEF Lag, OnTime
  <2>5. QED
    BY <2>2, <2>3, <2>4 DEF Watching
<1>3. ~(tasks[id].status \in Terminal /\ tasks[id].lastUpdatedAt + TTL < now)
  BY <1>1, <1>2
<1>4. QED
  BY <1>3 DEF Moves, Watched, Terminal

\* A client that takes no part in a step.
PollKept(id) ==
    /\ poll'[id] = poll[id] /\ deadline'[id] = deadline[id] /\ reply'[id] = reply[id]
    /\ outcome'[id] = outcome[id] /\ (id \in cancelAck' <=> id \in cancelAck)

LEMMA PollStays ==
    ASSUME TypeOK, TypeOK', PollTypes, NEW id \in Ids, PollInv(id), PollKept(id), Moves(id), now' = now
    PROVE  PollInv(id)'
<1> USE TaskStoreAssumption, PollingAssumption
<1>1. /\ now \in Nat /\ poll[id].at \in Nat /\ tasks[id].lastUpdatedAt \in Nat /\ deadline[id] \in Nat
      /\ TTL \in Nat /\ Interval \in Nat /\ Latency \in Nat
  BY DEF TypeOK, Task, PollTypes
<1>2. OnTime(id)'
  BY DEF PollInv, OnTime, PollKept
<1>3. Watched(id)'
  <2> SUFFICES ASSUME Watching(id)
               PROVE  /\ tasks'[id].status # "absent"
                      /\ tasks'[id].status \in Terminal => poll[id].at <= tasks'[id].lastUpdatedAt + Lag(id)
    BY DEF Watched, Watching, PollKept, Lag
  <2>1. Lag(id) \in Nat
    BY <1>1 DEF Lag
  <2>2. QED
    BY <1>1, <2>1, WatchedIsKept DEF PollInv, Watched, OnTime
<1>4. Told(id)'
  BY DEF PollInv, Told, HasResult, PollKept, Moves, AbsentTask
<1>5. Ended(id)'
  BY <1>1 DEF PollInv, Ended, PollKept, Moves, AbsentTask
<1>6. QED
  BY <1>2, <1>3, <1>4, <1>5 DEF PollInv

LEMMA PollTickCorrect == ASSUME TypeOK, PollIInv, PollTick PROVE PollIInv'
<1> USE TaskStoreAssumption, PollingAssumption
<1>1. /\ now' = now + 1
      /\ UNCHANGED <<tasks, poll, deadline, reply, outcome, cancelAck>> /\ NothingOverdue
  BY DEF PollTick, Tick, clientVars
<1>2. ASSUME NEW id \in Ids PROVE PollInv(id)'
  <2>1. /\ now \in Nat /\ poll[id].at \in Nat /\ deadline[id] \in Nat
        /\ Interval \in Nat /\ Latency \in Nat
    BY DEF TypeOK, PollIInv, PollTypes
  <2>2. PollInv(id)
    BY DEF PollIInv
  <2>3. OnTime(id)'
    BY <1>1, <2>1, <2>2 DEF PollInv, OnTime, NothingOverdue
  <2>4. Watched(id)' /\ Told(id)'
    BY <1>1, <2>2 DEF PollInv, Watched, Watching, Lag, Told, HasResult
  <2>5. Ended(id)'
    BY <1>1, <2>1, <2>2 DEF PollInv, Ended
  <2>6. QED
    BY <2>3, <2>4, <2>5 DEF PollInv
<1>3. PollTypes'
  BY <1>1 DEF PollIInv, PollTypes
<1>4. QED
  BY <1>2, <1>3 DEF PollIInv

\* A step of one client: what remains to be shown of it.
LEMMA PollStepOf ==
    ASSUME TypeOK, TypeOK', PollIInv, NEW id \in Ids, now' = now, PollTypes', PollInv(id)',
           \A p \in Ids \ {id} : PollKept(p) /\ Moves(p)
    PROVE  PollIInv'
  BY PollStays DEF PollIInv

LEMMA CallToolCorrect == ASSUME TypeOK, TypeOK', PollIInv, NEW id \in Ids, CallTool(id) PROVE PollIInv'
<1> USE TaskStoreAssumption, PollingAssumption
<1>1. /\ poll[id].pc = "idle" /\ Create(id) /\ now' = now
      /\ poll' = [poll EXCEPT ![id] = [pc |-> "created", at |-> now]]
      /\ UNCHANGED <<deadline, reply, outcome, cancelAck>>
  BY DEF CallTool, Create, Goto
<1>2. PollTypes /\ PollInv(id) /\ now \in Nat /\ Latency \in Nat
  BY DEF PollIInv, TypeOK
<1>3. tasks'[id] = [status |-> "working", lastUpdatedAt |-> now, body |-> "none"]
  BY <1>1, SweepEffect DEF Create
<1>4. PollTypes' /\ poll'[id] = [pc |-> "created", at |-> now]
  BY <1>1, <1>2 DEF PollTypes, PollStates
<1>5. outcome[id] = "none" /\ id \notin cancelAck
  BY <1>1, <1>2 DEF PollInv, Ended
<1>6. PollInv(id)'
  <2>1. OnTime(id)'
    BY <1>1, <1>2, <1>4 DEF OnTime
  <2>2. Watched(id)'
    BY <1>3 DEF Watched, Terminal
  <2>3. Told(id)' /\ Ended(id)'
    BY <1>1, <1>4, <1>5 DEF Told, HasResult, Ended
  <2>4. QED
    BY <2>1, <2>2, <2>3 DEF PollInv
<1>7. ASSUME NEW p \in Ids \ {id} PROVE PollKept(p) /\ Moves(p)
  <2>1. Moves(p)
    BY <1>1, <1>7, StoreMoves
  <2>2. PollKept(p)
    BY <1>1, <1>2 DEF PollKept, PollTypes
  <2>3. QED
    BY <2>1, <2>2
<1>8. QED
  BY <1>1, <1>4, <1>6, <1>7, PollStepOf

LEMMA StartPollCorrect == ASSUME TypeOK, TypeOK', PollIInv, NEW id \in Ids, StartPoll(id) PROVE PollIInv'
<1> USE TaskStoreAssumption, PollingAssumption
<1>1. /\ poll[id].pc = "created" /\ now' = now /\ tasks' = tasks
      /\ poll' = [poll EXCEPT ![id] = [pc |-> "request", at |-> now]]
      /\ deadline' = [deadline EXCEPT ![id] = now + TTL]
      /\ UNCHANGED <<reply, outcome, cancelAck>>
  BY DEF StartPoll, Goto, vars
<1>2. /\ PollTypes /\ PollInv(id) /\ now \in Nat /\ Latency \in Nat /\ Interval \in Nat /\ TTL \in Nat
      /\ poll[id].at \in Nat /\ tasks[id].lastUpdatedAt \in Nat
  BY DEF PollIInv, TypeOK, PollTypes, Task
<1>3. PollTypes' /\ poll'[id] = [pc |-> "request", at |-> now]
  BY <1>1, <1>2 DEF PollTypes, PollStates
<1>4. PollInv(id)'
  <2>1. OnTime(id)'
    BY <1>1, <1>2, <1>3 DEF OnTime
  <2>2. Watched(id)'
    <3>1. /\ tasks[id].status # "absent"
          /\ tasks[id].status \in Terminal => poll[id].at <= tasks[id].lastUpdatedAt + 0
      BY <1>1, <1>2 DEF PollInv, Watched, Watching, Lag
    <3>2. now <= poll[id].at + Latency
      BY <1>1, <1>2 DEF PollInv, OnTime
    <3>3. Lag(id)' = Latency + Interval
      BY <1>3 DEF Lag
    <3>4. QED
      BY <1>1, <1>2, <1>3, <3>1, <3>2, <3>3 DEF Watched
  <2>3. Told(id)' /\ Ended(id)'
    BY <1>1, <1>2, <1>3 DEF PollInv, Told, HasResult, Ended
  <2>4. QED
    BY <2>1, <2>2, <2>3 DEF PollInv
<1>5. ASSUME NEW p \in Ids \ {id} PROVE PollKept(p) /\ Moves(p)
  BY <1>1, <1>2 DEF PollKept, PollTypes, Moves
<1>6. QED
  BY <1>1, <1>3, <1>4, <1>5, PollStepOf

LEMMA GetTaskCorrect == ASSUME TypeOK, TypeOK', PollIInv, NEW id \in Ids, GetTask(id) PROVE PollIInv'
<1> USE TaskStoreAssumption, PollingAssumption
<1>1. /\ poll[id].pc = "request" /\ Get /\ now' = now /\ tasks' = Swept
      /\ reply' = [reply EXCEPT ![id] = Swept[id]]
      /\ poll' = [poll EXCEPT ![id] = [pc |-> "reply", at |-> now]]
      /\ UNCHANGED <<deadline, outcome, cancelAck>>
  BY DEF GetTask, Get, Goto
<1>2. /\ PollTypes /\ PollInv(id) /\ now \in Nat /\ Latency \in Nat
      /\ Swept \in [Ids -> Task]
  BY SweepEffect DEF PollIInv, TypeOK
<1>3. PollTypes' /\ poll'[id] = [pc |-> "reply", at |-> now] /\ reply'[id] = tasks'[id]
  BY <1>1, <1>2 DEF PollTypes, PollStates
<1>4. Moves(id)
  BY <1>1, StoreMoves
<1>5. tasks'[id].status # "absent"
  BY <1>1, <1>2, <1>4, WatchedIsKept DEF PollInv, Watching
<1>6. outcome[id] = "none"
  BY <1>1, <1>2 DEF PollInv, Ended
<1>7. PollInv(id)'
  <2>1. OnTime(id)'
    BY <1>1, <1>2, <1>3 DEF OnTime
  <2>2. Watched(id)'
    BY <1>3 DEF Watched, Watching, Terminal
  <2>3. id \in cancelAck => tasks'[id].status \in {"cancelled", "absent"}
    BY <1>2, <1>4 DEF PollInv, Told, Moves, AbsentTask
  <2>4. Told(id)'
    BY <1>1, <1>3, <1>5, <1>6, <2>3 DEF Told, HasResult
  <2>5. Ended(id)'
    BY <1>1, <1>2, <1>3, <1>6 DEF Ended
  <2>6. QED
    BY <2>1, <2>2, <2>4, <2>5 DEF PollInv
<1>8. ASSUME NEW p \in Ids \ {id} PROVE PollKept(p) /\ Moves(p)
  <2>1. Moves(p)
    BY <1>1, StoreMoves
  <2>2. PollKept(p)
    BY <1>1, <1>2 DEF PollKept, PollTypes
  <2>3. QED
    BY <2>1, <2>2
<1>9. QED
  BY <1>1, <1>3, <1>7, <1>8, PollStepOf

\* What a client does with a reply.
LEMMA ReceiveCases ==
    ASSUME NEW id \in Ids, Receive(id), reply[id] \in Task, reply[id].status # "absent"
    PROVE  \/ reply[id].status = "working" /\ Goto(id, "sleep") /\ UNCHANGED outcome
           \/ \E how \in {"result", "error", "cancelled"} :
                  /\ Finish(id, how)
                  /\ how = "result" => reply[id].status = "completed"
<1>1. reply[id].status \in {"working", "completed", "cancelled", "failed"}
  BY DEF Task, Statuses
<1>2. CASE reply[id].status = "working"
  BY <1>2 DEF Receive
<1>3. CASE reply[id].status = "completed" /\ reply[id].body = "result"
  BY <1>3 DEF Receive
<1>4. CASE reply[id].status = "completed" /\ reply[id].body # "result"
  BY <1>4 DEF Receive
<1>5. CASE reply[id].status = "failed"
  BY <1>5 DEF Receive
<1>6. CASE reply[id].status = "cancelled"
  BY <1>6 DEF Receive
<1>7. QED
  BY <1>1, <1>2, <1>3, <1>4, <1>5, <1>6

LEMMA ReceiveCorrect == ASSUME TypeOK, TypeOK', PollIInv, NEW id \in Ids, Receive(id) PROVE PollIInv'
<1> USE TaskStoreAssumption, PollingAssumption
<1>1. /\ poll[id].pc = "reply" /\ now' = now /\ tasks' = tasks
      /\ UNCHANGED <<deadline, reply, cancelAck>>
  BY DEF Receive, vars
<1>2. /\ PollTypes /\ PollInv(id) /\ now \in Nat /\ Latency \in Nat /\ Interval \in Nat
      /\ poll[id].at \in Nat /\ tasks[id].lastUpdatedAt \in Nat /\ reply[id] \in Task
  BY DEF PollIInv, TypeOK, PollTypes, Task
<1>3. reply[id].status # "absent" /\ outcome[id] = "none"
  BY <1>1, <1>2 DEF PollInv, Told, Ended
<1>4. CASE reply[id].status = "working" /\ Goto(id, "sleep") /\ UNCHANGED outcome
  <2>1. poll' = [poll EXCEPT ![id] = [pc |-> "sleep", at |-> now]] /\ UNCHANGED outcome
    BY <1>4 DEF Goto
  <2>2. PollTypes' /\ poll'[id] = [pc |-> "sleep", at |-> now]
    BY <1>1, <1>2, <2>1 DEF PollTypes, PollStates
  <2>3. OnTime(id)'
    BY <1>1, <1>2, <2>2 DEF OnTime
  <2>4. Watched(id)'
    <3>1. /\ tasks[id].status # "absent"
          /\ tasks[id].status \in Terminal => poll[id].at <= tasks[id].lastUpdatedAt + 0
      BY <1>1, <1>2, <1>4 DEF PollInv, Watched, Watching, Lag
    <3>2. now <= poll[id].at + Latency
      BY <1>1, <1>2 DEF PollInv, OnTime
    <3>3. Lag(id)' = Latency
      BY <2>2 DEF Lag
    <3>4. QED
      BY <1>1, <1>2, <2>2, <3>1, <3>2, <3>3 DEF Watched
  <2>5. Told(id)' /\ Ended(id)'
    BY <1>1, <1>2, <1>3, <2>1, <2>2 DEF PollInv, Told, HasResult, Ended
  <2>6. ASSUME NEW p \in Ids \ {id} PROVE PollKept(p) /\ Moves(p)
    BY <1>1, <1>2, <2>1 DEF PollKept, PollTypes, Moves
  <2>7. QED
    BY <1>1, <2>2, <2>3, <2>4, <2>5, <2>6, PollStepOf DEF PollInv
<1>5. ASSUME NEW how \in {"result", "error", "cancelled"}, Finish(id, how),
             how = "result" => reply[id].status = "completed"
      PROVE  PollIInv'
  <2>1. /\ poll' = [poll EXCEPT ![id] = [pc |-> "done", at |-> now]]
        /\ outcome' = [outcome EXCEPT ![id] = how]
    BY <1>5 DEF Finish
  <2>2. PollTypes' /\ poll'[id] = [pc |-> "done", at |-> now] /\ outcome'[id] = how
    BY <1>1, <1>2, <2>1 DEF PollTypes, PollStates, Outcomes
  <2>3. OnTime(id)' /\ Watched(id)'
    BY <1>1, <1>2, <2>2 DEF OnTime, Watched, Watching
  <2>4. HasResult(id)' => HasResult(id)
    BY <1>1, <1>5, <2>2 DEF HasResult
  <2>5. Told(id)'
    BY <1>1, <1>2, <2>2, <2>4 DEF PollInv, Told
  <2>6. Ended(id)'
    BY <2>2 DEF Ended
  <2>7. ASSUME NEW p \in Ids \ {id} PROVE PollKept(p) /\ Moves(p)
    BY <1>1, <1>2, <2>1 DEF PollKept, PollTypes, Moves
  <2>8. QED
    BY <1>1, <2>2, <2>3, <2>5, <2>6, <2>7, PollStepOf DEF PollInv
<1>6. QED
  BY <1>2, <1>3, <1>4, <1>5, ReceiveCases

LEMMA WakeCorrect == ASSUME TypeOK, TypeOK', PollIInv, NEW id \in Ids, Wake(id) PROVE PollIInv'
<1> USE TaskStoreAssumption, PollingAssumption
<1>1. /\ poll[id].pc = "sleep" /\ now >= poll[id].at + Interval /\ now' = now /\ tasks' = tasks
      /\ UNCHANGED <<deadline, reply, cancelAck>>
  BY DEF Wake, vars
<1>2. /\ PollTypes /\ PollInv(id) /\ now \in Nat /\ Latency \in Nat /\ Interval \in Nat
      /\ poll[id].at \in Nat /\ tasks[id].lastUpdatedAt \in Nat /\ deadline[id] \in Nat
  BY DEF PollIInv, TypeOK, PollTypes, Task
<1>3. outcome[id] = "none" /\ now <= poll[id].at + Interval
  BY <1>1, <1>2 DEF PollInv, Ended, OnTime
<1>4. /\ tasks[id].status # "absent"
      /\ tasks[id].status \in Terminal => poll[id].at <= tasks[id].lastUpdatedAt + Latency
  BY <1>1, <1>2 DEF PollInv, Watched, Watching, Lag
<1>5. CASE now > deadline[id]
  <2>1. /\ poll' = [poll EXCEPT ![id] = [pc |-> "done", at |-> now]]
        /\ outcome' = [outcome EXCEPT ![id] = "timedOut"]
    BY <1>5 DEF Wake, Finish
  <2>2. PollTypes' /\ poll'[id] = [pc |-> "done", at |-> now] /\ outcome'[id] = "timedOut"
    BY <1>1, <1>2, <2>1 DEF PollTypes, PollStates, Outcomes
  <2>3. OnTime(id)' /\ Watched(id)'
    BY <1>1, <1>2, <2>2 DEF OnTime, Watched, Watching
  <2>4. Told(id)'
    BY <1>1, <1>2, <1>3, <2>2 DEF PollInv, Told, HasResult
  <2>5. Ended(id)'
    <3>1. tasks[id].status = "completed" => tasks[id].lastUpdatedAt + Interval + Latency > deadline[id]
      BY <1>2, <1>3, <1>4, <1>5 DEF Terminal
    <3>2. QED
      BY <1>1, <1>5, <2>2, <3>1 DEF Ended
  <2>6. ASSUME NEW p \in Ids \ {id} PROVE PollKept(p) /\ Moves(p)
    BY <1>1, <1>2, <2>1 DEF PollKept, PollTypes, Moves
  <2>7. QED
    BY <1>1, <2>2, <2>3, <2>4, <2>5, <2>6, PollStepOf DEF PollInv
<1>6. CASE ~(now > deadline[id])
  <2>1. poll' = [poll EXCEPT ![id] = [pc |-> "request", at |-> now]] /\ UNCHANGED outcome
    BY <1>6 DEF Wake, Goto
  <2>2. PollTypes' /\ poll'[id] = [pc |-> "request", at |-> now]
    BY <1>1, <1>2, <2>1 DEF PollTypes, PollStates
  <2>3. OnTime(id)'
    BY <1>1, <1>2, <2>2 DEF OnTime
  <2>4. Watched(id)'
    <3>1. Lag(id)' = Latency + Interval
      BY <2>2 DEF Lag
    <3>2. QED
      BY <1>1, <1>2, <1>3, <1>4, <2>2, <3>1 DEF Watched
  <2>5. Told(id)' /\ Ended(id)'
    BY <1>1, <1>2, <1>3, <2>1, <2>2 DEF PollInv, Told, HasResult, Ended
  <2>6. ASSUME NEW p \in Ids \ {id} PROVE PollKept(p) /\ Moves(p)
    BY <1>1, <1>2, <2>1 DEF PollKept, PollTypes, Moves
  <2>7. QED
    BY <1>1, <2>2, <2>3, <2>4, <2>5, <2>6, PollStepOf DEF PollInv
<1>7. QED
  BY <1>5, <1>6

LEMMA CancelTaskCorrect == ASSUME TypeOK, TypeOK', PollIInv, NEW id \in Ids, CancelTask(id) PROVE PollIInv'
<1>1. /\ poll[id].pc # "idle" /\ Cancel(id) /\ now' = now
      /\ cancelAck' = IF tasks'[id].status = "cancelled" THEN cancelAck \cup {id} ELSE cancelAck
      /\ UNCHANGED <<poll, deadline, reply, outcome>>
  BY DEF CancelTask, Cancel
<1>2. PollTypes /\ PollInv(id) /\ PollTypes'
  BY <1>1 DEF PollIInv, PollTypes
<1>3. ASSUME NEW p \in Ids PROVE Moves(p)
  BY <1>1, StoreMoves
<1>4. ASSUME NEW p \in Ids \ {id} PROVE PollKept(p)
  BY <1>1 DEF PollKept
<1>5. CASE tasks'[id].status = "cancelled" /\ id \notin cancelAck
  <2>1. (id \in cancelAck)' /\ Moves(id)
    BY <1>1, <1>3, <1>5
  <2>2. OnTime(id)'
    BY <1>1, <1>2 DEF PollInv, OnTime
  <2>3. Watched(id)'
    <3> SUFFICES ASSUME Watching(id)
                 PROVE  poll[id].at <= tasks'[id].lastUpdatedAt + Lag(id)
      BY <1>1, <1>5 DEF Watched, Watching, Lag
    <3>1. now \in Nat /\ poll[id].at \in Nat /\ Lag(id) \in Nat
      BY <1>2, PollingAssumption DEF TypeOK, PollTypes, Lag
    <3>2. QED
      BY <1>2, <1>5, <2>1, <3>1, WatchedIsKept DEF PollInv, Watched, OnTime, Terminal
  <2>4. ~HasResult(id)
    BY <1>2, <1>5, <2>1 DEF PollInv, Told, Moves, AbsentTask
  <2>5. Told(id)'
    BY <1>1, <1>2, <1>5, <2>4 DEF PollInv, Told, HasResult
  <2>6. Ended(id)'
    BY <1>1, <1>2, <1>5 DEF PollInv, Ended
  <2>7. QED
    BY <1>1, <1>2, <1>3, <1>4, <2>2, <2>3, <2>5, <2>6, PollStepOf DEF PollInv
<1>6. CASE ~(tasks'[id].status = "cancelled" /\ id \notin cancelAck)
  <2>1. PollKept(id)
    BY <1>1, <1>6 DEF PollKept
  <2>2. PollInv(id)'
    BY <1>1, <1>2, <1>3, <2>1, PollStays
  <2>3. QED
    BY <1>1, <1>2, <1>3, <1>4, <2>2, PollStepOf
<1>7. QED
  BY <1>5, <1>6

\* A step of the server, or a call for another id, that no client takes part in.
LEMMA ServerCorrect ==
    ASSUME TypeOK, TypeOK', PollIInv, UNCHANGED clientVars, now' = now, \A id \in Ids : Moves(id)
    PROVE  PollIInv'
<1>1. UNCHANGED <<poll, deadline, reply, outcome, cancelAck>>
  BY DEF clientVars
<1>2. ASSUME NEW id \in Ids PROVE PollInv(id)'
  <2>1. PollKept(id)
    BY <1>1 DEF PollKept
  <2>2. QED
    BY <2>1, PollStays DEF PollIInv
<1>3. PollTypes'
  BY <1>1 DEF PollIInv, PollTypes
<1>4. QED
  BY <1>2, <1>3 DEF PollIInv

LEMMA PollNextCorrect == ASSUME TypeOK, TypeOK', PollIInv, [PollNext]_allVars PROVE PollIInv'
<1>1. ASSUME NEW id \in Ids, CallTool(id) \/ StartPoll(id) \/ GetTask(id) PROVE PollIInv'
  BY <1>1, CallToolCorrect, StartPollCorrect, GetTaskCorrect
<1>2. ASSUME NEW id \in Ids, Receive(id) \/ Wake(id) \/ CancelTask(id) PROVE PollIInv'
  BY <1>2, ReceiveCorrect, WakeCorrect, CancelTaskCorrect
<1>3. ASSUME NEW id \in Ids, ServerStep(id) PROVE PollIInv'
  <2>1. ChainStep(id) /\ UNCHANGED clientVars /\ now' = now
    BY <1>3 DEF ServerStep, ChainStep, StartProduce, ProducerSettles, PublishResult, PublishError,
                ReleaseController
  <2>2. \A p \in Ids : Moves(p)
    BY <2>1, StoreMoves
  <2>3. QED
    BY <2>1, <2>2, ServerCorrect
<1>4. CASE OtherCall
  <2>1. Get /\ UNCHANGED clientVars /\ now' = now
    BY <1>4 DEF OtherCall, Get
  <2>2. \A p \in Ids : Moves(p)
    BY <2>1, StoreMoves
  <2>3. QED
    BY <2>1, <2>2, ServerCorrect
<1>5. CASE PollTick
  BY <1>5, PollTickCorrect
<1>6. CASE UNCHANGED allVars
  BY <1>6, ServerCorrect DEF allVars, vars, Moves
<1>7. QED
  BY <1>1, <1>2, <1>3, <1>4, <1>5, <1>6 DEF PollNext

\* The inductive invariant of the clients: every wait is on time, a client finds
\* its task in the store until it knows how it ended, and what it was told agrees
\* with the store (client tasks.ts, server tasks.ts).
THEOREM PollingInvariant == PollSpec => [](IInv /\ PollIInv)
<1>1. PollSpec => []IInv
  BY PollingImplementsStore, StoreInvariant, PTL
<1>2. PollInit => PollIInv
  <2> SUFFICES ASSUME PollInit PROVE PollIInv
    OBVIOUS
  <2>1. PollTypes
    BY DEF PollInit, PollTypes, PollStates, Outcomes, Task, AbsentTask, Statuses, Bodies
  <2>2. ASSUME NEW id \in Ids PROVE PollInv(id)
    BY DEF PollInit, Init, PollInv, OnTime, Watched, Watching, Told, HasResult, Ended
  <2>3. QED
    BY <2>1, <2>2 DEF PollIInv
<1>3. IInv /\ IInv' /\ PollIInv /\ [PollNext]_allVars => PollIInv'
  BY PollNextCorrect DEF IInv
<1>4. QED
  BY <1>1, <1>2, <1>3, PTL DEF PollSpec

\* pollTask never learns that its task is gone (client tasks.ts:9).
THEOREM PollNeverForgotten == PollSpec => []NeverForgotten
<1>1. PollIInv => NeverForgotten
  BY DEF PollIInv, PollInv, Ended, NeverForgotten
<1>2. QED
  BY <1>1, PollingInvariant, PTL

\* A client gets no result of a task whose cancellation was acknowledged.
THEOREM CancellationIsObeyed == PollSpec => []CancelIsObeyed
<1>1. PollIInv => CancelIsObeyed
  BY DEF PollIInv, PollTypes, PollInv, Told, HasResult, CancelIsObeyed
<1>2. QED
  BY <1>1, PollingInvariant, PTL

\* pollTask times out on a completed task only within its last round.
THEOREM TimeoutsAreHonest == PollSpec => []TimeoutIsHonest
<1>1. PollIInv => TimeoutIsHonest
  BY DEF PollIInv, PollInv, Ended, TimeoutIsHonest
<1>2. QED
  BY <1>1, PollingInvariant, PTL

=============================================================================
