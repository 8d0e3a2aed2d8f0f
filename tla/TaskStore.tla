----------------------------- MODULE TaskStore -----------------------------
(***************************************************************************)
(* The server's store of asynchronous tool calls (packages/server/src/     *)
(* tasks.ts).  A task is a record the client polls plus a promise chain    *)
(* that runs the producer and publishes its outcome.  The event loop runs  *)
(* one handler or one promise callback at a time, so each of them is one   *)
(* action; everything may happen between two of them, time included.       *)
(*                                                                         *)
(* There is no expiry timer: every public operation sweeps first, so a     *)
(* task past its TTL keeps its status until somebody calls the store.      *)
(***************************************************************************)
EXTENDS Naturals, FiniteSets

CONSTANTS
    Ids,      \* the task ids randomUUID will hand out
    TTL,      \* ttlMs, in clock ticks
    MaxTime   \* bound on the clock

ASSUME TaskStoreAssumption == TTL \in Nat /\ MaxTime \in Nat

VARIABLES
    tasks,        \* the map taskId -> Task ("absent" where the map has no entry)
    controllers,  \* the ids with an entry in the map of AbortControllers
    aborted,      \* the ids whose AbortSignal has fired
    chain,        \* where the promise chain of create() stands
    now           \* Date.now()

vars == <<tasks, controllers, aborted, chain, now>>

Statuses == {"absent", "working", "completed", "cancelled", "failed"}
Terminal == {"completed", "cancelled", "failed"}

\* What a task carries besides its status: a result, the producer's error, or
\* the taskExpired error of the sweep.
Bodies == {"none", "result", "error", "taskExpired"}

\* "idle": not created; "queued": the first microtask has not run; "running":
\* produce(signal) is pending; "resolved"/"rejected": it has settled and the
\* then/catch callback is due; "settled": the finally callback is due.
ChainStates == {"idle", "queued", "running", "resolved", "rejected", "settled", "done"}

Task == [status : Statuses, lastUpdatedAt : Nat, body : Bodies]

AbsentTask == [status |-> "absent", lastUpdatedAt |-> 0, body |-> "none"]

TypeOK ==
    /\ tasks \in [Ids -> Task]
    /\ controllers \in SUBSET Ids
    /\ aborted \in SUBSET Ids
    /\ chain \in [Ids -> ChainStates]
    /\ now \in Nat

Init ==
    /\ tasks = [id \in Ids |-> AbsentTask]
    /\ controllers = {}
    /\ aborted = {}
    /\ chain = [id \in Ids |-> "idle"]
    /\ now = 0

-----------------------------------------------------------------------------
(***************************************************************************)
(* sweep(): a task whose last update is more than TTL ago is failed and    *)
(* aborted if it is still working, and forgotten otherwise.                *)
(***************************************************************************)
ExpiredMutant(id) ==
    /\ tasks[id].status # "absent"
    /\ tasks[id].lastUpdatedAt + TTL <= now

Expired(id) ==
    /\ tasks[id].status # "absent"
    /\ tasks[id].lastUpdatedAt + TTL < now

ExpiredWorking == {id \in Ids : Expired(id) /\ tasks[id].status = "working"}

SweptTaskMutant(id) ==
    IF Expired(id) THEN AbsentTask ELSE tasks[id]

AbortOnlyMutant(id) ==
    IF Expired(id) /\ tasks[id].status # "working" THEN AbsentTask ELSE tasks[id]

SweptTask(id) ==
    IF ~Expired(id) THEN tasks[id]
    ELSE IF tasks[id].status = "working"
         THEN [status |-> "failed", lastUpdatedAt |-> now, body |-> "taskExpired"]
         ELSE AbsentTask

Swept == [id \in Ids |-> SweptTask(id)]

SweptAborted == aborted \cup (ExpiredWorking \cap controllers)

SweptControllers == controllers \ ExpiredWorking

-----------------------------------------------------------------------------
\* create(): sweep, register a working task and its controller, and queue the
\* microtask that will call the producer.
Create(id) ==
    /\ chain[id] = "idle"
    /\ tasks' = [Swept EXCEPT ![id] = [status |-> "working", lastUpdatedAt |-> now, body |-> "none"]]
    /\ controllers' = SweptControllers \cup {id}
    /\ aborted' = SweptAborted
    /\ chain' = [chain EXCEPT ![id] = "queued"]
    /\ UNCHANGED now

\* get(): sweep, then look the task up.  The reply is Swept[id]; an absent
\* task is answered with "invalid taskId".
Get ==
    /\ tasks' = Swept
    /\ controllers' = SweptControllers
    /\ aborted' = SweptAborted
    /\ UNCHANGED <<chain, now>>

CancelMutant(id) ==
    /\ tasks' = IF Swept[id].status = "working"
                THEN [Swept EXCEPT ![id] = [status |-> "cancelled", lastUpdatedAt |-> now, body |-> "none"]]
                ELSE Swept
    /\ controllers' = SweptControllers
    /\ aborted' = SweptAborted
    /\ UNCHANGED <<chain, now>>

\* cancel(): sweep; a task that is still working is aborted and marked
\* cancelled, any other one is only looked up.  The controller stays
\* registered until the promise chain ends.
Cancel(id) ==
    /\ IF Swept[id].status = "working"
       THEN /\ tasks' = [Swept EXCEPT ![id] = [status |-> "cancelled", lastUpdatedAt |-> now, body |-> "none"]]
            /\ aborted' = SweptAborted \cup ({id} \cap SweptControllers)
       ELSE /\ tasks' = Swept
            /\ aborted' = SweptAborted
    /\ controllers' = SweptControllers
    /\ UNCHANGED <<chain, now>>

-----------------------------------------------------------------------------
\* The first microtask: throwIfAborted, else produce(signal) is called.
StartProduce(id) ==
    /\ chain[id] = "queued"
    /\ chain' = [chain EXCEPT ![id] = IF id \in aborted THEN "rejected" ELSE "running"]
    /\ UNCHANGED <<tasks, controllers, aborted, now>>

\* The producer's promise settles.  An aborted producer may still resolve: the
\* proof may be done when the signal fires, and some provers ignore it.
ProducerSettles(id) ==
    /\ chain[id] = "running"
    /\ \E outcome \in {"resolved", "rejected"} : chain' = [chain EXCEPT ![id] = outcome]
    /\ UNCHANGED <<tasks, controllers, aborted, now>>

\* update() and fail() change only a task that is still working.
PublishMutant(id, status, body) ==
    IF tasks[id].status \in {"working", "cancelled"}
    THEN [tasks EXCEPT ![id] = [status |-> status, lastUpdatedAt |-> now, body |-> body]]
    ELSE tasks

Publish(id, status, body) ==
    IF tasks[id].status = "working"
    THEN [tasks EXCEPT ![id] = [status |-> status, lastUpdatedAt |-> now, body |-> body]]
    ELSE tasks

\* The then callback: update(taskId, "completed", result).
PublishResult(id) ==
    /\ chain[id] = "resolved"
    /\ tasks' = Publish(id, "completed", "result")
    /\ chain' = [chain EXCEPT ![id] = "settled"]
    /\ UNCHANGED <<controllers, aborted, now>>

\* The catch callback: fail(taskId, error).
PublishError(id) ==
    /\ chain[id] = "rejected"
    /\ tasks' = Publish(id, "failed", "error")
    /\ chain' = [chain EXCEPT ![id] = "settled"]
    /\ UNCHANGED <<controllers, aborted, now>>

ReleaseControllerMutant(id) ==
    /\ chain[id] = "settled"
    /\ chain' = [chain EXCEPT ![id] = "done"]
    /\ UNCHANGED <<tasks, controllers, aborted, now>>

\* The finally callback: the controller is dropped.
ReleaseController(id) ==
    /\ chain[id] = "settled"
    /\ controllers' = controllers \ {id}
    /\ chain' = [chain EXCEPT ![id] = "done"]
    /\ UNCHANGED <<tasks, aborted, now>>

Tick ==
    /\ now < MaxTime
    /\ now' = now + 1
    /\ UNCHANGED <<tasks, controllers, aborted, chain>>

ChainStep(id) ==
    \/ StartProduce(id)
    \/ ProducerSettles(id)
    \/ PublishResult(id)
    \/ PublishError(id)
    \/ ReleaseController(id)

Next ==
    \/ \E id \in Ids : Create(id)
    \/ Get
    \/ \E id \in Ids : Cancel(id)
    \/ \E id \in Ids : ChainStep(id)
    \/ Tick

Spec == Init /\ [][Next]_vars

-----------------------------------------------------------------------------
(***************************************************************************)
(* Properties.                                                             *)
(***************************************************************************)

\* A task reported as working can still be stopped and will still be settled:
\* its controller is registered, its signal has not fired and its promise
\* chain has a callback left that publishes an outcome (tasks.ts:16-21).
WorkingIsLive ==
    \A id \in Ids : tasks[id].status = "working" =>
        /\ id \in controllers
        /\ id \notin aborted
        /\ chain[id] \in {"queued", "running", "resolved", "rejected"}

\* A producer that was told to stop never has its outcome published, and only
\* such a producer's task is cancelled or expired: cancel and the sweep abort
\* what they stop (tasks.ts:29, 39), and what settles late is ignored
\* (tasks.ts:51, 58).
StoppedIffAborted ==
    \A id \in Ids :
        /\ tasks[id].status = "cancelled" \/ tasks[id].body = "taskExpired" => id \in aborted
        /\ id \in aborted => \/ tasks[id].status \in {"absent", "cancelled"}
                             \/ tasks[id].body = "taskExpired"

\* Every task carries what its status promises: pollTask returns the result of
\* a completed task and would report "task completed" as an error without one
\* (packages/client/src/tasks.ts:11-15).
BodyMatchesStatus ==
    \A id \in Ids :
        /\ tasks[id].status = "completed" <=> tasks[id].body = "result"
        /\ tasks[id].status = "failed" <=> tasks[id].body \in {"error", "taskExpired"}

\* No controller outlives its promise chain (controllerCount returns to 0 once
\* the producers have settled, tasks.ts:9, 21, 40).
NoControllerLeak ==
    \A id \in controllers : chain[id] \notin {"idle", "done"}

\* A step leaves a finished task alone or forgets it after its TTL, and never
\* forgets a working one.
KeepsOutcome(id) ==
    /\ tasks[id].status \in Terminal /\ tasks'[id] # tasks[id] =>
           /\ tasks'[id] = AbsentTask
           /\ now > tasks[id].lastUpdatedAt + TTL
    /\ tasks[id].status = "working" => tasks'[id].status # "absent"

\* A finished task does not change until it is forgotten, and is forgotten only
\* when more than TTL has passed since it finished: a client has TTL to collect
\* the outcome, and a task is never forgotten while working (tasks.ts:37-46).
FinishedIsFinal == [][\A id \in Ids : KeepsOutcome(id)]_vars

=============================================================================
