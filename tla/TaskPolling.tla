---------------------------- MODULE TaskPolling ----------------------------
(***************************************************************************)
(* Clients of the task store: tools/call answered with a task, pollTask    *)
(* (packages/client/src/tasks.ts) reading it with tasks/get until it       *)
(* settles or the client's own deadline passes, and tasks/cancel from      *)
(* anywhere.  Requests and replies take up to Latency ticks each way, so   *)
(* the store keeps changing under a reply that is on its way.              *)
(***************************************************************************)
EXTENDS TaskStore

CONSTANTS
    Interval,     \* pollIntervalMs
    Latency,      \* longest delay of one message, event-loop lag included
    CreateUntil   \* bound: no call is made after this time

\* The store keeps an outcome for TTL; a client sees the store at least once
\* every Interval + 2 * Latency.  (100 ms against 60 s in the defaults.)
ASSUME PollingAssumption ==
    /\ Interval \in Nat \ {0} /\ Latency \in Nat /\ CreateUntil \in Nat
    /\ Interval + 2 * Latency <= TTL

VARIABLES
    poll,      \* per task: where pollTask stands, and since when
    deadline,  \* pollTask's deadline
    reply,     \* the task record in the tasks/get reply under way
    outcome,   \* how pollTask ended
    cancelAck  \* the tasks whose tasks/cancel was answered "cancelled"

clientVars == <<poll, deadline, reply, outcome, cancelAck>>
allVars == <<vars, clientVars>>

PollInit ==
    /\ Init
    /\ poll = [id \in Ids |-> [pc |-> "idle", at |-> 0]]
    /\ deadline = [id \in Ids |-> 0]
    /\ reply = [id \in Ids |-> AbsentTask]
    /\ outcome = [id \in Ids |-> "none"]
    /\ cancelAck = {}

Goto(id, pc) == poll' = [poll EXCEPT ![id] = [pc |-> pc, at |-> now]]

Finish(id, how) ==
    /\ poll' = [poll EXCEPT ![id] = [pc |-> "done", at |-> now]]
    /\ outcome' = [outcome EXCEPT ![id] = how]

-----------------------------------------------------------------------------
\* tools/call on a task-shaped tool: the server creates the task and answers
\* with its envelope.
CallTool(id) ==
    /\ now <= CreateUntil
    /\ poll[id].pc = "idle"
    /\ Create(id)
    /\ Goto(id, "created")
    /\ UNCHANGED <<deadline, reply, outcome, cancelAck>>

\* pollTask is entered: it fixes its deadline and sends the first tasks/get.
StartPoll(id) ==
    /\ poll[id].pc = "created"
    /\ deadline' = [deadline EXCEPT ![id] = now + TTL]
    /\ Goto(id, "request")
    /\ UNCHANGED <<vars, reply, outcome, cancelAck>>

\* getTask on the server: the store's get, whose result is copied into the
\* reply.
GetTask(id) ==
    /\ poll[id].pc = "request"
    /\ Get
    /\ reply' = [reply EXCEPT ![id] = Swept[id]]
    /\ Goto(id, "reply")
    /\ UNCHANGED <<deadline, outcome, cancelAck>>

ReceiveMutant(id) ==
    /\ poll[id].pc = "reply"
    /\ CASE reply[id].status = "absent" -> Finish(id, "invalidTaskId")
         [] reply[id].status = "failed" -> Finish(id, "error")
         [] reply[id].status = "cancelled" -> Finish(id, "cancelled")
         [] OTHER -> Goto(id, "sleep") /\ UNCHANGED outcome
    /\ UNCHANGED <<vars, deadline, reply, cancelAck>>

\* The reply arrives: an error reply and every status but "working" end the
\* poll; otherwise it sleeps for pollIntervalMs.
Receive(id) ==
    /\ poll[id].pc = "reply"
    /\ CASE reply[id].status = "absent" -> Finish(id, "invalidTaskId")
         [] reply[id].status = "completed" /\ reply[id].body = "result" -> Finish(id, "result")
         [] reply[id].status = "completed" /\ reply[id].body # "result" -> Finish(id, "error")
         [] reply[id].status = "failed" -> Finish(id, "error")
         [] reply[id].status = "cancelled" -> Finish(id, "cancelled")
         [] reply[id].status = "working" -> Goto(id, "sleep") /\ UNCHANGED outcome
    /\ UNCHANGED <<vars, deadline, reply, cancelAck>>

WakeMutant(id) ==
    /\ poll[id].pc = "sleep"
    /\ now >= poll[id].at + Interval
    /\ now <= deadline[id]
    /\ Goto(id, "request")
    /\ UNCHANGED <<vars, deadline, reply, outcome, cancelAck>>

\* The sleep ends: the deadline is checked, then the next tasks/get is sent.
Wake(id) ==
    /\ poll[id].pc = "sleep"
    /\ now >= poll[id].at + Interval
    /\ IF now > deadline[id]
       THEN Finish(id, "timedOut")
       ELSE Goto(id, "request") /\ UNCHANGED outcome
    /\ UNCHANGED <<vars, deadline, reply, cancelAck>>

\* cancelTask on the server, for a task somebody has been told about; the
\* answer is the task after the call.
CancelTask(id) ==
    /\ poll[id].pc # "idle"
    /\ Cancel(id)
    /\ cancelAck' = IF tasks'[id].status = "cancelled" THEN cancelAck \cup {id} ELSE cancelAck
    /\ UNCHANGED <<poll, deadline, reply, outcome>>

\* tasks/get or tasks/cancel for some other id: it only sweeps.
OtherCall == Get /\ UNCHANGED clientVars

ServerStep(id) == ChainStep(id) /\ UNCHANGED clientVars

\* Messages arrive and timers fire before they are overdue.
NothingOverdue ==
    \A id \in Ids :
        /\ poll[id].pc \in {"created", "request", "reply"} => now < poll[id].at + Latency
        /\ poll[id].pc = "sleep" => now < poll[id].at + Interval

PollTick == NothingOverdue /\ Tick /\ UNCHANGED clientVars

PollNext ==
    \/ \E id \in Ids :
        \/ CallTool(id) \/ StartPoll(id) \/ GetTask(id) \/ Receive(id) \/ Wake(id)
        \/ CancelTask(id) \/ ServerStep(id)
    \/ OtherCall
    \/ PollTick

PollSpec == PollInit /\ [][PollNext]_allVars

\* Messages are delivered, timers fire and time passes.  Nothing is assumed of
\* the producer, which may hang for ever.
PollFairness ==
    /\ \A id \in Ids : /\ WF_allVars(StartPoll(id))
                       /\ WF_allVars(GetTask(id))
                       /\ WF_allVars(Receive(id))
                       /\ WF_allVars(Wake(id))
    /\ WF_allVars(PollTick)

FairPollSpec == PollSpec /\ PollFairness

-----------------------------------------------------------------------------
\* pollTask never learns that its task is gone: a status is kept for TTL after
\* the last change, the poller looks more often than that, and an expired task
\* is first reported as failed (server tasks.ts:37-46, client tasks.ts:9).
NeverForgotten == \A id \in Ids : outcome[id] # "invalidTaskId"

\* Once tasks/cancel has answered "cancelled", no client gets a result for the
\* task, whatever the producer does and whichever replies were on their way.
CancelIsObeyed ==
    \A id \in cancelAck : /\ outcome[id] # "result"
                          /\ poll[id].pc = "reply" => reply[id].status # "completed"

\* pollTask gives up on a task that has a result only when the task completed
\* within its last round, less than Interval + Latency before the deadline.
TimeoutIsHonest ==
    \A id \in Ids :
        outcome[id] = "timedOut" /\ tasks[id].status = "completed" =>
            tasks[id].lastUpdatedAt + Interval + Latency > deadline[id]

\* Every pollTask ends, even when the producer hangs (client tasks.ts:5-18).
PollTerminates == \A id \in Ids : poll[id].pc # "idle" ~> poll[id].pc = "done"

=============================================================================
