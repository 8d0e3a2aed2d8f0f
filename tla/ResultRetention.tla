-------------------------- MODULE ResultRetention --------------------------
(***************************************************************************)
(* What the store of deferred-proof results promises: the answer to a      *)
(* lookup is a function of the age of the result alone.  A result can be   *)
(* proven for TTL, is reported as expired for 2 * TTL more, and is then    *)
(* unknown.  Nothing is said of sweeps, timers or maps.                    *)
(***************************************************************************)
EXTENDS Naturals

CONSTANTS
    Ids,       \* result ids
    Contents,  \* what a stored result holds (tool, arguments, content, nonce)
    TTL,       \* ttlMs, in clock ticks
    MaxTime    \* bound on the clock

VARIABLES
    issued,  \* resultId -> what was stored under it, and when
    answer,  \* the answer to the last lookup
    now      \* Date.now()

retentionVars == <<issued, answer, now>>

NoEntries == [id \in {} |-> 0]

\* The map f with `id` set to v.
Extend(f, id, v) == [j \in DOMAIN f \cup {id} |-> IF j = id THEN v ELSE f[j]]

RetentionInit == issued = NoEntries /\ answer = <<>> /\ now = 0

Answer(id) ==
    IF id \notin DOMAIN issued \/ now >= issued[id].createdAt + 3 * TTL
    THEN <<id, "notFound">>
    ELSE IF now >= issued[id].createdAt + TTL
         THEN <<id, "expired">>
         ELSE <<id, "record", issued[id].content>>

Issue(id, content) ==
    /\ id \notin DOMAIN issued
    /\ issued' = Extend(issued, id, [content |-> content, createdAt |-> now])
    /\ UNCHANGED <<answer, now>>

Lookup(id) ==
    /\ answer' = Answer(id)
    /\ UNCHANGED <<issued, now>>

Elapse ==
    /\ now < MaxTime
    /\ now' = now + 1
    /\ UNCHANGED <<issued, answer>>

RetentionNext ==
    \/ \E id \in Ids, content \in Contents : Issue(id, content)
    \/ \E id \in Ids : Lookup(id)
    \/ Elapse

RetentionSpec == RetentionInit /\ [][RetentionNext]_retentionVars

=============================================================================
