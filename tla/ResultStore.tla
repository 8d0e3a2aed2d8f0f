---------------------------- MODULE ResultStore ----------------------------
(***************************************************************************)
(* The store behind deferred proofs (packages/server/src/prove.ts): a map  *)
(* of retained results, a map of tombstones, and a sweep that moves a      *)
(* result from the first to the second and finally drops it.  The sweep    *)
(* runs inside every operation and on an interval timer, until close().    *)
(***************************************************************************)
EXTENDS Naturals

CONSTANTS
    Ids,       \* the result ids randomBytes(16) will hand out
    Contents,  \* what put() is given: tool, arguments, salt, content, nonce
    TTL,       \* ttlMs, in clock ticks
    Period,    \* the timer's interval, min(ttlMs, 1000)
    MaxTime    \* bound on the clock

ASSUME ResultStoreAssumption ==
    TTL \in Nat /\ Period \in Nat \ {0} /\ MaxTime \in Nat

VARIABLES
    results,   \* resultId -> StoredResult
    expired,   \* resultId -> expiresAt, the tombstones
    sweptAt,   \* when the timer last fired
    closed,    \* close() was called
    answer,    \* what the last get() returned
    issued,    \* history: everything put() ever stored
    now        \* Date.now()

vars == <<results, expired, sweptAt, closed, answer, issued, now>>

Retention == INSTANCE ResultRetention

Entry == [content : Contents, createdAt : Nat]

Answers ==
    {<<>>} \cup (Ids \X {"notFound", "expired"}) \cup (Ids \X {"record"} \X Contents)

TypeOK ==
    /\ DOMAIN results \subseteq Ids /\ results \in [DOMAIN results -> Entry]
    /\ DOMAIN expired \subseteq Ids /\ expired \in [DOMAIN expired -> Nat]
    /\ DOMAIN issued \subseteq Ids /\ issued \in [DOMAIN issued -> Entry]
    /\ sweptAt \in Nat /\ now \in Nat
    /\ closed \in BOOLEAN
    /\ answer \in Answers

Init ==
    /\ results = Retention!NoEntries
    /\ expired = Retention!NoEntries
    /\ issued = Retention!NoEntries
    /\ sweptAt = 0
    /\ closed = FALSE
    /\ answer = <<>>
    /\ now = 0

-----------------------------------------------------------------------------
(***************************************************************************)
(* sweep(): the first loop moves stale results to tombstones that remember *)
(* when they expired, the second drops the old tombstones, the ones just   *)
(* made included.                                                          *)
(***************************************************************************)
StaleMutant == {id \in DOMAIN results : results[id].createdAt + TTL < now}

Stale == {id \in DOMAIN results : results[id].createdAt + TTL <= now}

SweptResults == [id \in DOMAIN results \ Stale |-> results[id]]

Tombstones ==
    [id \in DOMAIN expired \cup Stale |->
        IF id \in Stale THEN results[id].createdAt + TTL ELSE expired[id]]

SweptExpiredMutant ==
    [id \in {j \in DOMAIN Tombstones : Tombstones[j] + TTL > now} |-> Tombstones[id]]

SweptExpired ==
    [id \in {j \in DOMAIN Tombstones : Tombstones[j] + TTL * 2 > now} |-> Tombstones[id]]

-----------------------------------------------------------------------------
\* put(): sweep, then store the result under a fresh id.
Put(id, content) ==
    /\ id \notin DOMAIN issued
    /\ results' = Retention!Extend(SweptResults, id, [content |-> content, createdAt |-> now])
    /\ expired' = SweptExpired
    /\ issued' = Retention!Extend(issued, id, [content |-> content, createdAt |-> now])
    /\ UNCHANGED <<sweptAt, closed, answer, now>>

\* get(): sweep, then look in both maps.
Get(id) ==
    /\ results' = SweptResults
    /\ expired' = SweptExpired
    /\ answer' = IF id \in DOMAIN SweptResults
                 THEN <<id, "record", SweptResults[id].content>>
                 ELSE IF id \in DOMAIN SweptExpired
                      THEN <<id, "expired">>
                      ELSE <<id, "notFound">>
    /\ UNCHANGED <<sweptAt, closed, issued, now>>

TimerSweepMutant ==
    /\ ~closed
    /\ now >= sweptAt + Period
    /\ sweptAt' = now
    /\ UNCHANGED <<results, expired, closed, answer, issued, now>>

\* The interval timer fires.
TimerSweep ==
    /\ ~closed
    /\ now >= sweptAt + Period
    /\ results' = SweptResults
    /\ expired' = SweptExpired
    /\ sweptAt' = now
    /\ UNCHANGED <<closed, answer, issued, now>>

\* close(): the timer is cleared; the maps stay, and put/get still work.
Close ==
    /\ ~closed
    /\ closed' = TRUE
    /\ UNCHANGED <<results, expired, sweptAt, answer, issued, now>>

\* Time passes; a timer that is due fires first.
Tick ==
    /\ now < MaxTime
    /\ closed \/ now < sweptAt + Period
    /\ now' = now + 1
    /\ UNCHANGED <<results, expired, sweptAt, closed, answer, issued>>

Next ==
    \/ \E id \in Ids, content \in Contents : Put(id, content)
    \/ \E id \in Ids : Get(id)
    \/ TimerSweep
    \/ Close
    \/ Tick

Spec == Init /\ [][Next]_vars

-----------------------------------------------------------------------------
\* However seldom the store is swept, every lookup is answered by the age of
\* the result alone: provable for TTL, resultExpired for 2 * TTL more, then
\* resultNotFound (prove.ts:31-49; docs/SECURITY.md on resultId values).
ImplementsRetention == Retention!RetentionSpec

\* While the timer runs, a retained witness is deleted at most one timer
\* period after its TTL, with or without traffic (prove.ts:20, 38-45; "MUST
\* delete the retained witness", docs/spec/verifiable-tools.md:472).
WitnessDeletedInTime ==
    ~closed => \A id \in DOMAIN results : now <= results[id].createdAt + TTL + Period

\* A result is retained or remembered in one map only, and is unknown only
\* once its tombstone has been kept for 2 * TTL (prove.ts:41-47).
OneEntryPerResult ==
    /\ DOMAIN results \cap DOMAIN expired = {}
    /\ \A id \in DOMAIN issued \ (DOMAIN results \cup DOMAIN expired) :
           now >= issued[id].createdAt + 3 * TTL

=============================================================================
