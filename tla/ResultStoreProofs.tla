------------------------- MODULE ResultStoreProofs -------------------------
(***************************************************************************)
(* The store of deferred-proof results implements ResultRetention, and     *)
(* deletes witnesses in time, for every TTL, timer period and set of ids.  *)
(***************************************************************************)
EXTENDS ResultStore, TLAPS

\* The maps hold what was issued: a retained result is the issued one, a
\* tombstone carries the time its result expired, and what is in neither map
\* is older than 3 * TTL.
MapsMatchHistory ==
    /\ DOMAIN results \subseteq DOMAIN issued
    /\ DOMAIN expired \subseteq DOMAIN issued
    /\ \A id \in DOMAIN results : results[id] = issued[id]
    /\ \A id \in DOMAIN expired : /\ expired[id] = issued[id].createdAt + TTL
                                  /\ expired[id] <= now
    /\ OneEntryPerResult

\* The timer is never overdue, and what it left was not yet stale.
TimerOnTime ==
    ~closed => /\ now <= sweptAt + Period
               /\ \A id \in DOMAIN results : results[id].createdAt + TTL >= sweptAt

IInv == TypeOK /\ sweptAt <= now /\ MapsMatchHistory /\ TimerOnTime

-----------------------------------------------------------------------------
\* The maps a sweep leaves, entry by entry (prove.ts:38-49).
LEMMA SweepEffect ==
    ASSUME IInv
    PROVE  /\ DOMAIN SweptResults = {id \in DOMAIN results : now < results[id].createdAt + TTL}
           /\ \A id \in DOMAIN SweptResults : SweptResults[id] = issued[id]
           /\ DOMAIN SweptExpired \subseteq DOMAIN issued
           /\ \A id \in DOMAIN SweptExpired :
                /\ SweptExpired[id] = issued[id].createdAt + TTL
                /\ SweptExpired[id] <= now
           /\ DOMAIN SweptResults \cap DOMAIN SweptExpired = {}
           /\ \A id \in DOMAIN issued \ (DOMAIN SweptResults \cup DOMAIN SweptExpired) :
                now >= issued[id].createdAt + 3 * TTL
           /\ \A id \in DOMAIN SweptExpired : now < issued[id].createdAt + 3 * TTL
<1> USE ResultStoreAssumption DEF IInv, TypeOK, Entry, MapsMatchHistory, OneEntryPerResult
<1>1. \A id \in DOMAIN results : results[id].createdAt \in Nat
  OBVIOUS
<1>2. /\ DOMAIN SweptResults = {id \in DOMAIN results : now < results[id].createdAt + TTL}
      /\ \A id \in DOMAIN SweptResults : SweptResults[id] = issued[id]
  BY <1>1 DEF SweptResults, Stale
<1>3. /\ DOMAIN Tombstones = DOMAIN expired \cup Stale
      /\ \A id \in DOMAIN Tombstones :
           /\ id \in DOMAIN issued
           /\ Tombstones[id] = issued[id].createdAt + TTL
           /\ Tombstones[id] <= now
  BY <1>1 DEF Tombstones, Stale
<1>4. /\ DOMAIN SweptExpired = {id \in DOMAIN Tombstones : Tombstones[id] + TTL * 2 > now}
      /\ \A id \in DOMAIN SweptExpired : SweptExpired[id] = Tombstones[id]
  BY DEF SweptExpired
<1>5. \A id \in DOMAIN issued : issued[id].createdAt \in Nat
  OBVIOUS
<1>6. \A id \in DOMAIN SweptExpired : now < issued[id].createdAt + 3 * TTL
  BY <1>3, <1>4, <1>5
<1>7. DOMAIN SweptResults \cap DOMAIN SweptExpired = {}
  BY <1>2, <1>3, <1>4 DEF Stale
<1>8. \A id \in DOMAIN issued \ (DOMAIN SweptResults \cup DOMAIN SweptExpired) :
        now >= issued[id].createdAt + 3 * TTL
  <2> SUFFICES ASSUME NEW id \in DOMAIN issued, id \notin DOMAIN SweptResults, id \notin DOMAIN SweptExpired
               PROVE  now >= issued[id].createdAt + 3 * TTL
    OBVIOUS
  <2>1. CASE id \in DOMAIN Tombstones
    BY <2>1, <1>3, <1>4, <1>5
  <2>2. CASE id \notin DOMAIN Tombstones
    BY <2>2, <1>1, <1>2, <1>3 DEF Stale
  <2>3. QED
    BY <2>1, <2>2
<1>9. QED
  BY <1>2, <1>3, <1>4, <1>6, <1>7, <1>8

\* The maps after a sweep have the types of the maps before it.
LEMMA SweepTypes ==
    ASSUME IInv
    PROVE  /\ DOMAIN SweptResults \subseteq DOMAIN results
           /\ SweptResults \in [DOMAIN SweptResults -> Entry]
           /\ DOMAIN SweptExpired \subseteq Ids
           /\ SweptExpired \in [DOMAIN SweptExpired -> Nat]
<1> USE ResultStoreAssumption DEF IInv, TypeOK, Entry
<1>1. DOMAIN SweptResults \subseteq DOMAIN results /\ SweptResults \in [DOMAIN SweptResults -> Entry]
  BY DEF SweptResults
<1>2. Tombstones \in [DOMAIN Tombstones -> Nat] /\ DOMAIN Tombstones \subseteq Ids
  BY DEF Tombstones, Stale
<1>3. QED
  BY <1>1, <1>2 DEF SweptExpired

\* A step that only sweeps keeps the invariant.
LEMMA SweepPreserves ==
    ASSUME IInv, results' = SweptResults, expired' = SweptExpired,
           issued' = issued, now' = now, closed' = closed, answer' \in Answers,
           sweptAt' = sweptAt \/ sweptAt' = now
    PROVE  IInv'
<1> USE ResultStoreAssumption
<1>1. TypeOK'
  BY SweepTypes DEF IInv, TypeOK
<1>2. MapsMatchHistory'
  BY SweepEffect DEF IInv, MapsMatchHistory, OneEntryPerResult
<1>3. TimerOnTime' /\ sweptAt' <= now'
  BY SweepEffect, SweepTypes DEF IInv, TypeOK, Entry, TimerOnTime, MapsMatchHistory
<1>4. QED
  BY <1>1, <1>2, <1>3 DEF IInv

\* get() answers exactly what the age of the result says.
LEMMA GetAnswers ==
    ASSUME IInv, NEW id \in Ids, Get(id)
    PROVE  answer' = Retention!Answer(id) /\ answer' \in Answers
<1> USE ResultStoreAssumption
<1>1. \A j \in DOMAIN issued : issued[j].createdAt \in Nat /\ issued[j].content \in Contents
  BY DEF IInv, TypeOK, Entry
<1>2. now \in Nat
  BY DEF IInv, TypeOK
<1>3. CASE id \in DOMAIN SweptResults
  <2>1. id \in DOMAIN issued /\ SweptResults[id] = issued[id] /\ now < issued[id].createdAt + TTL
    BY <1>3, SweepEffect DEF IInv, MapsMatchHistory
  <2>2. answer' = <<id, "record", issued[id].content>>
    BY <1>3, <2>1 DEF Get
  <2>3. QED
    BY <1>1, <1>2, <2>1, <2>2 DEF Retention!Answer, Answers
<1>4. CASE id \notin DOMAIN SweptResults /\ id \in DOMAIN SweptExpired
  <2>1. /\ id \in DOMAIN issued
        /\ now >= issued[id].createdAt + TTL
        /\ now < issued[id].createdAt + 3 * TTL
    BY <1>4, SweepEffect
  <2>2. answer' = <<id, "expired">>
    BY <1>4 DEF Get
  <2>3. QED
    BY <1>1, <1>2, <2>1, <2>2 DEF Retention!Answer, Answers
<1>5. CASE id \notin DOMAIN SweptResults /\ id \notin DOMAIN SweptExpired
  <2>1. id \in DOMAIN issued => now >= issued[id].createdAt + 3 * TTL
    BY <1>5, SweepEffect
  <2>2. answer' = <<id, "notFound">>
    BY <1>5 DEF Get
  <2>3. QED
    BY <1>1, <1>2, <2>1, <2>2 DEF Retention!Answer, Answers
<1>6. QED
  BY <1>3, <1>4, <1>5

\* put() after the sweep: the new entry is the issued one.
LEMMA PutPreserves ==
    ASSUME IInv, NEW id \in Ids, NEW content \in Contents, Put(id, content)
    PROVE  IInv'
<1> USE ResultStoreAssumption
<1> DEFINE new == [content |-> content, createdAt |-> now]
<1>1. /\ id \notin DOMAIN issued
      /\ results' = [j \in DOMAIN SweptResults \cup {id} |-> IF j = id THEN new ELSE SweptResults[j]]
      /\ issued' = [j \in DOMAIN issued \cup {id} |-> IF j = id THEN new ELSE issued[j]]
      /\ expired' = SweptExpired
      /\ sweptAt' = sweptAt /\ closed' = closed /\ answer' = answer /\ now' = now
  BY DEF Put, Retention!Extend
<1>2. /\ DOMAIN results' = DOMAIN SweptResults \cup {id} /\ results'[id] = new
      /\ \A j \in DOMAIN SweptResults : j # id => results'[j] = SweptResults[j]
      /\ DOMAIN issued' = DOMAIN issued \cup {id} /\ issued'[id] = new
      /\ \A j \in DOMAIN issued : issued'[j] = issued[j]
  BY <1>1
<1>3. id \notin DOMAIN SweptResults /\ id \notin DOMAIN SweptExpired
  BY <1>1, SweepEffect DEF IInv, MapsMatchHistory
<1>4. new \in Entry /\ now \in Nat
  BY DEF Entry, IInv, TypeOK
<1>5. TypeOK'
  <2>1. results' \in [DOMAIN results' -> Entry] /\ DOMAIN results' \subseteq Ids
    BY <1>1, <1>2, <1>4, SweepTypes DEF IInv, TypeOK
  <2>2. issued' \in [DOMAIN issued' -> Entry] /\ DOMAIN issued' \subseteq Ids
    BY <1>1, <1>2, <1>4 DEF IInv, TypeOK
  <2>3. QED
    BY <1>1, <2>1, <2>2, SweepTypes DEF IInv, TypeOK
<1>6. MapsMatchHistory'
  <2>1. \A j \in DOMAIN results' : j \in DOMAIN issued' /\ results'[j] = issued'[j]
    BY <1>2, <1>3, SweepEffect DEF IInv, MapsMatchHistory
  <2>2. \A j \in DOMAIN expired' : /\ j \in DOMAIN issued'
                                   /\ expired'[j] = issued'[j].createdAt + TTL
                                   /\ expired'[j] <= now'
    BY <1>1, <1>2, SweepEffect
  <2>3. OneEntryPerResult'
    BY <1>1, <1>2, <1>3, SweepEffect DEF OneEntryPerResult
  <2>4. QED
    BY <2>1, <2>2, <2>3 DEF MapsMatchHistory
<1>7. TimerOnTime' /\ sweptAt' <= now'
  <2>1. now + TTL >= sweptAt
    BY <1>4 DEF IInv, TypeOK
  <2>2. \A j \in DOMAIN SweptResults : SweptResults[j] = results[j] /\ j \in DOMAIN results
    BY SweepEffect DEF IInv, MapsMatchHistory
  <2>3. QED
    BY <1>1, <1>2, <2>1, <2>2 DEF IInv, TimerOnTime
<1>8. QED
  BY <1>5, <1>6, <1>7 DEF IInv

-----------------------------------------------------------------------------
\* The maps agree with the history of what was put, and the timer is on time,
\* in every reachable state.
THEOREM StoreInvariant == Spec => []IInv
<1> USE ResultStoreAssumption
<1>1. Init => IInv
  <2> SUFFICES ASSUME Init
               PROVE  IInv
    OBVIOUS
  <2>1. /\ DOMAIN results = {} /\ DOMAIN expired = {} /\ DOMAIN issued = {}
        /\ results \in [{} -> Entry] /\ expired \in [{} -> Nat] /\ issued \in [{} -> Entry]
    BY DEF Init, Retention!NoEntries
  <2>2. answer \in Answers
    BY DEF Init, Answers
  <2>3. TypeOK /\ sweptAt <= now
    <3>1. sweptAt \in Nat /\ now \in Nat /\ sweptAt <= now
      BY DEF Init
    <3>2. closed \in BOOLEAN
      BY DEF Init
    <3>3. QED
      BY <2>1, <2>2, <3>1, <3>2, Zenon DEF TypeOK
  <2>4. MapsMatchHistory
    BY <2>1 DEF MapsMatchHistory, OneEntryPerResult
  <2>5. TimerOnTime
    BY <2>1 DEF Init, TimerOnTime
  <2>6. QED
    BY <2>3, <2>4, <2>5 DEF IInv
<1>2. IInv /\ [Next]_vars => IInv'
  <2> SUFFICES ASSUME IInv, [Next]_vars
               PROVE  IInv'
    OBVIOUS
  <2>1. ASSUME NEW id \in Ids, NEW content \in Contents, Put(id, content)
        PROVE  IInv'
    BY <2>1, PutPreserves
  <2>2. ASSUME NEW id \in Ids, Get(id)
        PROVE  IInv'
    <3>1. answer' \in Answers
      BY <2>2, GetAnswers
    <3>2. QED
      BY <2>2, <3>1, SweepPreserves DEF Get
  <2>3. CASE TimerSweep
    <3>1. answer' \in Answers
      BY <2>3 DEF TimerSweep, IInv, TypeOK
    <3>2. QED
      BY <2>3, <3>1, SweepPreserves DEF TimerSweep
  <2>4. CASE Close
    BY <2>4 DEF Close, IInv, TypeOK, MapsMatchHistory, OneEntryPerResult, TimerOnTime
  <2>5. CASE Tick
    <3>1. now' = now + 1 /\ UNCHANGED <<results, expired, sweptAt, closed, answer, issued>>
      BY <2>5 DEF Tick
    <3>2. TypeOK' /\ sweptAt' <= now'
      BY <3>1 DEF IInv, TypeOK
    <3>3. MapsMatchHistory'
      BY <3>1 DEF IInv, TypeOK, Entry, MapsMatchHistory, OneEntryPerResult
    <3>4. TimerOnTime'
      BY <2>5, <3>1 DEF Tick, IInv, TypeOK, TimerOnTime
    <3>5. QED
      BY <3>2, <3>3, <3>4 DEF IInv
  <2>6. CASE UNCHANGED vars
    BY <2>6 DEF vars, IInv, TypeOK, MapsMatchHistory, OneEntryPerResult, TimerOnTime
  <2>7. QED
    BY <2>1, <2>2, <2>3, <2>4, <2>5, <2>6 DEF Next
<1>3. QED
  BY <1>1, <1>2, PTL DEF Spec

\* No witness outlives its TTL by more than a timer period.
THEOREM WitnessesDeletedInTime == Spec => []WitnessDeletedInTime
<1>1. IInv => WitnessDeletedInTime
  BY ResultStoreAssumption DEF IInv, TypeOK, Entry, TimerOnTime, WitnessDeletedInTime
<1>2. QED
  BY <1>1, StoreInvariant, PTL

\* A result is in one map at most, and in none only after three TTLs.
THEOREM OneEntryEach == Spec => []OneEntryPerResult
<1>1. IInv => OneEntryPerResult
  BY DEF IInv, MapsMatchHistory
<1>2. QED
  BY <1>1, StoreInvariant, PTL

\* The store refines ResultRetention: whatever the schedule of sweeps, lookups
\* are answered by age alone.
THEOREM Refinement == Spec => ImplementsRetention
<1>1. Init => Retention!RetentionInit
  BY DEF Init, Retention!RetentionInit
<1>2. IInv /\ [Next]_vars => [Retention!RetentionNext]_(Retention!retentionVars)
  <2> SUFFICES ASSUME IInv, [Next]_vars
               PROVE  [Retention!RetentionNext]_(Retention!retentionVars)
    OBVIOUS
  <2> USE DEF Retention!RetentionNext, Retention!retentionVars
  <2>1. ASSUME NEW id \in Ids, NEW content \in Contents, Put(id, content)
        PROVE  Retention!Issue(id, content)
    BY <2>1 DEF Put, Retention!Issue
  <2>2. ASSUME NEW id \in Ids, Get(id)
        PROVE  Retention!Lookup(id)
    BY <2>2, GetAnswers DEF Get, Retention!Lookup
  <2>3. CASE TimerSweep
    BY <2>3 DEF TimerSweep
  <2>4. CASE Close
    BY <2>4 DEF Close
  <2>5. CASE Tick
    BY <2>5 DEF Tick, Retention!Elapse
  <2>6. CASE UNCHANGED vars
    BY <2>6 DEF vars
  <2>7. QED
    BY <2>1, <2>2, <2>3, <2>4, <2>5, <2>6 DEF Next
<1>3. QED
  BY <1>1, <1>2, StoreInvariant, PTL DEF Spec, ImplementsRetention, Retention!RetentionSpec

=============================================================================
