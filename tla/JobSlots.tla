------------------------------ MODULE JobSlots ------------------------------
(***************************************************************************)
(* What MAX_CONCURRENT_PROOFS and MAX_CONCURRENT_ATTESTATIONS promise: of  *)
(* the jobs a sidecar may run, at most Limit hold a slot at any time; a    *)
(* job takes a free slot, one at a time, and gives it back.  The threading *)
(* Semaphore of sidecars/ezkl/server.py (acquire without blocking, release *)
(* in a finally) is this as it stands.                                     *)
(***************************************************************************)
EXTENDS Naturals, FiniteSets

CONSTANTS Jobs, Limit

VARIABLE holders

SlotsInit == holders = {}

Acquire(j) ==
    /\ j \notin holders
    /\ Cardinality(holders) < Limit
    /\ holders' = holders \cup {j}

Release(j) ==
    /\ j \in holders
    /\ holders' = holders \ {j}

SlotsNext == \E j \in Jobs : Acquire(j) \/ Release(j)

SlotsSpec == SlotsInit /\ [][SlotsNext]_holders

=============================================================================
