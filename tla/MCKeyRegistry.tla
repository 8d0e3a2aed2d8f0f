--------------------------- MODULE MCKeyRegistry ---------------------------
(***************************************************************************)
(* A small instance of KeyRegistry: two overlapping callers, two hashes, a *)
(* key whose digest is the first hash, another good key and a malformed    *)
(* text.                                                                   *)
(***************************************************************************)
EXTENDS KeyRegistry, TLC

CONSTANTS c1, c2, h1, h2, key, otherKey, garbage, otherDigest

MCCalls == {c1, c2}
MCHashes == {h1, h2}
MCTexts == {key, otherKey, garbage}
MCMalformed == {garbage}
MCDigestOf == (key :> h1) @@ (otherKey :> h2) @@ (garbage :> otherDigest)

CallSymmetry == Permutations(MCCalls)

=============================================================================
