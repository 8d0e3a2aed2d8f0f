-------------------------- MODULE MCTeeAttestation --------------------------
(***************************************************************************)
(* A pinned enclave, one of another image on the same platform, and one of *)
(* the pinned image on a platform that the root did not certify; a         *)
(* statement of a pinned circuit and one of a circuit without pins.  The   *)
(* pinned enclave's bundle is any arrangement of two or three of the root, *)
(* an intermediate certificate and an expired twin of it; the uncertified  *)
(* platform's leads to a certificate that only bears the root's name, and  *)
(* in a circle.                                                            *)
(***************************************************************************)
EXTENDS TeeAttestation, TLC

CONSTANTS s1, unpinned, n1, n2

Cert(subject, issuer, key, signer, from, to) ==
    [subject |-> subject, issuer |-> issuer, key |-> key, signer |-> signer, from |-> from, to |-> to]

MCCertificates ==
       ("root" :> Cert("R", "R", "kr", "kr", 0, 9))
    @@ ("middle" :> Cert("M", "R", "km", "kr", 0, 3))
    @@ ("expired" :> Cert("M", "R", "km", "kr", -2, -1))
    @@ ("leaf" :> Cert("L", "M", "kl", "km", 0, 9))
    @@ ("falseRoot" :> Cert("R", "X", "kf", "kx", 0, 9))
    @@ ("cross" :> Cert("X", "R", "kx", "kf", 0, 9))
    @@ ("stray" :> Cert("S", "R", "ks", "kf", 0, 9))

Arrangements(S) == {s \in UNION {[1..n -> S] : n \in 2..Cardinality(S)} : IsInjective(s)}

MCEnclaves == {"pinned", "otherImage", "otherPlatform"}
MCLeaf == [e \in MCEnclaves |-> IF e = "otherPlatform" THEN "stray" ELSE "leaf"]
MCBundles ==
    [e \in MCEnclaves |->
        CASE e = "pinned" -> Arrangements({"root", "middle", "expired"})
          [] e = "otherImage" -> {<<"middle", "root">>}
          [] OTHER -> {<<"falseRoot", "cross", "root">>}]
MCStatements == {s1, unpinned}
Image == (0 :> "image") @@ (1 :> "kernel")
MCPinnedPcrs == [s \in MCStatements |-> IF s = unpinned THEN Undefined ELSE Image]
MCPcrs ==
    [e \in MCEnclaves |-> IF e = "otherImage" THEN (0 :> "other") @@ (1 :> "kernel")
                          ELSE Image @@ (8 :> "signer")]
MCUserData == [e \in MCEnclaves |-> "service"]

MCNonces == {n1, n2}
Symmetry == Permutations(MCNonces)
MCSkew == [e \in MCEnclaves |-> IF e = "pinned" THEN 1 ELSE 0]

=============================================================================
