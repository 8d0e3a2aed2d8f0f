------------------------- MODULE TrustedKeysProofs -------------------------
(***************************************************************************)
(* How a client comes to trust a key, and what that is worth, for any      *)
(* number of callers, hashes, texts, enclaves and certificates.            *)
(*                                                                         *)
(* KeyRegistry: a verification key is pinned.  What makes the properties   *)
(* inductive is that a key is handed out only if it is the one the maps    *)
(* hold, and that the maps never change an entry.                          *)
(*                                                                         *)
(* TeeAttestation: an enclave's key is attested.  The certificate walk     *)
(* finds a valid chain, and the only one when issuers are unambiguous;     *)
(* what every enclave has issued ties its key, document and statement      *)
(* together, so that a signature that checks out names all of them.        *)
(***************************************************************************)
EXTENDS KeyRegistry, TeeAttestation, FiniteSetTheorems, WellFoundedInduction, TLAPS

(***************************************************************************)
(* The registry.                                                           *)
(***************************************************************************)
\* Every key handed out is the one its map still holds.
HandedArePinned ==
    \A a \in handed : a[3] = IF a[1] = "get" THEN keys[a[2]] ELSE bytes[a[2]]

\* The bytes a hash is mapped to are the ones it names.
BytesMatchHash == \A hash \in Hashes : bytes[hash] # None => DigestOf[bytes[hash]] = hash

\* The inductive invariant of the registry.
IInv == TypeOK /\ HandedArePinned /\ BytesMatchHash

\* No entry of either map changes once it is set: the state part of PinIsFinal.
KeepsPins ==
    \A hash \in Hashes : /\ keys[hash] # None => keys'[hash] = keys[hash]
                         /\ bytes[hash] # None => bytes'[hash] = bytes[hash]

-----------------------------------------------------------------------------
\* Handing out the text that `keys` will hold keeps handed keys pinned, when no
\* entry changes (createPublicKey at the end of get, registry.ts:8, 25).
LEMMA HandOutKeyPreserves ==
    ASSUME IInv, NEW c \in Calls, NEW hash \in Hashes, NEW text \in Texts,
           HandOutKey(c, hash, text), keys' = [keys EXCEPT ![hash] = text],
           keys[hash] \in {None, text}, UNCHANGED bytes
    PROVE  IInv' /\ KeepsPins
<1>1. call' \in [Calls -> Call]
  BY DEF IInv, TypeOK, HandOutKey, Call, Methods
<1>2. handed' \subseteq handed \cup {<<"get", hash, text>>}
  BY DEF HandOutKey
<1>3. handed' \in SUBSET (Methods \X Hashes \X Texts)
  BY <1>2 DEF IInv, TypeOK, Methods
<1>4. TypeOK'
  BY <1>1, <1>3 DEF IInv, TypeOK
<1>5. KeepsPins
  BY DEF IInv, TypeOK, KeepsPins
<1>6. HandedArePinned'
  <2> SUFFICES ASSUME NEW a \in handed'
               PROVE  a[3] = IF a[1] = "get" THEN keys'[a[2]] ELSE bytes'[a[2]]
    BY DEF HandedArePinned
  <2>1. CASE a = <<"get", hash, text>>
    BY <2>1 DEF IInv, TypeOK
  <2>2. CASE a \in handed
    <3>1. a \in Methods \X Hashes \X Texts
      BY <2>2 DEF IInv, TypeOK
    <3>2. a[3] # None
      BY <3>1, RegistryAssumption
    <3> QED
      BY <2>2, <3>1, <3>2, <1>5 DEF IInv, HandedArePinned, KeepsPins
  <2> QED
    BY <1>2, <2>1, <2>2
<1> QED
  BY <1>4, <1>5, <1>6 DEF IInv, BytesMatchHash

\* A step that hands out nothing and changes no map.
LEMMA QuietPreserves ==
    ASSUME IInv, call' \in [Calls -> Call], UNCHANGED <<keys, bytes, handed>>
    PROVE  IInv' /\ KeepsPins
BY DEF IInv, TypeOK, HandedArePinned, BytesMatchHash, KeepsPins

\* Every step of a call preserves the invariant and every pin.
LEMMA CallStepPreserves ==
    ASSUME IInv, NEW c \in Calls, CallStep(c)
    PROVE  IInv' /\ KeepsPins
<1> USE DEF Methods
<1>1. ASSUME NEW hash \in Hashes, GetPinned(c, hash) PROVE IInv' /\ KeepsPins
  <2>1. keys[hash] \in Texts
    BY <1>1 DEF IInv, TypeOK, GetPinned
  <2>2. keys' = [keys EXCEPT ![hash] = keys[hash]]
    BY <1>1 DEF IInv, TypeOK, GetPinned
  <2> QED
    BY <1>1, <2>1, <2>2, HandOutKeyPreserves DEF GetPinned
<1>2. ASSUME NEW hash \in Hashes, GetBytesKnown(c, hash) PROVE IInv' /\ KeepsPins
  <2>1. bytes[hash] \in Texts
    BY <1>2 DEF IInv, TypeOK, GetBytesKnown
  <2>2. TypeOK'
    BY <1>2, <2>1 DEF IInv, TypeOK, GetBytesKnown, Call
  <2> QED
    BY <1>2, <2>1, <2>2 DEF IInv, TypeOK, GetBytesKnown, HandedArePinned, BytesMatchHash, KeepsPins
<1>3. ASSUME NEW hash \in Hashes, NEW method \in Methods, StartFetch(c, method, hash)
      PROVE  IInv' /\ KeepsPins
  <2>1. call' \in [Calls -> Call]
    BY <1>3 DEF IInv, TypeOK, StartFetch, Call
  <2> QED
    BY <1>3, <2>1, QuietPreserves DEF StartFetch
<1>4. ASSUME Reject(c) PROVE IInv' /\ KeepsPins
  <2>1. call' \in [Calls -> Call]
    BY <1>4 DEF IInv, TypeOK, Reject, Goto, Call
  <2> QED
    BY <1>4, <2>1, QuietPreserves DEF Reject
<1>5. ASSUME NEW text \in Texts, GetReturns(c, text) PROVE IInv' /\ KeepsPins
  <2>1. call[c].hash \in Hashes
    BY DEF IInv, TypeOK, Call
  <2>2. CASE keys[call[c].hash] \notin {None, text}
    BY <1>4, <1>5, <2>2 DEF GetReturns
  <2>3. CASE keys[call[c].hash] \in {None, text}
    BY <1>5, <2>1, <2>3, HandOutKeyPreserves DEF GetReturns
  <2> QED
    BY <2>2, <2>3
<1>6. ASSUME NEW text \in Texts, GetBytesReturns(c, text) PROVE IInv' /\ KeepsPins
  <2> DEFINE hash == call[c].hash
  <2>1. hash \in Hashes
    BY DEF IInv, TypeOK, Call
  <2>2. CASE DigestOf[text] # hash
    BY <1>4, <1>6, <2>2 DEF GetBytesReturns
  <2>3. CASE DigestOf[text] = hash
    <3>1. /\ bytes' = [bytes EXCEPT ![hash] = text]
          /\ handed' = handed \cup {<<"getBytes", hash, text>>}
          /\ call' = [call EXCEPT ![c].pc = "returned"]
          /\ UNCHANGED keys
      BY <1>6, <2>3 DEF GetBytesReturns, Goto
    <3>2. TypeOK'
      BY <2>1, <3>1 DEF IInv, TypeOK, Call
    <3>3. BytesMatchHash'
      BY <2>1, <2>3, <3>1 DEF IInv, TypeOK, BytesMatchHash
    <3>4. KeepsPins
      <4>1. bytes[hash] # None => bytes[hash] = text
        BY <2>1, <2>3, RegistryAssumption DEF IInv, TypeOK, BytesMatchHash
      <4> QED
        BY <2>1, <3>1, <4>1 DEF IInv, TypeOK, KeepsPins
    <3>5. HandedArePinned'
      <4> SUFFICES ASSUME NEW a \in handed'
                   PROVE  a[3] = IF a[1] = "get" THEN keys'[a[2]] ELSE bytes'[a[2]]
        BY DEF HandedArePinned
      <4>1. CASE a = <<"getBytes", hash, text>>
        BY <2>1, <3>1, <4>1 DEF IInv, TypeOK
      <4>2. CASE a \in handed
        <5>1. a \in Methods \X Hashes \X Texts
          BY <4>2 DEF IInv, TypeOK
        <5>2. a[3] # None
          BY <5>1, RegistryAssumption
        <5> QED
          BY <4>2, <5>1, <5>2, <3>4 DEF IInv, HandedArePinned, KeepsPins
      <4> QED
        BY <3>1, <4>1, <4>2
    <3> QED
      BY <3>2, <3>3, <3>4, <3>5 DEF IInv
  <2> QED
    BY <2>2, <2>3
<1> QED
  BY <1>1, <1>2, <1>3, <1>4, <1>5, <1>6 DEF CallStep, FetchFails

\* The invariant holds in every reachable state.
THEOREM RegistryInvariant == Spec => []IInv
<1>1. Init => IInv
  BY DEF Init, IInv, TypeOK, Call, Methods, HandedArePinned, BytesMatchHash
<1>2. IInv /\ [Next]_vars => IInv'
  <2> SUFFICES ASSUME IInv, [Next]_vars PROVE IInv'
    OBVIOUS
  <2>1. CASE Next
    BY <2>1, CallStepPreserves DEF Next
  <2>2. CASE UNCHANGED vars
    BY <2>2 DEF vars, IInv, TypeOK, HandedArePinned, BytesMatchHash
  <2> QED
    BY <2>1, <2>2
<1> QED
  BY <1>1, <1>2, PTL DEF Spec

\* Callers of the registry never disagree on the key of a circuit hash, for any
\* number of overlapping calls (registry.ts:22-24, 40).
THEOREM KeysAgree == Spec => []HandedKeysAgree
<1>1. IInv => HandedKeysAgree
  <2> SUFFICES ASSUME IInv PROVE HandedKeysAgree
    OBVIOUS
  <2>1. ASSUME NEW a \in handed, NEW b \in handed, a[1] = b[1], a[2] = b[2]
        PROVE  a[3] = b[3]
    BY <2>1 DEF IInv, HandedArePinned
  <2>2. ASSUME NEW a \in handed, a[1] = "getBytes"
        PROVE  DigestOf[a[3]] = a[2]
    <3>1. a \in Methods \X Hashes \X Texts
      BY DEF IInv, TypeOK
    <3>2. a[3] = bytes[a[2]] /\ a[2] \in Hashes /\ a[3] # None
      BY <2>2, <3>1, RegistryAssumption DEF IInv, HandedArePinned
    <3> QED
      BY <3>2 DEF IInv, BytesMatchHash
  <2> QED
    BY <2>1, <2>2 DEF HandedKeysAgree
<1> QED
  BY <1>1, RegistryInvariant, PTL

\* A pinned key is never replaced (registry.ts:22-24, 40-41).
THEOREM PinsAreFinal == Spec => PinIsFinal
<1>1. IInv /\ [Next]_vars =>
        [\A hash \in Hashes : /\ keys[hash] # None => keys'[hash] = keys[hash]
                              /\ bytes[hash] # None => bytes'[hash] = bytes[hash]]_vars
  BY CallStepPreserves DEF Next, KeepsPins
<1> QED
  BY <1>1, RegistryInvariant, PTL DEF Spec, PinIsFinal

-----------------------------------------------------------------------------
(***************************************************************************)
(* The certificate walk.                                                   *)
(***************************************************************************)
\* A nonempty set of naturals has a least element.
LEMMA LeastExists ==
    ASSUME NEW S \in SUBSET Nat, S # {}
    PROVE  \E x \in S : \A y \in S : x <= y
<1> DEFINE R == OpToRel(<, Nat)
<1>1. IsWellFoundedOn(R, Nat)
  BY NatLessThanWellFounded
<1>2. \A x, y \in Nat : y < x => <<y, x>> \in R
  BY DEF OpToRel
<1> HIDE DEF R
<1>3. PICK x \in S : \A y \in S : ~(<<y, x>> \in R)
  BY <1>1, WFMin
<1>4. ASSUME NEW y \in S PROVE x <= y
  <2>1. x \in Nat /\ y \in Nat /\ ~(<<y, x>> \in R)
    BY <1>3
  <2>2. ~(y < x)
    BY <1>2, <2>1
  <2> QED
    BY <2>1, <2>2
<1> QED
  BY <1>4

\* Min takes that element.
LEMMA MinIsMember == ASSUME NEW S \in SUBSET Nat, S # {} PROVE Min(S) \in S
BY LeastExists DEF Min

\* The equation by which Walk is defined, for any number of hops.
IsWalk(f, leaf, pool, n) ==
    f = [hops \in 0..n |-> IF hops = 0 THEN leaf ELSE Issuer(f[hops - 1], pool)]

\* A walk of n hops exists for every n: a shorter one is continued by one hop.
LEMMA WalkExists ==
    ASSUME NEW leaf, NEW pool, NEW n \in Nat
    PROVE  \E f : IsWalk(f, leaf, pool, n)
<1> DEFINE S == {k \in Nat : ~\E f : IsWalk(f, leaf, pool, k)}
<1>1. SUFFICES ASSUME S # {} PROVE FALSE
  OBVIOUS
<1>2. PICK x \in S : \A y \in S : x <= y
  BY <1>1, LeastExists
<1>3. CASE x = 0
  <2>1. IsWalk([hops \in 0..0 |-> leaf], leaf, pool, 0)
    BY DEF IsWalk
  <2> QED
    BY <1>3, <2>1
<1>4. CASE x # 0
  <2>1. x \in Nat /\ x - 1 \in Nat /\ x - 1 \notin S
    BY <1>2, <1>4
  <2>2. PICK f : IsWalk(f, leaf, pool, x - 1)
    BY <2>1
  <2> DEFINE g == [hops \in 0..x |-> IF hops <= x - 1 THEN f[hops] ELSE Issuer(f[x - 1], pool)]
  <2>3. \A hops \in 0..(x - 1) : f[hops] = IF hops = 0 THEN leaf ELSE Issuer(f[hops - 1], pool)
    BY <2>2 DEF IsWalk
  <2>4. ASSUME NEW hops \in 0..x
        PROVE  g[hops] = IF hops = 0 THEN leaf ELSE Issuer(g[hops - 1], pool)
    <3>1. CASE hops = 0
      BY <2>1, <2>3, <3>1
    <3>2. CASE hops # 0 /\ hops <= x - 1
      <4>1. hops \in 0..(x - 1) /\ hops - 1 \in 0..x /\ hops - 1 <= x - 1
        BY <2>1, <3>2
      <4> QED
        BY <2>3, <3>2, <4>1
    <3>3. CASE hops = x
      <4>1. hops - 1 \in 0..x /\ hops - 1 <= x - 1 /\ ~(hops <= x - 1) /\ hops # 0
        BY <1>4, <2>1, <3>3
      <4> QED
        BY <3>3, <4>1
    <3> QED
      BY <2>1, <3>1, <3>2, <3>3
  <2>5. g = [hops \in 0..x |-> IF hops = 0 THEN leaf ELSE Issuer(g[hops - 1], pool)]
    BY <2>4
  <2> HIDE DEF g
  <2>6. IsWalk(g, leaf, pool, x)
    BY <2>5 DEF IsWalk
  <2> QED
    BY <1>2, <2>6
<1> QED
  BY <1>3, <1>4

\* The walk starts at the leaf and goes from certificate to first issuer
\* (tee-nitro.ts:130-138).
LEMMA WalkEquation ==
    ASSUME NEW leaf, NEW pool, Len(pool) \in Nat
    PROVE  /\ Walk(leaf, pool)[0] = leaf
           /\ \A i \in 1..Len(pool) : Walk(leaf, pool)[i] = Issuer(Walk(leaf, pool)[i - 1], pool)
<1>1. IsWalk(Walk(leaf, pool), leaf, pool, Len(pool))
  <2>1. \E f : IsWalk(f, leaf, pool, Len(pool))
    BY WalkExists
  <2> QED
    BY <2>1, Zenon DEF Walk, IsWalk
<1> DEFINE walk == Walk(leaf, pool)
<1> HIDE DEF walk
<1>2. walk = [hops \in 0..Len(pool) |-> IF hops = 0 THEN leaf ELSE Issuer(walk[hops - 1], pool)]
  BY <1>1 DEF IsWalk, walk
<1>3. 0 \in 0..Len(pool) /\ \A i \in 1..Len(pool) : i \in 0..Len(pool) /\ i # 0
  OBVIOUS
<1>4. walk[0] = leaf /\ \A i \in 1..Len(pool) : walk[i] = Issuer(walk[i - 1], pool)
  BY <1>2, <1>3
<1> QED
  BY <1>4 DEF walk

\* What pool.find returns is in the pool and issues the certificate.
LEMMA IssuerCorrect ==
    ASSUME NEW pool \in Seq(DOMAIN Certificates), NEW cert, Issuer(cert, pool) # Undefined
    PROVE  Issuer(cert, pool) \in Range(pool) /\ Issues(Issuer(cert, pool), cert)
<1> DEFINE issuers == {i \in DOMAIN pool : cert # Undefined /\ Issues(pool[i], cert)}
<1>1. issuers # {} /\ Issuer(cert, pool) = pool[Min(issuers)]
  BY DEF Issuer
<1>2. issuers \in SUBSET Nat /\ \A i \in issuers : i \in DOMAIN pool /\ Issues(pool[i], cert)
  OBVIOUS
<1> HIDE DEF issuers
<1>3. Min(issuers) \in issuers
  BY <1>1, <1>2, MinIsMember
<1> QED
  BY <1>1, <1>2, <1>3 DEF Range

\* A finite set of cardinality at most one has no two elements.
LEMMA AtMostOne ==
    ASSUME NEW S, IsFiniteSet(S), Cardinality(S) <= 1, NEW a \in S, NEW b \in S
    PROVE  a = b
<1> SUFFICES ASSUME a # b PROVE FALSE
  OBVIOUS
<1>1. IsFiniteSet(S \ {a}) /\ Cardinality(S \ {a}) = Cardinality(S) - 1
  BY FS_RemoveElement
<1>2. Cardinality(S \ {a}) \in Nat /\ Cardinality(S) \in Nat
  BY <1>1, FS_CardinalityType
<1>3. Cardinality(S \ {a}) = 0
  BY <1>1, <1>2
<1>4. S \ {a} = {}
  BY <1>1, <1>3, FS_EmptySet
<1> QED
  BY <1>4

\* A candidate that issues the certificate is what pool.find returns, if there is
\* no other.
LEMMA IssuerUnique ==
    ASSUME NEW pool \in Seq(DOMAIN Certificates), NEW cert, cert # Undefined,
           Cardinality({i \in DOMAIN pool : Issues(pool[i], cert)}) <= 1,
           NEW candidate \in Range(pool), Issues(candidate, cert)
    PROVE  Issuer(cert, pool) = candidate
<1> DEFINE issuers == {i \in DOMAIN pool : Issues(pool[i], cert)}
<1>1. PICK j \in DOMAIN pool : pool[j] = candidate
  BY DEF Range
<1>2. j \in issuers /\ issuers \in SUBSET Nat /\ issuers \subseteq 1..Len(pool) /\ Len(pool) \in Nat
  BY <1>1
<1>3. Issuer(cert, pool) = pool[Min(issuers)]
  <2>1. issuers = {i \in DOMAIN pool : cert # Undefined /\ Issues(pool[i], cert)}
    OBVIOUS
  <2> QED
    BY <1>2, <2>1 DEF Issuer
<1>4. Cardinality(issuers) <= 1
  OBVIOUS
<1> HIDE DEF issuers
<1>5. Min(issuers) \in issuers
  BY <1>2, MinIsMember
<1>6. IsFiniteSet(issuers)
  <2>1. IsFiniteSet(1..Len(pool))
    BY <1>2, FS_Interval
  <2> QED
    BY <1>2, <2>1, FS_Subset
<1>7. Min(issuers) = j
  BY <1>2, <1>4, <1>5, <1>6, AtMostOne
<1> QED
  BY <1>1, <1>3, <1>7

\* Whatever the bundle holds, the walk accepts only a leaf from which valid
\* certificates, each issued by the next, lead to the root (tee-nitro.ts:128-140).
THEOREM WalkIsSound ==
    ASSUME NEW leaf \in DOMAIN Certificates, NEW pool \in Seq(DOMAIN Certificates), NEW now,
           Chain(leaf, pool, now)
    PROVE  ValidChain(leaf, pool, now)
<1> DEFINE walk == Walk(leaf, pool)
<1>1. Len(pool) \in Nat
  OBVIOUS
<1>2. walk[0] = leaf /\ \A i \in 1..Len(pool) : walk[i] = Issuer(walk[i - 1], pool)
  BY <1>1, WalkEquation
<1>3. \E n \in 0..Len(pool) :
         walk[n] = Root /\ \A i \in 0..n : walk[i] # Undefined /\ Valid(walk[i], now)
  BY DEF Chain
<1> HIDE DEF walk
<1>4. PICK n \in 0..Len(pool) :
         walk[n] = Root /\ \A i \in 0..n : walk[i] # Undefined /\ Valid(walk[i], now)
  BY <1>3
<1>5. ASSUME NEW i \in 1..n
      PROVE  walk[i] \in Range(pool) /\ Issues(walk[i], walk[i - 1])
  <2>1. i \in 1..Len(pool) /\ i \in 0..n
    BY <1>1
  <2>2. walk[i] = Issuer(walk[i - 1], pool) /\ walk[i] # Undefined
    BY <1>2, <1>4, <2>1
  <2>3. Issuer(walk[i - 1], pool) # Undefined
    BY <2>2
  <2> QED
    BY <2>2, <2>3, IssuerCorrect
<1> DEFINE path == [i \in 0..n |-> walk[i]]
<1>6. path \in [0..n -> Range(pool) \cup {leaf}]
  <2>1. \A i \in 0..n : i = 0 \/ i \in 1..n
    OBVIOUS
  <2> QED
    BY <1>2, <1>5, <2>1
<1>7. \A i \in 1..n : i \in 0..n /\ i - 1 \in 0..n
  OBVIOUS
<1>8. 0 \in 0..n /\ n \in 0..n
  BY <1>1
<1>9. /\ path[0] = leaf /\ path[n] = Root
      /\ \A i \in 0..n : Valid(path[i], now)
      /\ \A i \in 1..n : path[i] \in Range(pool) /\ Issues(path[i], path[i - 1])
  BY <1>2, <1>4, <1>5, <1>7, <1>8
<1> HIDE DEF path
<1> QED
  BY <1>6, <1>9 DEF ValidChain

\* A leaf with a valid chain to the root is accepted in whatever order the bundle
\* lists the certificates, if no certificate has two issuers: the walk can then
\* only follow that chain, and has hops enough for it (tee-nitro.ts:128-140).
THEOREM WalkIsComplete ==
    ASSUME NEW leaf \in DOMAIN Certificates, NEW pool \in Seq(DOMAIN Certificates), NEW now,
           Unambiguous(leaf, pool), ValidChain(leaf, pool, now)
    PROVE  Chain(leaf, pool, now)
<1> DEFINE walk == Walk(leaf, pool)
<1>1. Len(pool) \in Nat
  OBVIOUS
<1>2. walk[0] = leaf /\ \A i \in 1..Len(pool) : walk[i] = Issuer(walk[i - 1], pool)
  BY <1>1, WalkEquation
<1> HIDE DEF walk
<1>3. PICK n \in 0..Len(pool) : \E path \in [0..n -> Range(pool) \cup {leaf}] :
        /\ path[0] = leaf /\ path[n] = Root
        /\ \A i \in 0..n : Valid(path[i], now)
        /\ \A i \in 1..n : path[i] \in Range(pool) /\ Issues(path[i], path[i - 1])
  BY DEF ValidChain
<1>4. PICK path \in [0..n -> Range(pool) \cup {leaf}] :
        /\ path[0] = leaf /\ path[n] = Root
        /\ \A i \in 0..n : Valid(path[i], now)
        /\ \A i \in 1..n : path[i] \in Range(pool) /\ Issues(path[i], path[i - 1])
  BY <1>3
<1>5. \A cert \in Range(pool) \cup {leaf} : cert # Undefined
  BY TeeAssumption DEF Range
<1>6. \A i \in 0..n : walk[i] = path[i]
  <2> DEFINE S == {i \in 0..n : walk[i] # path[i]}
  <2>1. SUFFICES ASSUME S # {} PROVE FALSE
    OBVIOUS
  <2>2. S \in SUBSET Nat
    OBVIOUS
  <2>3. PICK x \in S : \A y \in S : x <= y
    BY <2>1, <2>2, LeastExists
  <2>4. x \in 1..n /\ x \in 1..Len(pool) /\ x - 1 \in 0..n /\ x - 1 \notin S
    BY <1>1, <1>2, <1>4, <2>3
  <2>5. walk[x - 1] = path[x - 1]
    BY <2>4
  <2>6. path[x - 1] \in Range(pool) \cup {leaf}
    BY <2>4
  <2>7. path[x] \in Range(pool) /\ Issues(path[x], path[x - 1])
    BY <1>4, <2>4
  <2>8. Cardinality({i \in DOMAIN pool : Issues(pool[i], path[x - 1])}) <= 1
    BY <2>6 DEF Unambiguous
  <2>9. path[x - 1] # Undefined
    BY <1>5, <2>6
  <2>10. Issuer(path[x - 1], pool) = path[x]
    BY <2>7, <2>8, <2>9, IssuerUnique
  <2> QED
    BY <1>2, <2>3, <2>4, <2>5, <2>10
<1>7. walk[n] = Root /\ \A i \in 0..n : walk[i] # Undefined /\ Valid(walk[i], now)
  <2>1. n \in 0..n
    BY <1>1
  <2> QED
    BY <1>4, <1>5, <1>6, <2>1
<1> QED
  BY <1>7 DEF Chain, walk

-----------------------------------------------------------------------------
(***************************************************************************)
(* The inductive invariant of the enclaves.                                *)
(***************************************************************************)
\* The document of an enclave for one of its keys, a nonce and a time.
Document(e, k, nonce, timestamp) ==
    [timestamp |-> timestamp, pcrs |-> Pcrs[e], certificate |-> Leaf[e],
     cabundle |-> cabundle[e], publicKey |-> <<e, k>>, userData |-> UserData[e],
     nonce |-> nonce]

\* The meta in which that enclave signs a statement with that key.
Attested(e, k, statement, nonce, timestamp) ==
    [statement |-> statement, nonce |-> nonce, publicInputs |-> <<statement, nonce>>,
     proof |-> Signed(<<e, k>>, <<statement, nonce>>),
     teeAttestation |-> CoseSign1(e, Document(e, k, nonce, timestamp))]

\* One key signs statement and nonce, and is the key of the document, which is of
\* the enclave's image, platform and bundle.
IssuedByEnclaves ==
    \A m \in issued :
        \E e \in Enclaves, k \in Nat, statement \in Statements, nonce \in Nonces, t \in Int :
            m = Attested(e, k, statement, nonce, t)

TeeInv ==
    /\ clock \in Nat
    /\ restarts \in [Enclaves -> Nat]
    /\ DOMAIN cabundle = Enclaves /\ \A e \in Enclaves : cabundle[e] \in Bundles[e]
    /\ IssuedByEnclaves

\* The invariant holds in every reachable state: Prove signs with the key the
\* enclave has now and dates the document by its clock, a restart takes the next
\* key, and nothing touches the bundle (prover tee-nitro.ts:44-97).
THEOREM TeeInvariant == TeeSpec => []TeeInv
<1>1. TeeInit => TeeInv
  BY DEF TeeInit, TeeInv, IssuedByEnclaves
<1>2. TeeInv /\ [TeeNext]_teeVars => TeeInv'
  <2> SUFFICES ASSUME TeeInv, [TeeNext]_teeVars PROVE TeeInv'
    OBVIOUS
  <2>1. ASSUME UNCHANGED <<cabundle, issued>> PROVE IssuedByEnclaves'
    <3>1. ASSUME NEW e, NEW k, NEW statement, NEW nonce, NEW t
          PROVE  Attested(e, k, statement, nonce, t)' = Attested(e, k, statement, nonce, t)
      BY <2>1 DEF Attested, Document
    <3> QED
      BY <2>1, <3>1 DEF TeeInv, IssuedByEnclaves
  <2>2. ASSUME NEW e \in Enclaves, NEW statement \in Statements, NEW nonce \in Nonces,
               Prove(e, statement, nonce)
        PROVE  TeeInv'
    <3>1. PICK t : t = clock + Skew[e]
      OBVIOUS
    <3>2. PICK k : k = restarts[e]
      OBVIOUS
    <3>3. t \in Int /\ k \in Nat
      BY <3>1, <3>2, TeeAssumption DEF TeeInv
    <3>4. UNCHANGED <<clock, cabundle, restarts>>
      BY <2>2 DEF Prove
    <3>5. issued' = issued \cup {Attested(e, k, statement, nonce, t)}
      BY <2>2, <3>1, <3>2 DEF Prove, Attested, Document, NitroDoc, EnclaveKey
    <3>6. ASSUME NEW e0, NEW k0, NEW s0, NEW n0, NEW t0
          PROVE  Attested(e0, k0, s0, n0, t0)' = Attested(e0, k0, s0, n0, t0)
      BY <3>4 DEF Attested, Document
    <3>7. IssuedByEnclaves'
      <4> SUFFICES ASSUME NEW m \in issued'
                   PROVE  \E e0 \in Enclaves, k0 \in Nat, s0 \in Statements, n0 \in Nonces, t0 \in Int :
                              m = Attested(e0, k0, s0, n0, t0)
        BY <3>6 DEF IssuedByEnclaves
      <4>1. CASE m \in issued
        BY <4>1 DEF TeeInv, IssuedByEnclaves
      <4>2. CASE m = Attested(e, k, statement, nonce, t)
        BY <4>2, <3>3
      <4> QED
        BY <3>5, <4>1, <4>2
    <3> QED
      BY <3>4, <3>7 DEF TeeInv
  <2>3. ASSUME NEW e \in Enclaves, Restart(e) PROVE TeeInv'
    <3>1. restarts' = [restarts EXCEPT ![e] = @ + 1] /\ UNCHANGED <<clock, cabundle, issued>>
      BY <2>3 DEF Restart
    <3> QED
      BY <2>1, <3>1 DEF TeeInv
  <2>4. CASE Tick
    BY <2>1, <2>4 DEF Tick, TeeInv
  <2>5. CASE UNCHANGED teeVars
    BY <2>1, <2>5 DEF teeVars, TeeInv
  <2> QED
    BY <2>2, <2>3, <2>4, <2>5 DEF TeeNext
<1> QED
  BY <1>1, <1>2, PTL DEF TeeSpec

-----------------------------------------------------------------------------
(***************************************************************************)
(* The checks of the verifier.                                             *)
(***************************************************************************)
\* FirstFailed reports "ok" exactly if no check fails.
LEMMA FirstFailedCorrect ==
    ASSUME NEW n \in Nat, NEW checks, DOMAIN checks = 1..n,
           \A i \in 1..n : checks[i][1] # "ok"
    PROVE  FirstFailed(checks) = "ok" <=> \A i \in 1..n : checks[i][2]
<1> DEFINE failed == {i \in DOMAIN checks : ~checks[i][2]}
<1>1. FirstFailed(checks) = IF failed = {} THEN "ok" ELSE checks[Min(failed)][1]
  BY DEF FirstFailed
<1>2. CASE failed = {}
  BY <1>1, <1>2
<1>3. CASE failed # {}
  <2>1. failed \in SUBSET Nat /\ \A i \in failed : i \in 1..n /\ ~checks[i][2]
    OBVIOUS
  <2> HIDE DEF failed
  <2>2. Min(failed) \in failed
    BY <1>3, <2>1, MinIsMember
  <2> QED
    BY <1>1, <1>3, <2>1, <2>2
<1> QED
  BY <1>2, <1>3

\* A result passes verifyDetailed exactly if its document can be read and every
\* check holds (verifier tee-nitro.ts:84-127).
LEMMA VerifyDetailedCorrect ==
    ASSUME NEW meta, NEW nonce
    PROVE  VerifyDetailed(meta, nonce) = "ok" <=>
               LET sign1 == meta.teeAttestation
                   doc == sign1.payload
               IN  /\ sign1 # Unreadable
                   /\ Chain(doc.certificate, doc.cabundle, clock)
                   /\ sign1.signature = Signed(Certificates[doc.certificate].key, doc)
                   /\ MeasurementMatches(meta.statement, doc.pcrs) /\ UserDataMatches(doc.userData)
                   /\ doc.nonce = nonce /\ Timely(doc.timestamp)
                   /\ meta.publicInputs = <<meta.statement, meta.nonce>>
                   /\ meta.proof = Signed(doc.publicKey, <<meta.statement, meta.nonce>>)
<1> DEFINE sign1 == meta.teeAttestation
           doc == sign1.payload
           b1 == Chain(doc.certificate, doc.cabundle, clock)
           b2 == sign1.signature = Signed(Certificates[doc.certificate].key, doc)
           b3 == MeasurementMatches(meta.statement, doc.pcrs)
           b4 == UserDataMatches(doc.userData)
           b5 == doc.nonce = nonce
           b6 == Timely(doc.timestamp)
           b7 == meta.publicInputs = <<meta.statement, meta.nonce>>
           b8 == meta.proof = Signed(doc.publicKey, <<meta.statement, meta.nonce>>)
           checks == <<<<"chainInvalid", b1>>, <<"signatureInvalid", b2>>,
                       <<"measurementMismatch", b3>>, <<"userDataMismatch", b4>>,
                       <<"nonceMismatch", b5>>, <<"attestationStale", b6>>,
                       <<"signatureInvalid", b7>>, <<"signatureInvalid", b8>>>>
<1>1. VerifyDetailed(meta, nonce) =
          IF sign1 = Unreadable THEN "attestationMalformed" ELSE FirstFailed(checks)
  BY DEF VerifyDetailed
<1> HIDE DEF b1, b2, b3, b4, b5, b6, b7, b8
<1>2. /\ DOMAIN checks = 1..8
      /\ \A i \in 1..8 : checks[i][1] # "ok"
      /\ checks[1][2] = b1 /\ checks[2][2] = b2 /\ checks[3][2] = b3 /\ checks[4][2] = b4
      /\ checks[5][2] = b5 /\ checks[6][2] = b6 /\ checks[7][2] = b7 /\ checks[8][2] = b8
  OBVIOUS
<1> HIDE DEF checks
<1>3. FirstFailed(checks) = "ok" <=> \A i \in 1..8 : checks[i][2]
  <2>1. 8 \in Nat
    OBVIOUS
  <2> QED
    BY <1>2, <2>1, FirstFailedCorrect
<1>4. (\A i \in 1..8 : checks[i][2]) <=> b1 /\ b2 /\ b3 /\ b4 /\ b5 /\ b6 /\ b7 /\ b8
  BY <1>2
<1> QED
  BY <1>1, <1>3, <1>4 DEF b1, b2, b3, b4, b5, b6, b7, b8

\* What an enclave has issued, field by field.
LEMMA IssuedFields ==
    ASSUME TeeInv, NEW m \in issued
    PROVE  \E e \in Enclaves, k \in Nat, t \in Int :
             LET sign1 == m.teeAttestation
                 doc == sign1.payload
             IN  /\ DOMAIN m = {"statement", "nonce", "publicInputs", "proof", "teeAttestation"}
                 /\ DOMAIN sign1 = {"payload", "signature"}
                 /\ m.publicInputs = <<m.statement, m.nonce>>
                 /\ m.proof = Signed(<<e, k>>, <<m.statement, m.nonce>>)
                 /\ sign1.signature = Signed(Certificates[Leaf[e]].key, doc)
                 /\ doc.timestamp = t /\ doc.pcrs = Pcrs[e] /\ doc.certificate = Leaf[e]
                 /\ doc.cabundle = cabundle[e] /\ doc.publicKey = <<e, k>>
                 /\ doc.userData = UserData[e] /\ doc.nonce = m.nonce
<1>1. PICK e \in Enclaves, k \in Nat, statement \in Statements, nonce \in Nonces, t \in Int :
        m = Attested(e, k, statement, nonce, t)
  BY DEF TeeInv, IssuedByEnclaves
<1> DEFINE doc == Document(e, k, nonce, t)
<1>2. /\ doc.timestamp = t /\ doc.pcrs = Pcrs[e] /\ doc.certificate = Leaf[e]
      /\ doc.cabundle = cabundle[e] /\ doc.publicKey = <<e, k>>
      /\ doc.userData = UserData[e] /\ doc.nonce = nonce
  BY DEF Document
<1> HIDE DEF doc
<1>3. /\ DOMAIN m = {"statement", "nonce", "publicInputs", "proof", "teeAttestation"}
      /\ m.statement = statement /\ m.nonce = nonce /\ m.publicInputs = <<statement, nonce>>
      /\ m.proof = Signed(<<e, k>>, <<statement, nonce>>)
      /\ m.teeAttestation = CoseSign1(e, doc)
  BY <1>1 DEF Attested, doc
<1>4. /\ DOMAIN CoseSign1(e, doc) = {"payload", "signature"}
      /\ CoseSign1(e, doc).payload = doc
      /\ CoseSign1(e, doc).signature = Signed(Certificates[Leaf[e]].key, doc)
  BY DEF CoseSign1
<1> QED
  BY <1>2, <1>3, <1>4

\* However parts are combined, what arrives carries the proof of something an
\* enclave issued, and the document's signature of something an enclave issued,
\* if it has one that can be read.
LEMMA ArrivingIsSigned ==
    ASSUME TeeInv, NEW meta \in Arriving
    PROVE  /\ \E m \in issued : meta.proof = m.proof
           /\ \/ meta.teeAttestation = Unreadable
              \/ \E m \in issued : meta.teeAttestation.signature = m.teeAttestation.signature
<1>1. \A m \in issued :
        /\ DOMAIN m = {"statement", "nonce", "publicInputs", "proof", "teeAttestation"}
        /\ DOMAIN m.teeAttestation = {"payload", "signature"}
  BY IssuedFields
<1> DEFINE Signs(m, attesting) ==
             /\ meta.proof = m.proof
             /\ \/ meta.teeAttestation = Unreadable
                \/ meta.teeAttestation.signature = attesting.teeAttestation.signature
<1>2. ASSUME NEW m \in issued, meta = WithAttestation(m, Unreadable)
      PROVE  Signs(m, m)
  BY <1>1, <1>2 DEF WithAttestation
<1>3. ASSUME NEW m \in issued, NEW other \in issued, meta = WithAttestation(m, other.teeAttestation)
      PROVE  Signs(m, other)
  BY <1>1, <1>3 DEF WithAttestation
<1>4. ASSUME NEW m \in issued, NEW other \in issued, meta = WithInputs(Restated(m, other), other)
      PROVE  Signs(m, m)
  <2>1. PICK restated : restated = Restated(m, other)
    OBVIOUS
  <2>2. /\ DOMAIN restated = {"statement", "nonce", "publicInputs", "proof", "teeAttestation"}
        /\ restated.proof = m.proof /\ restated.teeAttestation = m.teeAttestation
    BY <1>1, <2>1 DEF Restated
  <2> QED
    BY <1>4, <2>1, <2>2 DEF WithInputs
<1>5. ASSUME NEW m \in issued, NEW other \in issued, meta = WithInputs(m, other)
      PROVE  Signs(m, m)
  BY <1>1, <1>5 DEF WithInputs
<1>6. ASSUME NEW m \in issued, meta = Redated(m)
      PROVE  Signs(m, m)
  BY <1>1, <1>6 DEF Redated
<1>7. meta \in issued => Signs(meta, meta)
  OBVIOUS
<1> HIDE DEF Signs
<1>8. \E m, attesting \in issued : Signs(m, attesting)
  BY <1>2, <1>3, <1>4, <1>5, <1>6, <1>7 DEF Arriving
<1> QED
  BY <1>8 DEF Signs

\* The bundle of an enclave is a sequence of certificates.
LEMMA BundleIsPool ==
    ASSUME TeeInv, NEW e \in Enclaves
    PROVE  Leaf[e] \in DOMAIN Certificates /\ cabundle[e] \in Seq(DOMAIN Certificates)
BY TeeAssumption DEF TeeInv

\* A result is accepted only if a pinned enclave on a certified platform signed
\* this statement for this nonce with a key it attested for this nonce in time,
\* for any enclaves, certificates, bundles and clocks (verifier
\* tee-nitro.ts:84-127).  A signature is its message and its key: the document's
\* gives back the document as it was signed, hence its key, and the proof's gives
\* the statement that this very key signed.
THEOREM AcceptedOnlyIfAttested == TeeSpec => []AcceptedIsAttested
<1>1. TeeInv => AcceptedIsAttested
  <2> SUFFICES ASSUME TeeInv, NEW meta \in Arriving, VerifyDetailed(meta, meta.nonce) = "ok"
               PROVE  \E m, attesting \in issued :
                        LET doc == attesting.teeAttestation.payload
                            e == m.proof.key[1]
                        IN  /\ m.statement = meta.statement /\ m.nonce = meta.nonce
                            /\ doc.nonce = meta.nonce /\ doc.publicKey = m.proof.key
                            /\ doc.timestamp >= clock - MaxAgeMs
                            /\ MeasurementMatches(meta.statement, Pcrs[e]) /\ UserDataMatches(UserData[e])
                            /\ ValidChain(Leaf[e], cabundle[e], clock)
    BY DEF AcceptedIsAttested
  <2> DEFINE sign1 == meta.teeAttestation
             doc == sign1.payload
  <2>1. /\ sign1 # Unreadable
        /\ Chain(doc.certificate, doc.cabundle, clock)
        /\ sign1.signature = Signed(Certificates[doc.certificate].key, doc)
        /\ MeasurementMatches(meta.statement, doc.pcrs) /\ UserDataMatches(doc.userData)
        /\ doc.nonce = meta.nonce /\ Timely(doc.timestamp)
        /\ meta.proof = Signed(doc.publicKey, <<meta.statement, meta.nonce>>)
    BY VerifyDetailedCorrect
  <2>2. PICK m \in issued : meta.proof = m.proof
    BY ArrivingIsSigned
  <2>3. PICK attesting \in issued : sign1.signature = attesting.teeAttestation.signature
    BY <2>1, ArrivingIsSigned
  <2> DEFINE signed == attesting.teeAttestation.payload
  <2>4. PICK e \in Enclaves, k \in Nat, t \in Int :
          /\ attesting.teeAttestation.signature = Signed(Certificates[Leaf[e]].key, signed)
          /\ signed.timestamp = t /\ signed.pcrs = Pcrs[e] /\ signed.certificate = Leaf[e]
          /\ signed.cabundle = cabundle[e] /\ signed.publicKey = <<e, k>>
          /\ signed.userData = UserData[e]
    <3>1. \E e \in Enclaves, k \in Nat, t \in Int :
            /\ DOMAIN attesting = {"statement", "nonce", "publicInputs", "proof", "teeAttestation"}
            /\ DOMAIN attesting.teeAttestation = {"payload", "signature"}
            /\ attesting.publicInputs = <<attesting.statement, attesting.nonce>>
            /\ attesting.proof = Signed(<<e, k>>, <<attesting.statement, attesting.nonce>>)
            /\ attesting.teeAttestation.signature = Signed(Certificates[Leaf[e]].key, signed)
            /\ signed.timestamp = t /\ signed.pcrs = Pcrs[e] /\ signed.certificate = Leaf[e]
            /\ signed.cabundle = cabundle[e] /\ signed.publicKey = <<e, k>>
            /\ signed.userData = UserData[e] /\ signed.nonce = attesting.nonce
      BY IssuedFields
    <3> QED
      BY <3>1
  <2>5. PICK key : m.proof = Signed(key, <<m.statement, m.nonce>>)
    BY IssuedFields
  <2> HIDE DEF sign1, doc
  <2>6. doc = attesting.teeAttestation.payload
    BY <2>1, <2>3, <2>4 DEF Signed
  <2>7. m.statement = meta.statement /\ m.nonce = meta.nonce /\ m.proof.key = <<e, k>>
    BY <2>1, <2>2, <2>4, <2>5, <2>6 DEF Signed
  <2>8. m.proof.key[1] = e
    BY <2>7
  <2>9. doc.timestamp >= clock - MaxAgeMs
    <3>1. doc.timestamp \in Int /\ clock \in Int /\ MaxAgeMs \in Int
      BY <2>4, <2>6, TeeAssumption DEF TeeInv
    <3> QED
      BY <2>1, <3>1 DEF Timely
  <2>10. ValidChain(Leaf[e], cabundle[e], clock)
    BY <2>1, <2>4, <2>6, BundleIsPool, WalkIsSound
  <2>11. /\ doc.publicKey = m.proof.key /\ doc.nonce = meta.nonce
         /\ MeasurementMatches(meta.statement, Pcrs[e]) /\ UserDataMatches(UserData[e])
    BY <2>1, <2>4, <2>6, <2>7
  <2> QED
    BY <2>6, <2>7, <2>8, <2>9, <2>10, <2>11
<1> QED
  BY <1>1, TeeInvariant, PTL

\* What a pinned enclave made is accepted when it arrives as it was made and in
\* time, whatever the length and the order of its unambiguous bundle (verifier
\* tee-nitro.ts:84-140; prover tee-nitro.ts:66-97).
THEOREM HonestAccepted == TeeSpec => []HonestIsAccepted
<1>1. TeeInv => HonestIsAccepted
  <2> SUFFICES ASSUME TeeInv, NEW meta \in issued,
                      LET doc == meta.teeAttestation.payload
                      IN  /\ doc.timestamp - ClockSkewMs <= clock
                          /\ clock <= doc.timestamp + MaxAgeMs
                          /\ MeasurementMatches(meta.statement, doc.pcrs) /\ UserDataMatches(doc.userData)
                          /\ Unambiguous(doc.certificate, doc.cabundle)
                          /\ ValidChain(doc.certificate, doc.cabundle, clock)
               PROVE  VerifyDetailed(meta, meta.nonce) = "ok"
    BY DEF HonestIsAccepted
  <2> DEFINE sign1 == meta.teeAttestation
             doc == sign1.payload
  <2>1. /\ doc.timestamp - ClockSkewMs <= clock /\ clock <= doc.timestamp + MaxAgeMs
        /\ MeasurementMatches(meta.statement, doc.pcrs) /\ UserDataMatches(doc.userData)
        /\ Unambiguous(doc.certificate, doc.cabundle)
        /\ ValidChain(doc.certificate, doc.cabundle, clock)
    OBVIOUS
  <2>2. PICK e \in Enclaves, k \in Nat, t \in Int :
          /\ DOMAIN sign1 = {"payload", "signature"}
          /\ meta.publicInputs = <<meta.statement, meta.nonce>>
          /\ meta.proof = Signed(<<e, k>>, <<meta.statement, meta.nonce>>)
          /\ sign1.signature = Signed(Certificates[Leaf[e]].key, doc)
          /\ doc.timestamp = t /\ doc.certificate = Leaf[e]
          /\ doc.cabundle = cabundle[e] /\ doc.publicKey = <<e, k>>
          /\ doc.nonce = meta.nonce
    BY IssuedFields
  <2> HIDE DEF sign1, doc
  <2>3. sign1 # Unreadable
    <3>1. "payload" \in DOMAIN sign1 /\ DOMAIN Unreadable = {}
      BY <2>2 DEF Unreadable
    <3> QED
      BY <3>1
  <2>4. Timely(doc.timestamp)
    <3>1. doc.timestamp \in Int /\ clock \in Int /\ MaxAgeMs \in Int /\ ClockSkewMs \in Int
      BY <2>2, TeeAssumption DEF TeeInv
    <3> QED
      BY <2>1, <3>1 DEF Timely
  <2>5. Chain(doc.certificate, doc.cabundle, clock)
    BY <2>1, <2>2, BundleIsPool, WalkIsComplete
  <2> QED
    BY <2>1, <2>2, <2>3, <2>4, <2>5, VerifyDetailedCorrect DEF sign1, doc
<1> QED
  BY <1>1, TeeInvariant, PTL

=============================================================================
