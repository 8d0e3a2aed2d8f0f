---------------------------- MODULE KeyRegistry ----------------------------
(***************************************************************************)
(* The client's registry of verification keys (packages/verifier/src/      *)
(* registry.ts).  `get` trusts the first text fetched for a circuit hash   *)
(* and pins it; `getBytes` accepts only bytes whose digest is the hash.    *)
(* Both suspend at the fetch, so calls for one hash overlap and what the   *)
(* server serves may change between two fetches.                           *)
(***************************************************************************)
EXTENDS Naturals

CONSTANTS
    Calls,      \* concurrent callers; a caller may call again
    Hashes,     \* circuit hashes (and oracle-sig-v1:<uri> names) asked for
    Texts,      \* what a server may serve as a key
    Malformed,  \* the texts createPublicKey cannot parse
    DigestOf,   \* sha256 of each text, as one of the hashes or something else
    None        \* undefined

\* No two texts have the same digest.
ASSUME RegistryAssumption ==
    /\ Malformed \subseteq Texts
    /\ None \notin Texts
    /\ DOMAIN DigestOf = Texts
    /\ \A s, t \in Texts : DigestOf[s] = DigestOf[t] => s = t

VARIABLES
    keys,    \* circuit hash -> pinned PEM
    bytes,   \* circuit hash -> verified bytes
    call,    \* where each call stands
    handed   \* history: every key handed out, <<method, hash, text>>

vars == <<keys, bytes, call, handed>>

Methods == {"get", "getBytes"}

Call == [pc : {"idle", "fetching", "returned", "rejected"}, method : Methods, hash : Hashes]

TypeOK ==
    /\ keys \in [Hashes -> Texts \cup {None}]
    /\ bytes \in [Hashes -> Texts \cup {None}]
    /\ call \in [Calls -> Call]
    /\ handed \in SUBSET (Methods \X Hashes \X Texts)

Init ==
    /\ keys = [h \in Hashes |-> None]
    /\ bytes = [h \in Hashes |-> None]
    /\ call \in [Calls -> [pc : {"idle"}, method : {"get"}, hash : Hashes]]
    /\ handed = {}

Goto(c, pc) == call' = [call EXCEPT ![c].pc = pc]

Reject(c) == Goto(c, "rejected") /\ UNCHANGED <<keys, bytes, handed>>

\* createPublicKey on a text: it throws on a malformed one.
HandOutKey(c, hash, text) ==
    LET parses == text \notin Malformed
    IN  /\ call' = [call EXCEPT ![c] = [pc |-> IF parses THEN "returned" ELSE "rejected",
                                        method |-> "get", hash |-> hash]]
        /\ handed' = IF parses THEN handed \cup {<<"get", hash, text>>} ELSE handed

Idle(c) == call[c].pc # "fetching"

-----------------------------------------------------------------------------
\* get() of a pinned hash: no fetch, and no look at the uri.
GetPinned(c, hash) ==
    /\ Idle(c)
    /\ keys[hash] # None
    /\ HandOutKey(c, hash, keys[hash])
    /\ UNCHANGED <<keys, bytes>>

\* getBytes() of a hash whose bytes are known.
GetBytesKnown(c, hash) ==
    /\ Idle(c)
    /\ bytes[hash] # None
    /\ call' = [call EXCEPT ![c] = [pc |-> "returned", method |-> "getBytes", hash |-> hash]]
    /\ handed' = handed \cup {<<"getBytes", hash, bytes[hash]>>}
    /\ UNCHANGED <<keys, bytes>>

\* Either method on an unknown hash: the uri's origin is checked, and the fetch
\* suspends the call or the call fails.
StartFetch(c, method, hash) ==
    /\ Idle(c)
    /\ IF method = "get" THEN keys[hash] = None ELSE bytes[hash] = None
    /\ \E pc \in {"fetching", "rejected"} :
           call' = [call EXCEPT ![c] = [pc |-> pc, method |-> method, hash |-> hash]]
    /\ UNCHANGED <<keys, bytes, handed>>

\* A failed, redirected, oversized or timed-out fetch.
FetchFails(c) ==
    /\ call[c].pc = "fetching"
    /\ Reject(c)

GetReturnsMutant(c, text) ==
    /\ call[c].pc = "fetching" /\ call[c].method = "get"
    /\ keys' = [keys EXCEPT ![call[c].hash] = text]
    /\ HandOutKey(c, call[c].hash, text)
    /\ UNCHANGED bytes

\* get() after its fetch: the pin is looked up again, since another call may
\* have set it, and set before the text is parsed.
GetReturns(c, text) ==
    /\ call[c].pc = "fetching" /\ call[c].method = "get"
    /\ LET hash == call[c].hash IN
       IF keys[hash] \notin {None, text}
       THEN Reject(c)
       ELSE /\ keys' = [keys EXCEPT ![hash] = text]
            /\ HandOutKey(c, hash, text)
            /\ UNCHANGED bytes

\* getBytes() after its fetch: the digest decides.
GetBytesReturns(c, text) ==
    /\ call[c].pc = "fetching" /\ call[c].method = "getBytes"
    /\ LET hash == call[c].hash IN
       IF DigestOf[text] # hash
       THEN Reject(c)
       ELSE /\ bytes' = [bytes EXCEPT ![hash] = text]
            /\ handed' = handed \cup {<<"getBytes", hash, text>>}
            /\ Goto(c, "returned")
            /\ UNCHANGED keys

CallStep(c) ==
    \/ \E hash \in Hashes : GetPinned(c, hash) \/ GetBytesKnown(c, hash)
    \/ \E hash \in Hashes, method \in Methods : StartFetch(c, method, hash)
    \/ FetchFails(c)
    \/ \E text \in Texts : GetReturns(c, text) \/ GetBytesReturns(c, text)

Next == \E c \in Calls : CallStep(c)

Spec == Init /\ [][Next]_vars

-----------------------------------------------------------------------------
\* All callers that ever get a key for a circuit hash by the same method get
\* the same one, and by `getBytes` the one the hash names, however their
\* fetches overlapped and whatever the server served (registry.ts:22-24, 40).
HandedKeysAgree ==
    /\ \A a, b \in handed : a[1] = b[1] /\ a[2] = b[2] => a[3] = b[3]
    /\ \A a \in handed : a[1] = "getBytes" => DigestOf[a[3]] = a[2]

\* A pinned key never changes: neither a late fetch nor a failed one replaces
\* it ("pin on first use", docs/spec/verifiable-tools.md on the descriptor).
PinIsFinal ==
    [][\A hash \in Hashes : /\ keys[hash] # None => keys'[hash] = keys[hash]
                            /\ bytes[hash] # None => bytes'[hash] = bytes[hash]]_vars

=============================================================================
