------------------------------- MODULE KeySet -------------------------------
(***************************************************************************)
(* Verification of a token against the JWKS of the user pool, cached in    *)
(* one backend process.  A request that finds the cache expired waits in   *)
(* the line of an asyncio.Lock, whose first member fetches the key set     *)
(* unless a predecessor has; while the pool cannot be reached the expired  *)
(* set serves on, without a new expiry.                                    *)
(***************************************************************************)
EXTENDS Naturals, Sequences, FiniteSets

CONSTANTS
    Client,        \* requests with a token
    Key,           \* signing keys of the pool
    MaxRotations,  \* bound on the rotations of the pool's keys
    MaxOutages,    \* bound on the failing fetches
    NoKeys         \* no key set was fetched yet

ASSUME KeySetAssumption ==
    MaxRotations \in Nat /\ MaxOutages \in Nat

VARIABLES
    published,  \* the keys at .well-known/jwks.json
    keys,       \* _jwks_cache
    keysFresh,  \* its age is below cognito_jwks_ttl_seconds
    line,       \* who holds _jwks_lock, and who waits for it, in order
    auth,       \* where each request is
    token,      \* the key and the claims of its token
    rotations, outages

keyVars == <<published, keys, keysFresh, line, auth, token, rotations, outages>>

(* What _decode_token finds in a token: made for this client, made for     *)
(* another one or for another use, or not accepted by jwt.decode.          *)
Claims == {"ours", "foreign", "broken"}

KeysInit ==
    /\ published \in {{k} : k \in Key}
    /\ keys = NoKeys /\ keysFresh = FALSE /\ line = << >>
    /\ auth = [c \in Client |-> "idle"]
    /\ token \in [Client -> [key: published, claims: {"ours"}]]
    /\ rotations = 0 /\ outages = 0

Fresh == keys # NoKeys /\ keysFresh

(* jwt.decode; client_id of an access token, aud of an id token, no other. *)
ClaimsHold(t) == t.claims = "ours"

(* The outcome for c with a key set: every refusal is a 401. *)
Judge(c, set) ==
    auth' = [auth EXCEPT ![c] =
        IF set # NoKeys /\ token[c].key \in set /\ ClaimsHold(token[c])
        THEN "verified" ELSE "refused"]

(* A request arrives with a token made with a key of the pool. *)
Present(c) ==
    /\ auth[c] = "idle"
    /\ \E t \in [key: published, claims: Claims] : token' = [token EXCEPT ![c] = t]
    /\ auth' = [auth EXCEPT ![c] = "arrived"]
    /\ UNCHANGED <<published, keys, keysFresh, line, rotations, outages>>

(* The cached set is used without the lock, or the request gets in line.   *)
Look(c) ==
    /\ auth[c] = "arrived"
    /\ IF Fresh THEN Judge(c, keys) /\ UNCHANGED line
       ELSE /\ auth' = [auth EXCEPT ![c] = "waiting"]
            /\ line' = Append(line, c)
    /\ UNCHANGED <<published, keys, keysFresh, token, rotations, outages>>

First(c) == line # << >> /\ Head(line) = c

(* The lock is granted: the first in line looks again, then fetches. *)
Lock(c) ==
    /\ auth[c] = "waiting" /\ First(c)
    /\ IF Fresh THEN Judge(c, keys) /\ line' = Tail(line)
       ELSE auth' = [auth EXCEPT ![c] = "fetching"] /\ UNCHANGED line
    /\ UNCHANGED <<published, keys, keysFresh, token, rotations, outages>>

(* Mutant: the first set the process had stays. *)
RenewOnce == keys' = IF keys = NoKeys THEN published ELSE keys

Renew == keys' = published

Fetched(c) ==
    /\ auth[c] = "fetching"
    /\ Renew /\ keysFresh' = TRUE
    /\ Judge(c, published) /\ line' = Tail(line)
    /\ UNCHANGED <<published, token, rotations, outages>>

(* Mutant: a failed fetch refuses although a set is there. *)
FallBackRefuses(c) == Judge(c, NoKeys) /\ line' = Tail(line)

(* The expired set serves, or the exception becomes a 401. *)
FallBack(c) == Judge(c, keys) /\ line' = Tail(line)

FetchFails(c) ==
    /\ auth[c] = "fetching" /\ outages < MaxOutages
    /\ outages' = outages + 1
    /\ FallBack(c)
    /\ UNCHANGED <<published, keys, keysFresh, token, rotations>>

(* The request is over; the client comes back. *)
Again(c) ==
    /\ auth[c] \in {"verified", "refused"}
    /\ auth' = [auth EXCEPT ![c] = "idle"]
    /\ UNCHANGED <<published, keys, keysFresh, line, token, rotations, outages>>

(* cognito_jwks_ttl_seconds have passed since the fetch. *)
KeysExpire ==
    /\ keysFresh /\ keysFresh' = FALSE
    /\ UNCHANGED <<published, keys, line, auth, token, rotations, outages>>

(* The pool adds a key or drops one. *)
Rotate ==
    /\ rotations < MaxRotations /\ rotations' = rotations + 1
    /\ published' \in (SUBSET Key) \ {{}, published}
    /\ UNCHANGED <<keys, keysFresh, line, auth, token, outages>>

Verify(c) == Look(c) \/ Lock(c) \/ Fetched(c) \/ FetchFails(c)

KeysNext ==
    \/ \E c \in Client : Present(c) \/ Verify(c) \/ Again(c)
    \/ KeysExpire \/ Rotate

KeysSpec == KeysInit /\ [][KeysNext]_keyVars

-----------------------------------------------------------------------------

(* A good token whose key is in the set the process has, or in the one it  *)
(* fetches, is never refused: not while the pool cannot be reached either. *)
(* And a token for somebody else is never verified.                        *)
OutageRefusesNobody ==
    [][\A c \in Client :
         /\ auth[c] # "refused" /\ auth'[c] = "refused" =>
              ~ClaimsHold(token[c]) \/ keys' = NoKeys \/ token[c].key \notin keys'
         /\ auth'[c] = "verified" => token[c].claims = "ours"]_keyVars

(* A new key is trusted, and a dropped one no longer, once the old set has *)
(* expired: the process ends with the pool's keys.                         *)
EventuallyRotated == <>[](keys = published)

=============================================================================
