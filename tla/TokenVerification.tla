-------------------------- MODULE TokenVerification --------------------------
(***************************************************************************)
(* services/api-gateway/src/auth.ts: who the gateway takes a request to be *)
(* from. A signed token is checked with the identity provider's keys,      *)
(* which one process caches for all its requests (jwksCache).              *)
(*                                                                         *)
(* A fetch of the keys is three steps: asked, answered with the keys of    *)
(* that moment, and arrived. The code between two awaits is one step. The  *)
(* provider publishes and withdraws keys at any time.                      *)
(***************************************************************************)
EXTENDS Naturals

CONSTANTS Caller,     \* requests in progress at once
          Key,        \* key ids
          NoCache,    \* jwksCache = null
          MaxFaults   \* bound: fetches that fail

VARIABLES devMode,    \* DEV_MODE
          published,  \* the keys of the provider
          jwksCache,  \* the keys cached, and if they are younger than the TTL
          call,       \* each request, and the history of its handling
          faults

vars == <<devMode, published, jwksCache, call, faults>>

Cached == [keys : SUBSET Key, fresh : BOOLEAN]

ASSUME TokenAssumption == /\ NoCache \notin Cached
                          /\ Key # {}
                          /\ MaxFaults \in Nat

(* stage counts the calls of getJWKS; keys is the answer under way. The    *)
(* history: whether the token's key was published throughout, or at some   *)
(* moment, whether the cache vouched for it at the start, and whether a    *)
(* fetch of this request failed.                                           *)
Call == [pc : {"idle", "asked", "answered", "served", "refused"},
         stage : 0..3, kid : Key, signed : BOOLEAN, keys : SUBSET Key,
         steady : BOOLEAN, seen : BOOLEAN, vouched : BOOLEAN, failed : BOOLEAN]

Pending(q) == q.pc \in {"asked", "answered"}

TokenTypeOK ==
    /\ devMode \in BOOLEAN
    /\ published \in SUBSET Key
    /\ jwksCache \in Cached \cup {NoCache}
    /\ call \in [Caller -> Call]
    /\ faults \in 0..MaxFaults

Decided(result) ==
    [pc |-> result, stage |-> 0, kid |-> CHOOSE k \in Key : TRUE,
     signed |-> TRUE, keys |-> {}, steady |-> FALSE, seen |-> TRUE,
     vouched |-> FALSE, failed |-> FALSE]

TokenInit ==
    /\ devMode \in BOOLEAN
    /\ published \in SUBSET Key
    /\ jwksCache = NoCache
    /\ call = [r \in Caller |-> Decided("idle")]
    /\ faults = 0

-----------------------------------------------------------------------------
(* A request without a token, or with dev-token, is the development user's *)
(* in development mode. Any other that decodeJWT, the issuer, the audience *)
(* or the expiry rejects is refused.                                       *)
Unsigned(r, dev) ==
    /\ ~Pending(call[r])
    /\ call' = [call EXCEPT ![r] =
                   Decided(IF dev /\ devMode THEN "served" ELSE "refused")]
    /\ UNCHANGED <<devMode, published, jwksCache, faults>>

Ask(q) == [q EXCEPT !.pc = "asked", !.stage = @ + 1, !.keys = {}]

Finish(q, known) ==
    [q EXCEPT !.pc = IF known /\ q.signed THEN "served" ELSE "refused", !.keys = {}]

(* Mutation of Resume: an unknown key is not looked for again.             *)
ResumeOnce(r, q, c) ==
    /\ call' = [call EXCEPT ![r] = Finish(q, q.kid \in c.keys)]
    /\ jwksCache' = c

(* The rest of verifyJWT when getJWKS returns the keys of the cache c. At  *)
(* first an unknown key empties the cache and asks again; the key is then  *)
(* looked up by a third getJWKS, which asks once more if c is not fresh.   *)
Resume(r, q, c) ==
    LET known == q.kid \in c.keys
        again == IF known THEN q.stage = 2 /\ ~c.fresh ELSE q.stage = 1
    IN  /\ call' = [call EXCEPT ![r] = IF again THEN Ask(q) ELSE Finish(q, known)]
        /\ jwksCache' = IF ~known /\ q.stage = 1 THEN NoCache ELSE c

FreshCache == IF jwksCache = NoCache THEN FALSE ELSE jwksCache.fresh

Arrived(kid, signed) ==
    [pc |-> "asked", stage |-> 1, kid |-> kid, signed |-> signed, keys |-> {},
     steady |-> kid \in published, seen |-> kid \in published,
     vouched |-> FreshCache /\ kid \in jwksCache.keys, failed |-> FALSE]

(* Mutation of Verify: the age of the cache is not looked at.              *)
VerifyByAnyCache(r, kid, signed) ==
    /\ ~Pending(call[r])
    /\ \/ jwksCache # NoCache /\ Resume(r, Arrived(kid, signed), jwksCache)
       \/ /\ jwksCache = NoCache
          /\ call' = [call EXCEPT ![r] = Arrived(kid, signed)]
          /\ UNCHANGED jwksCache
    /\ UNCHANGED <<devMode, published, faults>>

(* A token of the right issuer and audience, signed by its key or not: the *)
(* first getJWKS returns a fresh cache at once, or asks for the keys.      *)
Verify(r, kid, signed) ==
    /\ ~Pending(call[r])
    /\ \/ FreshCache /\ Resume(r, Arrived(kid, signed), jwksCache)
       \/ /\ ~FreshCache
          /\ call' = [call EXCEPT ![r] = Arrived(kid, signed)]
          /\ UNCHANGED jwksCache
    /\ UNCHANGED <<devMode, published, faults>>

(* The provider answers a fetch, and the answer arrives.                   *)
Answer(r) ==
    /\ call[r].pc = "asked"
    /\ call' = [call EXCEPT ![r].pc = "answered", ![r].keys = published]
    /\ UNCHANGED <<devMode, published, jwksCache, faults>>

Arrive(r) ==
    /\ call[r].pc = "answered"
    /\ Resume(r, call[r], [keys |-> call[r].keys, fresh |-> TRUE])
    /\ UNCHANGED <<devMode, published, faults>>

(* A fetch fails: whatever is cached is used, however old.                 *)
FetchFails(r) ==
    /\ Pending(call[r])
    /\ faults < MaxFaults /\ faults' = faults + 1
    /\ LET q == [call[r] EXCEPT !.failed = TRUE]
       IN  \/ jwksCache # NoCache /\ Resume(r, q, jwksCache)
           \/ /\ jwksCache = NoCache
              /\ call' = [call EXCEPT ![r] = Finish(q, FALSE)]
              /\ UNCHANGED jwksCache
    /\ UNCHANGED <<devMode, published>>

(* JWKS_CACHE_TTL after the keys were cached.                              *)
Expire ==
    /\ jwksCache # NoCache
    /\ jwksCache' = [jwksCache EXCEPT !.fresh = FALSE]
    /\ UNCHANGED <<devMode, published, call, faults>>

(* The provider rotates its keys.                                          *)
Rotate(keys) ==
    /\ published' = keys
    /\ call' = [r \in Caller |->
          IF Pending(call[r])
          THEN [call[r] EXCEPT !.steady = @ /\ call[r].kid \in keys,
                               !.seen = @ \/ call[r].kid \in keys]
          ELSE call[r]]
    /\ UNCHANGED <<devMode, jwksCache, faults>>

TokenNext ==
    \/ \E r \in Caller : \/ \E dev \in BOOLEAN : Unsigned(r, dev)
                         \/ \E kid \in Key, signed \in BOOLEAN : Verify(r, kid, signed)
                         \/ Answer(r) \/ Arrive(r) \/ FetchFails(r)
    \/ Expire
    \/ \E keys \in SUBSET Key : Rotate(keys)

TokenSpec == TokenInit /\ [][TokenNext]_vars

-----------------------------------------------------------------------------
(* A genuine token whose key the provider published from the arrival of    *)
(* the request on is refused only if a fetch of the request itself failed: *)
(* not because the keys rotated earlier, nor because other requests empty  *)
(* or overwrite the cache that they share.                                 *)
GenuineServed ==
    \A r \in Caller :
        call[r].pc = "refused" /\ call[r].signed /\ call[r].steady => call[r].failed

(* A request is served on a key the provider withdrew before the request   *)
(* came only if the cache was younger than its TTL then, or a fetch of the *)
(* request itself failed and what was cached had to do.                    *)
WithdrawnRefused ==
    \A r \in Caller :
        call[r].pc = "served" =>
            call[r].signed /\ (call[r].seen \/ call[r].vouched \/ call[r].failed)
=============================================================================
