----------------------------- MODULE KeyRotation -----------------------------
(***************************************************************************)
(* Signing keys of an issuer: the key set that issuerFor resolves for each *)
(* request, the key that signs, the JWKS that verifiers fetch and cache,   *)
(* and the rotation of keys by the application while requests are under    *)
(* way.                                                                    *)
(*                                                                         *)
(* A request resolves its issuer once, when it arrives, and may sign or    *)
(* send the JWKS later: it then works with the keys of that moment.  A     *)
(* verifier keeps a JWKS as long as Cache-Control allows.  The application *)
(* rotates as Issuer.Keys describes: it puts a new key before the old one, *)
(* at once or after it was published for a while, and removes the old key  *)
(* when the tokens that it signed have expired: Grace after it stopped     *)
(* signing.                                                                *)
(***************************************************************************)
EXTENDS Integers, Sequences

CONSTANTS
    Procs,       \* requests that can run at the same time
    Verifiers,   \* relying parties and resource servers that cache the JWKS
    Keys,        \* key IDs
    Alg,         \* the JWS algorithm of each key
    FirstKey,    \* the key that the issuer starts with
    Lifetimes,   \* lifetimes of signed tokens
    Flight,      \* bound: the HTTP server ends a request after this time
    MaxAge,      \* max-age in the Cache-Control header of the JWKS
    Grace,       \* how long a key is published after it stopped signing
    MaxTime,     \* bound: the clock stops here
    NoKey        \* no key signs with an algorithm

Algs == {Alg[k] : k \in Keys}

ASSUME KeysAssumption ==
    /\ FirstKey \in Keys /\ Alg[FirstKey] = "RS256"
    /\ NoKey \notin Keys
    /\ Lifetimes # {} /\ Lifetimes \subseteq Nat \ {0}   \* validLifetime
    /\ Flight \in Nat /\ MaxAge \in Nat /\ MaxTime \in Nat
    /\ Grace \in Nat

(* What the application has to observe: a request that was under way when  *)
(* the key stopped signing may still sign with it.                         *)
ASSUME WaitsAssumption == \A l \in Lifetimes : Grace >= l + Flight

VARIABLES
    now,      \* the clock
    config,   \* Issuer.Keys: the keys in order of preference
    stage,    \* what the application is doing with each key
    published,\* when it published each key
    stopped,  \* when each old key stopped signing
    job,      \* what each request does: "idle", "sign" or "jwks"
    keys,     \* the keys each request resolved: resolvedIssuer.keys
    begun,    \* when it resolved them
    detail,   \* the algorithm a request signs with, or who fetches the JWKS
    tokens,   \* signed tokens that have not expired
    cache     \* the JWKS that each verifier has, and when it got it

request == <<job, keys, begun, detail>>
rotation == <<config, stage, published, stopped>>
vars == <<now, rotation, request, tokens, cache>>

Stages == {"new", "published", "signing", "old", "retired"}

(* The variables have their types: requests hold keys of the configuration  *)
(* and tokens expire after the start of the clock.                          *)
TypeOK ==
    /\ now \in 0 .. MaxTime
    /\ config \in Seq(Keys)
    /\ stage \in [Keys -> Stages]
    /\ published \in [Keys -> 0 .. MaxTime]
    /\ stopped \in [Keys -> 0 .. MaxTime]
    /\ job \in [Procs -> {"idle", "sign", "jwks"}]
    /\ keys \in [Procs -> Seq(Keys)]
    /\ begun \in [Procs -> 0 .. MaxTime]
    /\ \A h \in Procs : /\ job[h] = "sign" => detail[h] \in Algs
                        /\ job[h] = "jwks" => detail[h] \in Verifiers
    /\ tokens \subseteq [kid : Keys, alg : Algs, exp : Nat]
    /\ cache \in [Verifiers -> [jwks : SUBSET (Keys \X Algs), at : 0 .. MaxTime]]

------------------------------------------------------------------------------
(* keys.go *)

(* Mutant of forAlg: the last key signs. *)
forAlgLast(ks, alg) ==
    LET I == {i \in DOMAIN ks : Alg[ks[i]] = alg} IN
    IF I = {} THEN NoKey ELSE ks[CHOOSE i \in I : \A j \in I : j <= i]

(* The first key that signs with alg. *)
forAlg(ks, alg) ==
    LET I == {i \in DOMAIN ks : Alg[ks[i]] = alg} IN
    IF I = {} THEN NoKey ELSE ks[CHOOSE i \in I : \A j \in I : i <= j]

(* What resolveIssuer accepts. *)
newKeySet(ks) ==
    /\ Len(ks) > 0
    /\ \A i, j \in DOMAIN ks : ks[i] = ks[j] => i = j
    /\ forAlg(ks, "RS256") # NoKey

(* Mutant of publicJWKS: only the keys that sign are published. *)
publicJWKSOfSigners(ks) ==
    {<<ks[i], Alg[ks[i]]>> : i \in {j \in DOMAIN ks : forAlg(ks, Alg[ks[j]]) = ks[j]}}

(* Every key is published with its ID and algorithm. *)
publicJWKS(ks) == {<<ks[i], Alg[ks[i]]>> : i \in DOMAIN ks}

(* verificationKey and the algorithm check: what a verifier looks up. *)
Verifies(jwks, t) == <<t.kid, t.alg>> \in jwks

(* verifyIDTokenHint: the issuer accepts its own tokens, expired or not, as*)
(* long as it has the key.                                                 *)
verifyIDTokenHint(ks, t) ==
    \E i \in DOMAIN ks : ks[i] = t.kid /\ Alg[ks[i]] = t.alg

------------------------------------------------------------------------------
(* Requests. *)

Init ==
    /\ now = 0
    /\ config = <<FirstKey>>
    /\ stage = [k \in Keys |-> IF k = FirstKey THEN "signing" ELSE "new"]
    /\ published = [k \in Keys |-> 0]
    /\ stopped = [k \in Keys |-> 0]
    /\ job = [h \in Procs |-> "idle"]
    /\ keys = [h \in Procs |-> <<>>]
    /\ begun = [h \in Procs |-> 0]
    /\ detail = [h \in Procs |-> NoKey]
    /\ tokens = {}
    /\ cache = [r \in Verifiers |-> [jwks |-> publicJWKS(config), at |-> 0]]

(* Mutant of issuerFor: the key set is resolved once. *)
issuerForOnce == IF newKeySet(config) THEN <<FirstKey>> ELSE <<>>

(* issuerFor: the application's configuration of this moment. *)
issuerFor == IF newKeySet(config) THEN config ELSE <<>>

Begin(h, what, d) ==
    /\ job[h] = "idle"
    /\ issuerFor # <<>>
    /\ job' = [job EXCEPT ![h] = what]
    /\ keys' = [keys EXCEPT ![h] = issuerFor]
    /\ begun' = [begun EXCEPT ![h] = now]
    /\ detail' = [detail EXCEPT ![h] = d]
    /\ UNCHANGED <<now, rotation, tokens, cache>>

(* A token request of a client whose registered algorithm is in use. *)
BeginSigning(h) ==
    \E k \in Keys : stage[k] = "signing" /\ Begin(h, "sign", Alg[k])

BeginFetch(h) == \E r \in Verifiers : Begin(h, "jwks", r)

End(h) ==
    /\ job' = [job EXCEPT ![h] = "idle"]
    /\ keys' = [keys EXCEPT ![h] = <<>>]
    /\ begun' = [begun EXCEPT ![h] = 0]
    /\ detail' = [detail EXCEPT ![h] = NoKey]

(* Mutant of Sign: the lifetime is subtracted. *)
SignBackdated(h) ==
    LET k == forAlg(keys[h], detail[h]) IN
    /\ job[h] = "sign"
    /\ k # NoKey
    /\ \E l \in Lifetimes :
        tokens' = tokens \union {[kid |-> k, alg |-> detail[h], exp |-> now - l]}
    /\ End(h)
    /\ UNCHANGED <<now, rotation, cache>>

(* issueIDToken and the sign function of encodeAccessToken. *)
Sign(h) ==
    LET k == forAlg(keys[h], detail[h]) IN
    /\ job[h] = "sign"
    /\ k # NoKey
    /\ \E l \in Lifetimes :
        tokens' = tokens \union {[kid |-> k, alg |-> detail[h], exp |-> now + l]}
    /\ End(h)
    /\ UNCHANGED <<now, rotation, cache>>

(* Another step of the request fails, or there is no key. *)
SignFails(h) ==
    /\ job[h] = "sign"
    /\ End(h)
    /\ UNCHANGED <<now, rotation, tokens, cache>>

(* serveJWKS: the response reaches the verifier. *)
Deliver(h) ==
    /\ job[h] = "jwks"
    /\ cache' = [cache EXCEPT ![detail[h]] = [jwks |-> publicJWKS(keys[h]), at |-> now]]
    /\ End(h)
    /\ UNCHANGED <<now, rotation, tokens>>

------------------------------------------------------------------------------
(* The application rotates keys. *)

(* The keys without k, which is one of them, in the same order. *)
Without(ks, k) ==
    LET p == CHOOSE i \in DOMAIN ks : ks[i] = k IN
    [i \in 1 .. (Len(ks) - 1) |-> IF i < p THEN ks[i] ELSE ks[i + 1]]

Publish(k) ==
    /\ stage[k] = "new"
    /\ config' = Append(config, k)
    /\ stage' = [stage EXCEPT ![k] = "published"]
    /\ published' = [published EXCEPT ![k] = now]
    /\ UNCHANGED <<now, stopped, request, tokens, cache>>

(* The new key goes before the old one, which stops signing. *)
Promote(k) ==
    LET before == {j \in Keys : stage[j] = "signing" /\ Alg[j] = Alg[k]} IN
    /\ stage[k] = "published"
    /\ config' = <<k>> \o Without(config, k)
    /\ stage' = [j \in Keys |-> IF j = k THEN "signing"
                                ELSE IF j \in before THEN "old" ELSE stage[j]]
    /\ stopped' = [j \in Keys |-> IF j \in before THEN now ELSE stopped[j]]
    /\ UNCHANGED <<now, published, request, tokens, cache>>

(* The old key is removed when tokens signed with it have expired. *)
Retire(k) ==
    /\ stage[k] = "old"
    /\ now >= stopped[k] + Grace
    /\ config' = Without(config, k)
    /\ stage' = [stage EXCEPT ![k] = "retired"]
    /\ UNCHANGED <<now, published, stopped, request, tokens, cache>>

(* Time passes, unless a request is about to be ended by the HTTP server;  *)
(* expired tokens are forgotten.                                           *)
Tick ==
    /\ now < MaxTime
    /\ \A h \in Procs : job[h] # "idle" => now < begun[h] + Flight
    /\ now' = now + 1
    /\ tokens' = {t \in tokens : now + 1 < t.exp}
    /\ UNCHANGED <<rotation, request, cache>>

Next ==
    \/ \E h \in Procs : BeginSigning(h) \/ BeginFetch(h) \/ Sign(h)
                        \/ SignFails(h) \/ Deliver(h)
    \/ \E k \in Keys : Publish(k) \/ Promote(k) \/ Retire(k)
    \/ Tick

Spec == Init /\ [][Next]_vars

------------------------------------------------------------------------------
(* Properties. *)

(***************************************************************************)
(* The JWKS that the issuer serves has the key of every token that has not *)
(* expired, and the issuer accepts such a token as id_token_hint, although *)
(* requests that began before a rotation go on signing with the old key    *)
(* (issuerFor, publicJWKS, verifyIDTokenHint).                             *)
(***************************************************************************)
LiveTokensVerify ==
    \A t \in tokens :
        /\ Verifies(publicJWKS(issuerFor), t)
        /\ verifyIDTokenHint(issuerFor, t)

(***************************************************************************)
(* A verifier with a JWKS that it may still cache can verify every token   *)
(* that has not expired, unless the key was published so recently that the *)
(* JWKS may have been resolved before: less than the time a response takes *)
(* and max-age ago.  So a key that signs at once, as Issuer.Keys allows,   *)
(* is unknown to some verifiers for this long and not longer, and a key    *)
(* that is published this long before it signs never is (serveJWKS,        *)
(* forAlg).                                                                *)
(***************************************************************************)
CachedKeysVerify ==
    \A r \in Verifiers, t \in tokens :
        /\ now < cache[r].at + MaxAge
        /\ now >= published[t.kid] + Flight + MaxAge
        => Verifies(cache[r].jwks, t)

(***************************************************************************)
(* While keys are rotated, a client's algorithm stays available: a request *)
(* never finds that the issuer has no key for it (issueIDToken).           *)
(***************************************************************************)
SigningNeverStops ==
    \A h \in Procs : job[h] = "sign" => forAlg(keys[h], detail[h]) # NoKey
==============================================================================
