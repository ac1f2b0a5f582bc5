--------------------------- MODULE ClientAssertion ---------------------------
(***************************************************************************)
(* Client authentication with private_key_jwt (clientauth.go) and the      *)
(* replay protection of client assertions, Storage.ClaimOnce.              *)
(*                                                                         *)
(* A handler looks up the client, verifies the assertion by the clock of   *)
(* that moment, and claims its jti by the clock of a later moment; pc[h]   *)
(* names the step it takes next.  The other authentication methods keep no *)
(* state and are left out, and so are requests that are refused before the *)
(* lookup.  A signature is the key that made it.  Faults are those of      *)
(* TokenEndpoint; a crash is one of the handler, not of the store.         *)
(***************************************************************************)
EXTENDS Integers

CONSTANTS
    Procs,            \* HTTP requests that can run at the same time
    Issuers,          \* issuer URLs
    ClientIDs,        \* client identifiers, registered per issuer
    Keys,             \* signing keys
    JTIs,             \* values of the claim jti
    Assertions,       \* client assertions that exist
    Registrations,    \* what may be registered for a client
    Leeway,           \* assertionLeeway
    MaxLifetime,      \* maxAssertionLifetime
    CollectInterval,  \* memory.Store collects at most once per interval
    MaxTime,          \* bound: the clock stops here
    Faults,           \* subset of {"error", "late", "crash"}
    None              \* an absent value

Assertion == [iss : ClientIDs, sub : ClientIDs, aud : SUBSET Issuers,
              jti : JTIs, exp : Nat, key : Keys]

(* authMethod and the JWKS of a client; a client may be unregistered. *)
Registration == [method : {"private_key_jwt", "other"}, keys : SUBSET Keys]

ASSUME ConstantsAssumption ==
    /\ Assertions \subseteq Assertion
    /\ Registrations \subseteq Registration \union {None}
    /\ Leeway \in Nat
    /\ MaxLifetime \in Nat
    /\ CollectInterval \in Nat
    /\ MaxTime \in Nat
    /\ Faults \subseteq {"error", "late", "crash"}
    /\ None \notin Nat

VARIABLES
    now,             \* the clock of the provider and of the store
    clients,         \* registration of each client of each issuer
    claims,          \* memory.Store.claims: when each claim ends
    lastCollection,  \* memory.Store.lastCollection
    pc,              \* the step each handler takes next
    call,            \* the request of each handler
    found,           \* the registration each handler looked up
    used             \* history: <<issuer, assertion>> that were accepted

handlers == <<pc, call, found>>
store    == <<claims, lastCollection>>
vars     == <<now, clients, store, handlers, used>>

(* What the key given to ClaimOnce encodes, injectively. *)
ClaimKeys == Issuers \X ClientIDs \X JTIs

(* client is the parameter client_id, which may be missing. *)
Request == [issuer : Issuers, client : ClientIDs \union {None}, assertion : Assertions]

TypeOK ==
    /\ now \in 0 .. MaxTime
    /\ clients \in [Issuers \X ClientIDs -> Registrations]
    /\ claims \in [ClaimKeys -> Nat \union {None}]
    /\ lastCollection \in Int
    /\ pc \in [Procs -> {"idle", "lookup", "verify", "claim", "accepted", "replay"}]
    /\ call \in [Procs -> Request \union {None}]
    /\ \A h \in Procs : pc[h] # "idle" => call[h] \in Request
    /\ found \in [Procs -> Registrations \union {None}]
    /\ used \subseteq Issuers \X Assertions

Init ==
    /\ now = 0
    /\ clients \in [Issuers \X ClientIDs -> Registrations]
    /\ claims = [k \in ClaimKeys |-> None]
    /\ lastCollection = 0 - CollectInterval
    /\ pc = [h \in Procs |-> "idle"]
    /\ call = [h \in Procs |-> None]
    /\ found = [h \in Procs |-> None]
    /\ used = {}

------------------------------------------------------------------------------
At(h, label) == pc[h] = label

Goto(h, label) ==
    /\ pc' = [pc EXCEPT ![h] = label]
    /\ UNCHANGED <<call, found>>

Finish(h) ==
    /\ pc' = [pc EXCEPT ![h] = "idle"]
    /\ call' = [call EXCEPT ![h] = None]
    /\ found' = [found EXCEPT ![h] = None]

(* Mutant: the client is not part of the key. *)
assertionKeyOfIssuer(q) == <<q.issuer, CHOOSE c \in ClientIDs : TRUE, q.assertion.jti>>

assertionKey(q) == <<q.issuer, q.assertion.sub, q.assertion.jti>>

(* The part of collectLocked that concerns claims. *)
collected ==
    IF now - lastCollection >= CollectInterval
    THEN [k \in ClaimKeys |-> IF claims[k] # None /\ now > claims[k]
                              THEN None ELSE claims[k]]
    ELSE claims

collectionTime ==
    IF now - lastCollection >= CollectInterval THEN now ELSE lastCollection

usesAssertions(reg) == reg # None /\ reg.method = "private_key_jwt"

(* ValidateWithLeeway of go-jose: the expiry itself is still accepted. *)
validateWithLeeway(a, i) ==
    /\ a.iss = a.sub
    /\ i \in a.aud
    /\ now - Leeway <= a.exp

(* Mutant: assertions may expire in any future. *)
verifiedForever(q, reg) ==
    /\ q.assertion.key \in reg.keys
    /\ q.assertion.aud = {q.issuer}
    /\ validateWithLeeway(q.assertion, q.issuer)

(* Mutant: the issuer must be one of the audiences. *)
verifiedAnyAudience(q, reg) ==
    /\ q.assertion.key \in reg.keys
    /\ validateWithLeeway(q.assertion, q.issuer)
    /\ q.assertion.exp <= now + MaxLifetime

verified(q, reg) ==
    /\ q.assertion.key \in reg.keys
    /\ q.assertion.aud = {q.issuer}
    /\ validateWithLeeway(q.assertion, q.issuer)
    /\ q.assertion.exp <= now + MaxLifetime

------------------------------------------------------------------------------
(* The steps of authenticateClient and verifyClientAssertion. *)

Arrive(h) ==
    /\ At(h, "idle")
    /\ \E q \in Request : call' = [call EXCEPT ![h] = q]
    /\ pc' = [pc EXCEPT ![h] = "lookup"]
    /\ UNCHANGED <<now, clients, store, found, used>>

(* lookupAuthenticatingClient: the registration is read once. *)
LookupFinds(h) ==
    LET reg == clients[<<call[h].issuer, call[h].assertion.sub>>] IN
    /\ At(h, "lookup")
    /\ usesAssertions(reg)
    /\ pc' = [pc EXCEPT ![h] = "verify"]
    /\ found' = [found EXCEPT ![h] = reg]
    /\ UNCHANGED <<now, clients, store, call, used>>

LookupRefuses(h) ==
    LET reg == clients[<<call[h].issuer, call[h].assertion.sub>>] IN
    /\ At(h, "lookup")
    /\ ~usesAssertions(reg) \/ "error" \in Faults
    /\ Finish(h)
    /\ UNCHANGED <<now, clients, store, used>>

VerifyPasses(h) ==
    /\ At(h, "verify")
    /\ verified(call[h], found[h])
    /\ Goto(h, "claim")
    /\ UNCHANGED <<now, clients, store, used>>

VerifyRefuses(h) ==
    /\ At(h, "verify")
    /\ ~verified(call[h], found[h])
    /\ Finish(h)
    /\ UNCHANGED <<now, clients, store, used>>

(* Mutant: the lifetime is subtracted. *)
ClaimOnceBackwards(q) ==
    /\ collected[assertionKey(q)] # None => ~(now < collected[assertionKey(q)])
    /\ claims' = [collected EXCEPT ![assertionKey(q)] = now - MaxLifetime]
    /\ lastCollection' = collectionTime

(* Mutant: the claim ends with the assertion, without the leeway. *)
ClaimOnceTight(q) ==
    /\ collected[assertionKey(q)] # None => ~(now < collected[assertionKey(q)])
    /\ claims' = [collected EXCEPT ![assertionKey(q)] = q.assertion.exp]
    /\ lastCollection' = collectionTime

(* ClaimOnce that records the key; a claim that has not ended conflicts. *)
ClaimOnce(q) ==
    /\ collected[assertionKey(q)] # None => ~(now < collected[assertionKey(q)])
    /\ claims' = [collected EXCEPT ![assertionKey(q)] = q.assertion.exp + Leeway]
    /\ lastCollection' = collectionTime

(* The parameter client_id is compared only after the claim. *)
ClaimSucceeds(h) ==
    LET q == call[h] IN
    /\ At(h, "claim")
    /\ ClaimOnce(q)
    /\ \/ /\ q.client \in {None, q.assertion.sub}
          /\ Goto(h, "accepted")
          /\ used' = used \union {<<q.issuer, q.assertion>>}
       \/ /\ q.client \notin {None, q.assertion.sub}
          /\ Finish(h)
          /\ UNCHANGED used
    /\ UNCHANGED <<now, clients>>

(* ErrConflict. *)
ClaimConflicts(h) ==
    LET k == assertionKey(call[h]) IN
    /\ At(h, "claim")
    /\ collected[k] # None
    /\ now < collected[k]
    /\ claims' = collected
    /\ lastCollection' = collectionTime
    /\ Goto(h, "replay")
    /\ UNCHANGED <<now, clients, used>>

ClaimFails(h) ==
    /\ At(h, "claim")
    /\ \/ "error" \in Faults /\ UNCHANGED store
       \/ "late" \in Faults /\ ClaimOnce(call[h])
    /\ Finish(h)
    /\ UNCHANGED <<now, clients, used>>

(* The endpoint goes on, or answers invalid_client. *)
Leave(h) ==
    /\ At(h, "accepted") \/ At(h, "replay")
    /\ Finish(h)
    /\ UNCHANGED <<now, clients, store, used>>

Crash(h) ==
    /\ "crash" \in Faults
    /\ ~At(h, "idle")
    /\ Finish(h)
    /\ UNCHANGED <<now, clients, store, used>>

------------------------------------------------------------------------------
(* The environment. *)

SetClient ==
    /\ \E i \in Issuers, c \in ClientIDs, reg \in Registrations :
        clients' = [clients EXCEPT ![<<i, c>>] = reg]
    /\ UNCHANGED <<now, store, handlers, used>>

Tick ==
    /\ now < MaxTime
    /\ now' = now + 1
    /\ UNCHANGED <<clients, store, handlers, used>>

(* Some other method of the store collects. *)
Collect ==
    /\ claims' = collected
    /\ lastCollection' = collectionTime
    /\ UNCHANGED <<now, clients, handlers, used>>

Step(h) ==
    \/ Arrive(h) \/ LookupFinds(h) \/ LookupRefuses(h)
    \/ VerifyPasses(h) \/ VerifyRefuses(h)
    \/ ClaimSucceeds(h) \/ ClaimConflicts(h) \/ ClaimFails(h)
    \/ Leave(h) \/ Crash(h)

Next ==
    \/ \E h \in Procs : Step(h)
    \/ SetClient \/ Tick \/ Collect

Spec == Init /\ [][Next]_vars

------------------------------------------------------------------------------
(* Properties. *)

Accepts(h) == At(h, "claim") /\ pc'[h] = "accepted"

(***************************************************************************)
(* Once an assertion of a client was accepted, no assertion of that client *)
(* with the same jti is accepted before the first one expired, leeway      *)
(* included: whichever handlers race, whatever the store collects, and     *)
(* although an assertion is verified by an earlier clock than it is claimed*)
(* by (verifyClientAssertion, ClaimOnce).                                  *)
(***************************************************************************)
NoReplayWhileValid ==
    [][\A h \in Procs, u \in used :
         /\ Accepts(h)
         /\ u[1] = call[h].issuer
         /\ u[2].sub = call[h].assertion.sub
         /\ u[2].jti = call[h].assertion.jti
         => u[2].exp + Leeway <= now]_vars

(***************************************************************************)
(* No record in the claims outlives maxAssertionLifetime and the leeway,   *)
(* which is what bounds how long a jti must be remembered, even if the     *)
(* handler was delayed between the check and the claim.                    *)
(***************************************************************************)
ClaimsAreBounded ==
    \A k \in ClaimKeys : claims[k] # None => claims[k] <= now + MaxLifetime + Leeway

(***************************************************************************)
(* Client assertions are single-use, as docs/design.md says of them: none  *)
(* is accepted that was accepted before.                                   *)
(***************************************************************************)
SingleUse ==
    [][\A h \in Procs :
         Accepts(h) => <<call[h].issuer, call[h].assertion>> \notin used]_vars

(***************************************************************************)
(* Claims are kept per issuer, so they cannot stop an assertion from being *)
(* accepted at two issuers of one provider: that its audience must be the  *)
(* issuer alone does (verifyClientAssertion).                              *)
(***************************************************************************)
AcceptedAtOneIssuer == \A u, w \in used : u[2] = w[2] => u[1] = w[1]

(***************************************************************************)
(* A client is refused as a replay only because an assertion with its jti  *)
(* was claimed at the same issuer under its own name: neither another      *)
(* client nor another issuer can use up its jti (assertionKey).            *)
(***************************************************************************)
NoFalseReplay ==
    [][\A h \in Procs :
         LET k == <<call[h].issuer, call[h].assertion.sub, call[h].assertion.jti>> IN
         At(h, "claim") /\ pc'[h] = "replay" => claims[k] # None /\ now < claims[k]]_vars
==============================================================================
