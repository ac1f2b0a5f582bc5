---------------------------- MODULE TokenEndpoint ----------------------------
(***************************************************************************)
(* The life of a grant in grantor: Approve issues an authorization code,   *)
(* the token endpoint exchanges codes and refresh tokens and serves the    *)
(* client credentials and custom grants, and the revocation, introspection *)
(* and UserInfo endpoints act on what was issued.                          *)
(*                                                                         *)
(* Every request is a handler that runs concurrently with the others.  Its *)
(* steps are its Storage calls, because these are the only points where    *)
(* handlers meet; what lies between two calls reads only the handler's own *)
(* copies and the clock.  pc[h] names the call the handler makes next.     *)
(* A response that changes no state (a refusal, an error) ends the handler.*)
(*                                                                         *)
(* The store is memory.Store (module TokenMap).  Each call may also fail   *)
(* as the constant Faults allows:                                          *)
(*   "error"  the call returns an error and has had no effect,             *)
(*   "late"   the call returns an error although it took effect, as when   *)
(*            the request context is cancelled while a database commits,   *)
(*   "partial"  RevokeGrant of another store deletes tokens one by one, and*)
(*            may fail half-way,                                           *)
(*   "crash"  the handler stops between two calls.                         *)
(***************************************************************************)
EXTENDS TokenMap

CONSTANTS
    Procs,             \* request handlers that can run at the same time
    Endpoints,         \* the operations requests may ask for, of Ops
    Registrations,     \* what SetClient may register for a client
    CodeShapes,        \* [challenge, redirectSent] of the codes Approve issues
    Proofs,            \* [verifier, redirect] sent with a code
    AccessLifetimes,   \* lifetimes a registration or BeforeIssue may choose
    RefreshLifetimes,
    CodeLifetime,
    CollectInterval,   \* memory.Store collects at most once per interval
    MaxTime,           \* bound: the clock stops here
    Faults,            \* subset of {"error", "late", "partial", "crash"}
    NoScopeParam,      \* a token request without a scope parameter
    None               \* no request, no record

(* Requests by what they end in. *)
Exchanges == {"authorization_code", "refresh_token"}
Direct    == {"client_credentials", "custom"}
Reads     == {"introspect", "userinfo", "validate"}
Ops       == Exchanges \union Direct \union Reads \union {"approve", "revoke"}

GrantTypes ==
    {"authorization_code", "refresh_token", "client_credentials", "custom"}

Registration == [grants     : SUBSET GrantTypes,
                 scopes     : SUBSET Scopes,
                 audience   : SUBSET Audiences,
                 public     : BOOLEAN,
                 introspect : BOOLEAN]

Shapes == [challenge : BOOLEAN, redirectSent : BOOLEAN]

Proof == [verifier : {"absent", "match", "wrong"},
          redirect : {"absent", "match", "wrong"}]

NoProof == [verifier |-> "absent", redirect |-> "absent"]

ASSUME ConstantsAssumption ==
    /\ Endpoints \subseteq Ops
    /\ Registrations \subseteq Registration
    /\ CodeShapes \subseteq Shapes
    /\ Proofs \subseteq Proof
    /\ AccessLifetimes \subseteq Nat
    /\ RefreshLifetimes \subseteq Nat
    /\ CodeLifetime \in Nat
    /\ CollectInterval \in Nat
    /\ MaxTime \in Nat
    /\ Faults \subseteq {"error", "late", "partial", "crash"}

VARIABLES
    now,              \* the clock of the provider and of the store
    clients,          \* registration of each client of each issuer
    tokens,           \* memory.Store.tokens
    lastCollection,   \* memory.Store.lastCollection
    nextValue,        \* the next value randomToken returns for a token
    nextGrant,        \* the next value randomToken returns for a grant ID
    pc,               \* the Storage call each handler makes next
    req,              \* the request each handler serves
    src,              \* the record a handler loaded, or the grant it starts
    out,              \* the tokens a handler minted: mintedTokens
    disclosed,        \* history: values that were sent in a response
    issued,           \* history: the exchanges that were answered
    revoked,          \* history: grants RevokeGrant was applied to
    granted,          \* history: what each grant was approved for
    leaked,           \* history: minted values whose clean-up was lost
    lost              \* history: what failures made of a used token

store   == <<tokens, lastCollection>>
handler == <<pc, req, src, out>>
supply  == <<nextValue, nextGrant>>
world   == <<now, clients>>
history == <<disclosed, issued, revoked, granted, leaked, lost>>
vars    == <<store, handler, supply, world, history>>

Request == [op      : Ops,
            issuer  : Issuers,
            client  : ClientIDs,
            reg     : Registration,
            value   : Values \union {0},
            proof   : Proof,
            scopes  : {NoScopeParam} \union SUBSET Scopes,
            refresh : BOOLEAN,
            dead    : BOOLEAN]

GrantInfo == [op       : {"approve"} \union Direct,
              issuer   : Issuers,
              client   : ClientIDs,
              subject  : BOOLEAN,
              scopes   : SUBSET Scopes,
              audience : SUBSET Audiences]

(* An answered exchange: the code or refresh token and its expiry, what it *)
(* bought, of whom.                                                        *)
Exchange == [used : Values \union {0}, access : Values \union {0},
             grant : Grants, expiresAt : Nat]

(* What became of an exchange is lost: the token is used up and the client *)
(* gets no answer, or nobody learned that it was used twice; or a          *)
(* RevokeGrant that has not ended deleted it before the rest of its grant. *)
Losses == Values \X {"answer", "verdict", "part"}

Minted == [main    : Values \union {0},
           at      : Token \union {NotFound},
           refresh : Values \union {0},
           rt      : Token \union {NotFound}]

NoTokens == [main |-> 0, at |-> NotFound, refresh |-> 0, rt |-> NotFound]

MintedValues(h) == {out[h].main, out[h].refresh} \ {0}

PCs == {"idle", "load", "check", "reuse", "issue", "store", "store_refresh",
        "consume", "respond", "discard", "discard_refresh", "act", "answer"}

TypeOK ==
    /\ now \in 0 .. MaxTime
    /\ clients \in [Issuers \X ClientIDs -> Registrations]
    /\ tokens \in TokenMaps
    /\ lastCollection \in Int
    /\ nextValue \in 1 .. MaxValues + 1
    /\ nextGrant \in 1 .. MaxGrants + 1
    /\ pc \in [Procs -> PCs]
    /\ req \in [Procs -> Request \union {None}]
    /\ src \in [Procs -> Token \union {NotFound}]
    /\ out \in [Procs -> Minted]
    /\ disclosed \subseteq Values
    /\ issued \subseteq Exchange
    /\ revoked \subseteq Grants
    /\ granted \in [Grants -> GrantInfo \union {None}]
    /\ leaked \subseteq Values
    /\ lost \subseteq Losses

Init ==
    /\ now = 0
    /\ clients \in [Issuers \X ClientIDs -> Registrations]
    /\ tokens = NoTokensStored
    /\ lastCollection = 0 - CollectInterval
    /\ nextValue = 1
    /\ nextGrant = 1
    /\ pc = [h \in Procs |-> "idle"]
    /\ req = [h \in Procs |-> None]
    /\ src = [h \in Procs |-> NotFound]
    /\ out = [h \in Procs |-> NoTokens]
    /\ disclosed = {}
    /\ issued = {}
    /\ revoked = {}
    /\ granted = [g \in Grants |-> None]
    /\ leaked = {}
    /\ lost = {}

------------------------------------------------------------------------------
(* Control flow of a handler. *)

At(h, label) == pc[h] = label

Goto(h, label) ==
    /\ pc' = [pc EXCEPT ![h] = label]
    /\ UNCHANGED <<req, src, out>>

Finish(h) ==
    /\ pc' = [pc EXCEPT ![h] = "idle"]
    /\ req' = [req EXCEPT ![h] = None]
    /\ src' = [src EXCEPT ![h] = NotFound]
    /\ out' = [out EXCEPT ![h] = NoTokens]

(* Mutant of Fail: minted tokens stay in the store. *)
FailKeepingTokens(h) == Finish(h)

(* A handler that minted tokens it will not return revokes them first. *)
Fail(h) ==
    IF out[h].main # 0 /\ req[h].op # "approve"
    THEN Goto(h, "discard")
    ELSE Finish(h)

Lose(h, what) == lost' = lost \union {<<req[h].value, what>>}

(* A handler about to answer with the tokens an exchange bought. *)
Winning(h) == At(h, "respond") /\ req[h].op \in Exchanges

Begin(h, label, r, t, o) ==
    /\ At(h, "idle")
    /\ pc' = [pc EXCEPT ![h] = label]
    /\ req' = [req EXCEPT ![h] = r]
    /\ src' = [src EXCEPT ![h] = t]
    /\ out' = [out EXCEPT ![h] = o]

(* The store after the collection that begins CreateToken, ClaimOnce and   *)
(* CreateAuthorizationRequest.                                             *)
collectLocked ==
    IF CollectionDue(now, lastCollection, CollectInterval)
    THEN [tokens |-> Collected(tokens, now), last |-> now]
    ELSE [tokens |-> tokens, last |-> lastCollection]

CreateToken(v, t) ==
    /\ ~Has(collectLocked.tokens, v)
    /\ tokens' = WithToken(collectLocked.tokens, v, t)
    /\ lastCollection' = collectLocked.last

RevokeToken(v) ==
    /\ tokens' = WithoutToken(tokens, v)
    /\ UNCHANGED lastCollection

(* Mutant of RevokeGrant: the store lists the tokens before it deletes     *)
(* them, and misses those that an exchange under way has just stored.      *)
RevokeGrantListed(g) ==
    /\ tokens' = [v \in Values |-> IF /\ Has(tokens, v) /\ tokens[v].grant = g
                                      /\ v \in disclosed
                                   THEN NotFound ELSE tokens[v]]
    /\ revoked' = revoked \union {g}
    /\ UNCHANGED lastCollection

RevokeGrant(g) ==
    /\ tokens' = WithoutGrant(tokens, g)
    /\ revoked' = revoked \union {g}
    /\ UNCHANGED lastCollection

(* A call that fails without effect. *)
StorageError == "error" \in Faults /\ UNCHANGED <<store, revoked>>

------------------------------------------------------------------------------
(* The checks of token.go, pkce.go and issue.go on a loaded record t. *)

(* singleUseToken: the record is of the right kind and the caller's own. *)
Own(r, t) ==
    /\ t.kind = r.op
    /\ t.issuer = r.issuer
    /\ t.client = r.client

(* redirect_uri is checked when sent, and required for codes without PKCE. *)
redirectMatches(r, t) ==
    \/ r.proof.redirect = "match"
    \/ r.proof.redirect = "absent" /\ (t.challenge \/ ~t.redirectSent)

(* A verifier is required exactly when the code has a challenge. *)
verifyPKCE(r, t) ==
    r.proof.verifier = IF t.challenge THEN "match" ELSE "absent"

Verified(r, t) ==
    r.op = "authorization_code" => redirectMatches(r, t) /\ verifyPKCE(r, t)

(* Mutant of checkClientGrant: the registration may have shrunk. *)
checkClientGrantNever(r, t) == TRUE

(* The grant still lies within the registration the request was read with. *)
checkClientGrant(r, t) ==
    /\ t.scopes \subseteq r.reg.scopes
    /\ t.audience \subseteq r.reg.audience

(* The scope parameter may only narrow the grant. *)
narrowScopes(r, t) == r.scopes # NoScopeParam => r.scopes \subseteq t.scopes

accessScopes(r, t) == IF r.scopes = NoScopeParam THEN t.scopes ELSE r.scopes

(* Mutant of narrowed: the hook may add scopes and audiences. *)
narrowedNever(allowed, got) == TRUE

(* What BeforeIssue returns may only narrow what the plan allows. *)
narrowed(allowed, got) == got \subseteq allowed

(* Mutant of withRefresh: offline_access is not asked for. *)
withRefreshAlways(r, t) ==
    CASE r.op = "authorization_code" -> "refresh_token" \in r.reg.grants
      [] r.op = "refresh_token" -> TRUE
      [] OTHER -> r.refresh

withRefresh(r, t) ==
    CASE r.op = "authorization_code" ->
            /\ "refresh_token" \in r.reg.grants
            /\ "openid" \in t.scopes => "offline_access" \in t.scopes
      [] r.op = "refresh_token" -> TRUE
      [] OTHER -> r.refresh

(* A token that mintTokens derives from the record of its grant. *)
derive(t, kind, scopes, audience, expiresAt) ==
    [t EXCEPT !.kind = kind, !.scopes = scopes, !.audience = audience,
              !.challenge = FALSE, !.redirectSent = FALSE,
              !.expiresAt = expiresAt, !.consumed = FALSE]

------------------------------------------------------------------------------
(* Requests arrive.  Only values that were sent in a response can come     *)
(* back, from any client of any issuer; a client is read once, when it     *)
(* authenticates, and requests it may not make change nothing.             *)

(* Revoked, collected, used up or expired. *)
Spent(v) ==
    ~Has(tokens, v) \/ tokens[v].consumed \/ now >= tokens[v].expiresAt

(* The history field dead records whether the token that a request brings  *)
(* was spent before the request came.                                      *)
Arrival(op, i, c, v, pf, s, rf) ==
    [op |-> op, issuer |-> i, client |-> c, reg |-> clients[<<i, c>>],
     value |-> v, proof |-> pf, scopes |-> s, refresh |-> rf,
     dead |-> v # 0 /\ Spent(v)]

(* parseToken ignores the scope parameter of a code exchange. *)
BeginCodeExchange(h) ==
    /\ "authorization_code" \in Endpoints
    /\ \E i \in Issuers, c \in ClientIDs, v \in disclosed, pf \in Proofs :
        /\ "authorization_code" \in clients[<<i, c>>].grants
        /\ Begin(h, "load",
                 Arrival("authorization_code", i, c, v, pf, NoScopeParam, FALSE),
                 NotFound, NoTokens)
    /\ UNCHANGED <<store, supply, world, history>>

BeginRefresh(h) ==
    /\ "refresh_token" \in Endpoints
    /\ \E i \in Issuers, c \in ClientIDs, v \in disclosed,
          s \in {NoScopeParam} \union SUBSET Scopes :
        /\ "refresh_token" \in clients[<<i, c>>].grants
        /\ Begin(h, "load", Arrival("refresh_token", i, c, v, NoProof, s, FALSE),
                 NotFound, NoTokens)
    /\ UNCHANGED <<store, supply, world, history>>

(* The record that client credentials and custom grants derive tokens from.*)
directGrant(i, c, subject, s, a) ==
    [kind |-> "access_token", grant |-> nextGrant, issuer |-> i, client |-> c,
     subject |-> subject, scopes |-> s, audience |-> a, challenge |-> FALSE,
     redirectSent |-> FALSE, expiresAt |-> now, consumed |-> FALSE]

(* Mutant of newCode: the lifetime is subtracted. *)
newCodeBackdated(i, c, shape, s, a) ==
    [directGrant(i, c, TRUE, s, a) EXCEPT
        !.kind = "authorization_code", !.challenge = shape.challenge,
        !.redirectSent = shape.redirectSent, !.expiresAt = now - CodeLifetime]

(* The code that Approve issues. *)
newCode(i, c, shape, s, a) ==
    [kind |-> "authorization_code", grant |-> nextGrant, issuer |-> i,
     client |-> c, subject |-> TRUE, scopes |-> s, audience |-> a,
     challenge |-> shape.challenge, redirectSent |-> shape.redirectSent,
     expiresAt |-> now + CodeLifetime, consumed |-> FALSE]

codeOnly(t) == [NoTokens EXCEPT !.main = nextValue, !.at = t]

Remember(op, t) ==
    granted' = [granted EXCEPT ![t.grant] =
        [op |-> op, issuer |-> t.issuer, client |-> t.client,
         subject |-> t.subject, scopes |-> t.scopes, audience |-> t.audience]]

(* exchangeClientCredentials and issueGrant: what the registration allows. *)
DirectAllowed(reg, op, subject, s, a, rf) ==
    /\ op \in reg.grants
    /\ s \subseteq reg.scopes
    /\ ~subject => s \intersect {"openid", "offline_access"} = {}
    /\ op = "client_credentials" =>
          ~reg.public /\ ~subject /\ ~rf /\ a = reg.audience
    /\ op = "custom" =>
          a \subseteq reg.audience /\ (rf => "refresh_token" \in reg.grants)

StartDirect(h, op, i, c, subject, s, a, rf) ==
    LET t == directGrant(i, c, subject, s, a) IN
    /\ DirectAllowed(clients[<<i, c>>], op, subject, s, a, rf)
    /\ Begin(h, "issue", Arrival(op, i, c, 0, NoProof, NoScopeParam, rf),
             t, NoTokens)
    /\ Remember(op, t)

BeginDirect(h) ==
    /\ nextGrant <= MaxGrants
    /\ \E op \in Direct \intersect Endpoints, i \in Issuers, c \in ClientIDs,
          subject \in BOOLEAN, s \in SUBSET Scopes, a \in SUBSET Audiences,
          rf \in BOOLEAN : StartDirect(h, op, i, c, subject, s, a, rf)
    /\ nextGrant' = nextGrant + 1
    /\ UNCHANGED <<store, nextValue, world, disclosed, issued, revoked, leaked, lost>>

(* Approve from the point where the request is complete: the code is made. *)
StartApprove(h, i, c, shape, s, a) ==
    LET t == newCode(i, c, shape, s, a) IN
    /\ "authorization_code" \in clients[<<i, c>>].grants
    /\ s \subseteq clients[<<i, c>>].scopes
    /\ a \subseteq clients[<<i, c>>].audience
    /\ Begin(h, "store",
             Arrival("approve", i, c, 0, NoProof, NoScopeParam, FALSE),
             t, codeOnly(t))
    /\ Remember("approve", t)

BeginApprove(h) ==
    /\ "approve" \in Endpoints
    /\ nextGrant <= MaxGrants
    /\ nextValue <= MaxValues
    /\ \E i \in Issuers, c \in ClientIDs, shape \in CodeShapes,
          s \in SUBSET Scopes, a \in SUBSET Audiences :
             StartApprove(h, i, c, shape, s, a)
    /\ nextGrant' = nextGrant + 1
    /\ nextValue' = nextValue + 1
    /\ UNCHANGED <<store, world, disclosed, issued, revoked, leaked, lost>>

BeginRevocation(h) ==
    /\ "revoke" \in Endpoints
    /\ \E i \in Issuers, c \in ClientIDs, v \in disclosed :
        Begin(h, "load", Arrival("revoke", i, c, v, NoProof, NoScopeParam, FALSE),
              NotFound, NoTokens)
    /\ UNCHANGED <<store, supply, world, history>>

(* Introspection, UserInfo and ValidateAccessToken. *)
BeginRead(h) ==
    /\ \E op \in Reads \intersect Endpoints, i \in Issuers, c \in ClientIDs, v \in disclosed :
        /\ op = "introspect" => ~clients[<<i, c>>].public
        /\ Begin(h, "load",
                 Arrival(op, i, c, v, NoProof, NoScopeParam, FALSE),
                 NotFound, NoTokens)
    /\ UNCHANGED <<store, supply, world, history>>

------------------------------------------------------------------------------
(* Storage.Token, and what each endpoint does with its answer. *)

(* Whether the loaded record lets the request go on, and where. *)
Continues(r, t) ==
    CASE r.op \in Exchanges -> Own(r, t)
      [] r.op = "revoke" -> /\ t.issuer = r.issuer
                            /\ t.kind # "authorization_code"
                            /\ t.client = r.client
      [] OTHER -> TRUE

AfterLoad(r) ==
    CASE r.op \in Exchanges -> "check"
      [] r.op = "revoke" -> "act"
      [] OTHER -> "answer"

LoadFinds(h) ==
    LET r == req[h]
        t == tokens[r.value]
    IN
    /\ At(h, "load")
    /\ Has(tokens, r.value)
    /\ Continues(r, t)
    /\ pc' = [pc EXCEPT ![h] = AfterLoad(r)]
    /\ src' = [src EXCEPT ![h] = t]
    /\ UNCHANGED <<req, out, store, supply, world, history>>

LoadRefuses(h) ==
    /\ At(h, "load")
    /\ \/ ~Has(tokens, req[h].value)
       \/ Has(tokens, req[h].value) /\ ~Continues(req[h], tokens[req[h].value])
       \/ StorageError
    /\ Finish(h)
    /\ UNCHANGED <<store, supply, world, history>>

(* Introspection: active for the owner and for clients that may introspect.*)
introspectionActive(r, t) ==
    /\ \/ t.kind = "access_token"
       \/ t.kind = "refresh_token" /\ ~t.consumed
    /\ t.client = r.client \/ r.reg.introspect

(* UserInfo takes access tokens of end-users that granted openid. *)
userInfoActive(r, t) ==
    t.kind = "access_token" /\ "openid" \in t.scopes /\ t.subject

ValidateAccessToken(r, t) == t.kind = "access_token"

Active(h) ==
    LET r == req[h]
        t == src[h]
    IN
    /\ t.issuer = r.issuer
    /\ now < t.expiresAt
    /\ CASE r.op = "introspect" -> introspectionActive(r, t)
         [] r.op = "userinfo" -> userInfoActive(r, t)
         [] OTHER -> ValidateAccessToken(r, t)

Answer(h) ==
    /\ At(h, "answer")
    /\ Finish(h)
    /\ UNCHANGED <<store, supply, world, history>>

(* serveRevocation: a refresh token takes its grant with it. *)
Revoke(h) ==
    /\ At(h, "act")
    /\ \/ src[h].kind = "refresh_token" /\ RevokeGrant(src[h].grant)
       \/ src[h].kind # "refresh_token" /\ RevokeToken(req[h].value)
                                        /\ UNCHANGED revoked
       \/ StorageError
    /\ Finish(h)
    /\ UNCHANGED <<supply, world, disclosed, issued, granted, leaked, lost>>

(* Mutant of CheckReuse: reuse is detected before the proofs are checked. *)
CheckReuseUnproven(h) ==
    /\ At(h, "check")
    /\ src[h].consumed
    /\ Goto(h, "reuse")
    /\ UNCHANGED <<store, supply, world, history>>

(* The checks of a code or refresh token that was found, in source order:  *)
(* the proofs first, then reuse, then expiry and registration.             *)
CheckReuse(h) ==
    /\ At(h, "check")
    /\ Verified(req[h], src[h])
    /\ src[h].consumed
    /\ Goto(h, "reuse")
    /\ UNCHANGED <<store, supply, world, history>>

(* Mutant of Acceptable: expiry is not checked. *)
AcceptableExpired(r, t) ==
    Verified(r, t) /\ ~t.consumed /\ checkClientGrant(r, t) /\ narrowScopes(r, t)

Acceptable(r, t) ==
    /\ Verified(r, t)
    /\ ~t.consumed
    /\ now < t.expiresAt
    /\ checkClientGrant(r, t)
    /\ narrowScopes(r, t)

(* Mutant of CheckPasses: the token is consumed before the new ones exist. *)
CheckPassesConsuming(h) ==
    /\ At(h, "check")
    /\ Acceptable(req[h], src[h])
    /\ Has(tokens, req[h].value)
    /\ tokens' = WithConsumed(tokens, req[h].value)
    /\ Goto(h, "issue")
    /\ UNCHANGED <<lastCollection, supply, world, history>>

CheckPasses(h) ==
    /\ At(h, "check")
    /\ Acceptable(req[h], src[h])
    /\ Goto(h, "issue")
    /\ UNCHANGED <<store, supply, world, history>>

CheckRefuses(h) ==
    /\ At(h, "check")
    /\ ~(Verified(req[h], src[h]) /\ src[h].consumed)
    /\ ~Acceptable(req[h], src[h])
    /\ Finish(h)
    /\ UNCHANGED <<store, supply, world, history>>

------------------------------------------------------------------------------
(* Issuance: planIssuance with the BeforeIssue hook, then mintTokens. *)

(* mintTokens: an access token, and a refresh token that keeps the scopes  *)
(* and audience of the grant.                                              *)
minted(t, s, a, rf, al, rl) ==
    [main    |-> nextValue,
     at      |-> derive(t, "access_token", s, a, now + al),
     refresh |-> IF rf THEN nextValue + 1 ELSE 0,
     rt      |-> IF rf
                 THEN derive(t, "refresh_token", t.scopes, t.audience, now + rl)
                 ELSE NotFound]

(* What runBeforeIssue accepts from the hook. *)
planned(r, t, s, a, rf) ==
    /\ narrowed(accessScopes(r, t), s)
    /\ narrowed(t.audience, a)
    /\ rf => withRefresh(r, t)

Mint(h) ==
    /\ At(h, "issue")
    /\ \E s \in SUBSET Scopes, a \in SUBSET Audiences, rf \in BOOLEAN,
          al \in AccessLifetimes, rl \in RefreshLifetimes :
        /\ planned(req[h], src[h], s, a, rf)
        /\ nextValue + (IF rf THEN 1 ELSE 0) <= MaxValues
        /\ out' = [out EXCEPT ![h] = minted(src[h], s, a, rf, al, rl)]
        /\ nextValue' = nextValue + (IF rf THEN 2 ELSE 1)
    /\ pc' = [pc EXCEPT ![h] = "store"]
    /\ UNCHANGED <<req, src, store, nextGrant, world, history>>

(* A hook, encoder, claims source or key that fails. *)
MintFails(h) ==
    /\ At(h, "issue")
    /\ Finish(h)
    /\ UNCHANGED <<store, supply, world, history>>

(* Mutant of AfterStore: the answer is sent without consuming the source. *)
AfterStoreAnswer(h) == "respond"

(* storeTokens: the access token (or the code of Approve), then the        *)
(* refresh token.  Grants that consume nothing are answered directly.      *)
AfterStore(h) == IF req[h].op \in Exchanges THEN "consume" ELSE "respond"

Store(h) ==
    /\ At(h, "store")
    /\ CreateToken(out[h].main, out[h].at)
    /\ Goto(h, IF out[h].refresh # 0 THEN "store_refresh" ELSE AfterStore(h))
    /\ UNCHANGED <<supply, world, history>>

StoreRefresh(h) ==
    /\ At(h, "store_refresh")
    /\ CreateToken(out[h].refresh, out[h].rt)
    /\ Goto(h, AfterStore(h))
    /\ UNCHANGED <<supply, world, history>>

StoreFails(h) ==
    /\ \/ At(h, "store") /\ "late" \in Faults
          /\ CreateToken(out[h].main, out[h].at)
       \/ At(h, "store_refresh") /\ "late" \in Faults
          /\ CreateToken(out[h].refresh, out[h].rt)
       \/ At(h, "store") /\ StorageError
       \/ At(h, "store_refresh") /\ StorageError
    /\ Fail(h)
    /\ leaked' = IF req[h].op = "approve" THEN leaked \union MintedValues(h)
                                          ELSE leaked
    /\ UNCHANGED <<supply, world, disclosed, issued, revoked, granted, lost>>

------------------------------------------------------------------------------
(* consume and revokeReusedGrant. *)

(* Mutants of Consume: a used token is no error; the token is written back *)
(* from the copy that was loaded.                                          *)
ConsumeAgain(h) ==
    LET v == req[h].value IN
    /\ At(h, "consume")
    /\ Has(tokens, v)
    /\ tokens' = WithConsumed(tokens, v)
    /\ Goto(h, "respond")
    /\ UNCHANGED <<lastCollection, supply, world, history>>

ConsumeUpsert(h) ==
    LET v == req[h].value IN
    /\ At(h, "consume")
    /\ Has(tokens, v) => ~tokens[v].consumed
    /\ tokens' = WithToken(tokens, v, [src[h] EXCEPT !.consumed = TRUE])
    /\ Goto(h, "respond")
    /\ UNCHANGED <<lastCollection, supply, world, history>>

Consume(h) ==
    LET v == req[h].value IN
    /\ At(h, "consume")
    /\ Has(tokens, v)
    /\ ~tokens[v].consumed
    /\ tokens' = WithConsumed(tokens, v)
    /\ Goto(h, "respond")
    /\ UNCHANGED <<lastCollection, supply, world, history>>

ConsumeReused(h) ==
    LET v == req[h].value IN
    /\ At(h, "consume")
    /\ Has(tokens, v)
    /\ tokens[v].consumed
    /\ pc' = [pc EXCEPT ![h] = "reuse"]
    /\ src' = [src EXCEPT ![h] = tokens[v]]
    /\ UNCHANGED <<req, out, store, supply, world, history>>

(* Mutant of ConsumeFails: a handler waits for a token that is gone. *)
ConsumeFailsWaiting(h) ==
    /\ At(h, "consume")
    /\ Has(tokens, req[h].value)
    /\ StorageError
    /\ Fail(h)
    /\ UNCHANGED <<supply, world, history>>

ConsumeFails(h) ==
    LET v == req[h].value IN
    /\ At(h, "consume")
    /\ \/ ~Has(tokens, v) /\ UNCHANGED <<store, lost>>
       \/ StorageError /\ Lose(h, "verdict")
       \/ /\ "late" \in Faults
          /\ Has(tokens, v)
          /\ tokens' = WithConsumed(tokens, v)
          /\ Lose(h, IF tokens[v].consumed THEN "verdict" ELSE "answer")
          /\ UNCHANGED lastCollection
    /\ Fail(h)
    /\ UNCHANGED <<supply, world, disclosed, issued, revoked, granted, leaked>>

(* Mutant of RevokeReused: only the token that was replayed is revoked. *)
RevokeReusedToken(h) ==
    /\ At(h, "reuse")
    /\ RevokeToken(req[h].value)
    /\ Fail(h)
    /\ UNCHANGED <<supply, world, history>>

RevokeReused(h) ==
    /\ At(h, "reuse")
    /\ \/ RevokeGrant(src[h].grant) /\ UNCHANGED lost
       \/ StorageError /\ Lose(h, "verdict")
    /\ Fail(h)
    /\ UNCHANGED <<supply, world, disclosed, issued, granted, leaked>>

(* RevokeGrant need not be atomic: before the store has made sure that no  *)
(* token of the grant is left, it may delete some of them.                 *)
RevokePart(h) ==
    /\ "partial" \in Faults
    /\ At(h, "reuse") \/ (At(h, "act") /\ src[h].kind = "refresh_token")
    /\ \E v \in Values : /\ Has(tokens, v)
                          /\ tokens[v].grant = src[h].grant
                          /\ RevokeToken(v)
                          /\ lost' = IF tokens[v].consumed
                                     THEN lost \union {<<v, "part">>} ELSE lost
    /\ UNCHANGED <<handler, supply, world, disclosed, issued, revoked, granted, leaked>>

(* discardTokens: one RevokeToken per record; failures are only logged. *)
Discard(h) ==
    /\ At(h, "discard")
    /\ \/ RevokeToken(out[h].main) /\ UNCHANGED <<revoked, leaked>>
       \/ StorageError /\ leaked' = leaked \union {out[h].main}
    /\ IF out[h].refresh # 0 THEN Goto(h, "discard_refresh") ELSE Finish(h)
    /\ UNCHANGED <<supply, world, disclosed, issued, granted, lost>>

DiscardRefresh(h) ==
    /\ At(h, "discard_refresh")
    /\ \/ RevokeToken(out[h].refresh) /\ UNCHANGED <<revoked, leaked>>
       \/ StorageError /\ leaked' = leaked \union {out[h].refresh}
    /\ Finish(h)
    /\ UNCHANGED <<supply, world, disclosed, issued, granted, lost>>

(* The response carries the values: the code, or the access and refresh    *)
(* tokens.                                                                 *)
Respond(h) ==
    /\ At(h, "respond")
    /\ disclosed' = disclosed \union MintedValues(h)
    /\ issued' = IF req[h].op \in Exchanges
                 THEN issued \union {[used |-> req[h].value, access |-> out[h].main,
                                  grant |-> src[h].grant,
                                  expiresAt |-> src[h].expiresAt]}
                 ELSE issued
    /\ Finish(h)
    /\ UNCHANGED <<store, supply, world, revoked, granted, leaked, lost>>

Crash(h) ==
    /\ "crash" \in Faults
    /\ ~At(h, "idle")
    /\ leaked' = leaked \union MintedValues(h)
    /\ \/ ~At(h, "consume") /\ ~At(h, "reuse") /\ ~Winning(h) /\ UNCHANGED lost
       \/ Winning(h) /\ Lose(h, "answer")
       \/ (At(h, "consume") \/ At(h, "reuse")) /\ Lose(h, "verdict")
    /\ Finish(h)
    /\ UNCHANGED <<store, supply, world, disclosed, issued, revoked, granted>>

------------------------------------------------------------------------------
(* The environment. *)

SetClient ==
    /\ \E i \in Issuers, c \in ClientIDs, r \in Registrations :
        clients' = [clients EXCEPT ![<<i, c>>] = r]
    /\ UNCHANGED <<store, handler, supply, now, history>>

Tick ==
    /\ now < MaxTime
    /\ now' = now + 1
    /\ UNCHANGED <<store, handler, supply, clients, history>>

(* CreateAuthorizationRequest and ClaimOnce of other requests collect too. *)
Collect ==
    /\ tokens' = collectLocked.tokens
    /\ lastCollection' = collectLocked.last
    /\ UNCHANGED <<handler, supply, world, history>>

Arrive(h) ==
    \/ BeginCodeExchange(h) \/ BeginRefresh(h) \/ BeginDirect(h)
    \/ BeginApprove(h) \/ BeginRevocation(h) \/ BeginRead(h)

Step(h) ==
    \/ LoadFinds(h) \/ LoadRefuses(h) \/ Answer(h) \/ Revoke(h)
    \/ CheckReuse(h) \/ CheckPasses(h) \/ CheckRefuses(h)
    \/ Mint(h) \/ MintFails(h)
    \/ Store(h) \/ StoreRefresh(h) \/ StoreFails(h)
    \/ Consume(h) \/ ConsumeReused(h) \/ ConsumeFails(h) \/ RevokeReused(h)
    \/ Discard(h) \/ DiscardRefresh(h) \/ Respond(h)

Next ==
    \/ \E h \in Procs : Arrive(h) \/ Step(h) \/ RevokePart(h) \/ Crash(h)
    \/ SetClient \/ Tick \/ Collect

Spec == Init /\ [][Next]_vars

(* net/http runs every handler until it returns. *)
FairSpec == Spec /\ \A h \in Procs : WF_vars(Step(h))

------------------------------------------------------------------------------
(* Properties. *)

(***************************************************************************)
(* A token that a client holds never outlives the revocation of its grant: *)
(* whatever was sent in a response and is still stored belongs to a grant  *)
(* that neither reuse detection (revokeReusedGrant) nor the revocation     *)
(* endpoint has revoked, although exchanges that were under way may store  *)
(* tokens of the grant after RevokeGrant ran (storeAndConsume).            *)
(***************************************************************************)
RevokedGrantStaysDead ==
    \A v \in disclosed :
        Has(tokens, v) => tokens[v].grant \notin revoked

(***************************************************************************)
(* Whatever the interleaving, one authorization code or refresh token buys *)
(* one response: ConsumeToken picks the only winner.                       *)
(***************************************************************************)
AtMostOneExchange ==
    /\ \A x, y \in issued : x.used = y.used => x = y
    /\ \A h \in Procs : Winning(h) =>
        /\ \A x \in issued : x.used # req[h].value
        /\ \A k \in Procs \ {h} : Winning(k) => req[k].value # req[h].value

(***************************************************************************)
(* A code or refresh token is marked as used only when its exchange is     *)
(* answered: a hook, encoder, key or Storage call that fails leaves the    *)
(* token usable for the client's retry (exchangeAuthorizationCode).  The   *)
(* exceptions are a handler that stops with the answer in its hands and a  *)
(* ConsumeToken that takes effect and reports an error.                    *)
(***************************************************************************)
ConsumedMeansExchanged ==
    \A v \in Values : Has(tokens, v) /\ tokens[v].consumed =>
        \/ \E x \in issued : x.used = v
        \/ \E h \in Procs : Winning(h) /\ req[h].value = v
        \/ <<v, "answer">> \in lost

(***************************************************************************)
(* An exchange whose answer was lost fails closed: no request gets tokens  *)
(* for its code or refresh token any more, and as long as the store has    *)
(* the token a retry finds it used, which revokes the grant (consume,      *)
(* checkUnused).                                                           *)
(***************************************************************************)
LostExchangesFailClosed ==
    \A v \in Values : <<v, "answer">> \in lost =>
        /\ \A x \in issued : x.used # v
        /\ \A h \in Procs : Winning(h) => req[h].value # v
        /\ Has(tokens, v) => tokens[v].consumed

(***************************************************************************)
(* The store keeps the used code or refresh token as long as a token that  *)
(* the client got for its grant is alive, so that a replay is recognised   *)
(* and revokes the grant (checkUnused).                                    *)
(***************************************************************************)
ReplayStaysDetectable ==
    \A x \in issued :
        (\E v \in disclosed : Has(tokens, v) /\ tokens[v].grant = x.grant)
            => Has(tokens, x.used)

(***************************************************************************)
(* What does hold of that: until the used code or refresh token expires,   *)
(* the store keeps it, marked as used and in its grant, as long as a token *)
(* that a client got for the grant is alive, so that a replay revokes the  *)
(* grant (checkUnused, collectLocked).  The only other way to lose it is a *)
(* RevokeGrant that is not atomic and stopped after deleting it.           *)
(***************************************************************************)
ReplayDetectableUntilExpiry ==
    \A x \in issued :
        (\E v \in disclosed : Has(tokens, v) /\ tokens[v].grant = x.grant) =>
            \/ /\ Has(tokens, x.used)
               /\ tokens[x.used].consumed /\ tokens[x.used].grant = x.grant
            \/ now > x.expiresAt
            \/ <<x.used, "part">> \in lost

(***************************************************************************)
(* discardTokens leaves nothing behind: a stored token was sent in a       *)
(* response, or its handler still runs, or its clean-up failed; and a      *)
(* token whose clean-up failed was never disclosed.                        *)
(***************************************************************************)
NoOrphans ==
    /\ \A v \in Values : Has(tokens, v) =>
        v \in disclosed \union leaked \union UNION {MintedValues(h) : h \in Procs}
    /\ leaked \intersect disclosed = {}

(***************************************************************************)
(* Through every rotation, scope parameter and BeforeIssue hook, a token   *)
(* stays within what its grant was approved for: same client, issuer and   *)
(* subject, scopes and audiences never widened, and codes and refresh      *)
(* tokens keep them whole (mintTokens, narrowScopes, narrowed).            *)
(***************************************************************************)
WithinGrant ==
    \A v \in Values : Has(tokens, v) =>
        LET t == tokens[v]
            g == granted[t.grant]
        IN
        /\ <<t.issuer, t.client, t.subject>> = <<g.issuer, g.client, g.subject>>
        /\ t.scopes \subseteq g.scopes
        /\ t.audience \subseteq g.audience
        /\ t.kind # "access_token" => t.scopes = g.scopes /\ t.audience = g.audience

(***************************************************************************)
(* A refresh token exists for an OpenID Connect grant that an end-user     *)
(* approved only if the end-user approved offline_access                   *)
(* (exchangeAuthorizationCode, withRefresh).                               *)
(***************************************************************************)
RefreshNeedsOfflineAccess ==
    \A v \in Values : Has(tokens, v) /\ tokens[v].kind = "refresh_token" =>
        LET g == granted[tokens[v].grant] IN
        g.op = "approve" /\ "openid" \in g.scopes => "offline_access" \in g.scopes

(***************************************************************************)
(* Tokens are issued within the registration that the client had when it   *)
(* authenticated, even if its grant is older than a change of the          *)
(* registration: scopes, audiences and the right to refresh tokens         *)
(* (checkClientGrant, withRefresh).                                        *)
(***************************************************************************)
IssuedWithinRegistration ==
    \A h \in Procs : out[h].main # 0 =>
        /\ out[h].at.scopes \subseteq req[h].reg.scopes
        /\ out[h].at.audience \subseteq req[h].reg.audience
        /\ out[h].refresh # 0 => "refresh_token" \in req[h].reg.grants

(***************************************************************************)
(* A token that was revoked, used or expired before a request arrived is   *)
(* neither exchanged by it nor reported active to it (checkUnused,         *)
(* consume, serveIntrospection, serveUserInfo, ValidateAccessToken).       *)
(***************************************************************************)
SpentTokensAreUseless ==
    \A h \in Procs : ~At(h, "idle") /\ req[h].dead =>
        ~Winning(h) /\ (At(h, "answer") => ~Active(h))

(***************************************************************************)
(* Once a token that a client holds is gone from the store it never comes  *)
(* back: no exchange under way stores it again.                            *)
(***************************************************************************)
NoResurrection ==
    [][\A v \in disclosed : ~Has(tokens, v) => tokens'[v] = NotFound]_vars

(***************************************************************************)
(* Only a request of the client the grant belongs to, with the redirect    *)
(* URI and the PKCE verifier of the code, uses up a token or triggers the  *)
(* reuse revocation: someone who merely holds a stolen code can do neither *)
(* (exchangeAuthorizationCode; OAuth 2.1 section 7.5.3).                   *)
(***************************************************************************)
Entitled(h, g) ==
    /\ req[h].issuer = granted[g].issuer
    /\ req[h].client = granted[g].client

OnlyTheOwnerSpends ==
    [][/\ \A v \in Values :
            (/\ Has(tokens, v) /\ ~tokens[v].consumed
             /\ tokens'[v] # NotFound /\ tokens'[v].consumed)
            => \E h \in Procs : /\ At(h, "consume")
                                /\ req[h].value = v
                                /\ Entitled(h, tokens[v].grant)
                                /\ Verified(req[h], tokens[v])
       /\ \A g \in revoked' \ revoked :
            \E h \in Procs : /\ src[h] # NotFound /\ src[h].grant = g
                             /\ Entitled(h, g)
                             /\ At(h, "reuse") => Verified(req[h], src[h])]_vars

(***************************************************************************)
(* Every request is answered: no handler waits for another one.            *)
(***************************************************************************)
EveryRequestEnds ==
    \A h \in Procs : ~At(h, "idle") ~> At(h, "idle")

(***************************************************************************)
(* Two exchanges of the same code or refresh token that both got past the  *)
(* checks are always noticed: the loser revokes the grant, so the token    *)
(* that was used twice disappears (consume; TestConcurrentRefresh), unless *)
(* ConsumeToken or RevokeGrant failed.                                     *)
(***************************************************************************)
UsedTwice(v) ==
    \E h, k \in Procs :
        /\ h # k
        /\ At(h, "consume") /\ req[h].value = v
        /\ At(k, "consume") /\ req[k].value = v

DoubleUseEndsGrant ==
    \A v \in Values :
        UsedTwice(v) ~> ~Has(tokens, v) \/ <<v, "verdict">> \in lost
==============================================================================
