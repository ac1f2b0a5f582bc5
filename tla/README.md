# grantor in TLA+

A verification project for `grantor`, a Go library for building OAuth 2.x and
OpenID Connect authorization servers. The modules here model the parts of the
library that keep state and that several HTTP requests work on at the same time, and
the rules that decide what a request may do while the configuration behind it
changes. TLC checks them on small instances, and TLAPS proves all of the safety
properties but one, and both refinements, for every instance. Paths such as `token.go:356` are relative to `src/`.

1. [The system](#the-system)
2. [Modules and how they correspond to the code](#modules-and-how-they-correspond-to-the-code)
3. [What TLC checks](#what-tlc-checks)
4. [What is proved](#what-is-proved)
5. [Where code and documentation differ](#where-code-and-documentation-differ)
6. [What is not modelled](#what-is-not-modelled)
7. [Plan](#plan)

## The system

grantor is a library without global state: a `Provider` is configured once and
serves every request with `net/http`, one goroutine per request. Everything that
lives longer than a request is behind the interface `Storage` (`storage.go`), of
which `memory.Store` is the implementation in the repository; registrations come
from a `ClientStore`. The library holds no lock across two calls of `Storage`, so
requests interleave exactly at these calls.

### Inventory

| Component | State | Operations | Must be right |
|---|---|---|---|
| Token endpoint (`token.go`, `issue.go`, `pkce.go`) | the minted tokens of a request, not yet returned | exchange of a code, refresh, client credentials, custom grants; reuse detection; discarding | a code or refresh token buys one response; a reuse ends the grant; a failure costs the client nothing; nothing is widened |
| Revocation (`revoke.go`) | – | revoke a token, or the grant of a refresh token | revocation is final, whatever is under way |
| Introspection, UserInfo, validation (`introspect.go`, `userinfo.go`, `validate.go`) | – | read one token | a spent token is not active |
| Authorization and interaction (`authorize.go`, `approve.go`) | an unsaved request in the application's hands | parse, save, load by ID and cookie, approve, deny | one answer per request, in the browser that began it, for what the registration allows at that time |
| Pushed requests (`par.go`) | – | push, redeem | redeemed once, judged again when redeemed |
| Client authentication (`clientauth.go`) | – | secrets, public clients, `private_key_jwt` | one credential of the registered kind; a `jti` is not accepted twice |
| Storage (`storage.go`, `memory/memory.go`) | `tokens`, `requests`, `claims`, `lastCollection` | create, read, consume, revoke, delete, claim; periodic collection | each method atomic; `ConsumeToken`, `DeleteAuthorizationRequest` and `ClaimOnce` have one winner |
| Storage conformance suite (`storagetest/`) | – | tests of `Storage` | – |
| Clients, PKCE (`client.go`, `pkce.go`) | registrations | lookup, validation, matching of redirect URIs | a registration is judged when it is used; a public client needs PKCE |
| Provider, endpoints (`provider.go`, `endpoints.go`) | the configuration | validation, resolving issuers, routing | a request reaches the endpoint that discovery publishes at its path |
| ID tokens, claims (`idtoken.go`, `claims.go`, `records.go`) | the claims request of a grant | reduce, select, release | nothing is released that was not asked for and approved; requested `acr` and `sub` are honoured |
| Keys, JWKS, discovery (`keys.go`, `discovery.go`) | the key set of an issuer | choose, publish, rotate | a live token verifies with the published keys |
| Access token formats, parameters, errors, form_post | – | format, parse | – |

**Interaction.** The authorization endpoint turns a request into a code with
`Storage.CreateToken`; the token endpoint turns the code into tokens of the same
grant (`GrantID`); the other endpoints find those tokens by value. Client
authentication precedes the token, revocation, introspection and push endpoints.
The application is called back twice: it holds the `AuthorizationRequest` between
parsing and completing it, which may take several HTTP requests, and its
`BeforeIssue` hook narrows a token that is about to be issued.

**What is hard.** The exchange reads its source token, runs hooks and encoders,
stores up to two new tokens and only then consumes the source. Between any two of
these calls another request can use, revoke or expire the source or revoke the whole
grant; any call can fail before or after its effect; the handler can stop. The
authorization side has the same shape: a request is loaded, judged against a
registration that may have changed, deleted, and only then answered. Client
assertions are judged by one reading of the clock and remembered by another. The
store collects what has expired whenever one of its creating methods is called. Keys
are resolved at the start of a request and used at its end. And every rule about a
client is applied to a registration that may differ from the one that the step before
used: a request is reduced to a registration when it is parsed, saved, redeemed and
approved, and its grant is compared again when it is exchanged.
`PROJECT.json` lists these hazards at their lines with the properties that cover them.

## Modules and how they correspond to the code

    TokenMap ── TokenEndpoint ── TokenEndpointInvariant ── TokenEndpointLife ── MCTokenEndpoint
       │                                    │                      └ INSTANCE GrantLife
    TokenMapTheorems ──────────── TokenEndpointProofs ── TokenEndpointGuarantees
                                  (which also extends TokenEndpointLife)

    Authorization ── AuthorizationLife ── MCAuthorization
                            ├── AuthorizationProofs
                            └ INSTANCE RequestLife
    ClientAssertion ── MCClientAssertion
           └── ClientAssertionProofs
    KeyRotation ── MCKeyRotation
           └── KeyRotationProofs
    Endpoints, Clients, Claims ── Provider ── MCProvider
                                      └── ProviderProofs

    GrantLife, RequestLife ── LifeTheorems

`GrantLife` and `RequestLife` are abstract specifications; `Endpoints`, `Clients` and
`Claims` are rules without state; the others are state machines.

In `TokenEndpoint`, `Authorization` and `ClientAssertion` a handler `h` of `Procs` is an HTTP request that is
being served, `pc[h]` is the call of `Storage` or of the client store that it makes
next, and one action is that call with everything up to the next one. Nothing
between two calls touches shared state, so this grain loses no interleaving. An
"idle" handler is free for the next request. Records are reduced to the fields that
checks read; a token value or request ID is a number that `randomToken` has not
returned before.

The store and the provider share one monotone clock. One tick is one second, the
resolution at which `AuthTime` is compared. `Collect` is the collection that some
other request causes; `SetClient` changes a registration at any time.

`Faults` says how calls may fail:

* `"error"`: the call reports an error and did nothing;
* `"late"`: the call reports an error although it took effect, as when the request's
  context is cancelled while a database commits;
* `"partial"`: `RevokeGrant` deletes tokens of the grant one by one while other handlers
  go on, before it completes, fails or the handler stops. The contract
  (`storage.go:77`) does not demand that it is atomic. What it does demand is that no
  token of the grant is left when it completes;
* `"crash"`: the handler stops between two calls. The store survives, as a database
  would. (A restart of `memory.Store` loses everything and leaves nothing to check.)

### TokenMap and TokenEndpoint

`TokenMap` has the records and the methods of `memory.Store` on tokens as operators
on maps from values to records: `WithToken`, `WithConsumed`, `WithoutToken`,
`WithoutGrant`, `Collected`. `TokenEndpoint` has the life of a grant:

| pc | Actions | Code |
|---|---|---|
| `idle` | `BeginCodeExchange`, `BeginRefresh`, `BeginDirect`, `BeginApprove`, `BeginRevocation`, `BeginRead` | request parsing after authentication; `Approve` from `newCode` on |
| `load` | `LoadFinds`, `LoadRefuses` | `Storage.Token` in `singleUseToken`, `serveRevocation`, `serveIntrospection`, `accessToken` |
| `check` | `CheckReuse`, `CheckPasses`, `CheckRefuses` | redirect URI, PKCE, `checkUnused`, `checkClientGrant`, `narrowScopes`, in that order |
| `issue` | `Mint`, `MintFails` | `planIssuance`, `runBeforeIssue`, `mintTokens` |
| `store`, `store_refresh` | `Store`, `StoreRefresh`, `StoreFails` | `storeTokens` |
| `consume` | `Consume`, `ConsumeReused`, `ConsumeFails` | `consume` |
| `reuse` | `RevokeReused`, `RevokePart` | `revokeReusedGrant`; a `RevokeGrant` that deletes one token after the other |
| `discard`, `discard_refresh` | `Discard`, `DiscardRefresh` | `discardTokens` |
| `respond` | `Respond` | the response |
| `act`, `answer` | `Revoke`, `Answer` | `serveRevocation`; the answers of the reading endpoints |

Points where the model takes a decision:

* Requests bring only values that were sent in a response (`disclosed`), of whatever
  kind, from any client of any issuer. A guessed value is an unknown token.
* Requests that are refused before their first call change nothing and are left out.
* `CreateToken` reports a conflict for a value that exists. Values are fresh, so the
  absence of a conflict is a guard; the hazard of a custom encoder that repeats
  values is listed without a property.
* The client is read once, when it authenticates; `req[h].reg` is that copy.
* `disclosed`, `issued`, `revoked`, `granted`, `leaked`, `lost` and `req[h].dead` are
  history: no guard that models code reads them, except that requests bring disclosed
  values. `lost` records exchanges whose source was consumed but whose response was
  not sent: `ConsumeToken` took effect and reported an error, or the handler stopped.
  It also records the used tokens that a `RevokeGrant` which is not atomic deleted
  before it stopped.

**GrantLife** is what clients may rely on, with neither handlers nor a store. A value
is secret, valid in one grant, or gone. `Start` and `Exchange` disclose secret values,
`Drop` and `End` make values go. An exchange uses its source once and yields values
of the source's grant; nothing becomes valid in a grant that has ended. The refinement
mapping (`TokenEndpointLife`) takes a value that was not sent in a response as secret,
one that was sent as valid in the grant of its stored record, and as gone if the store
does not have it; the sources of answered exchanges are `used` and the grants that a
completed `RevokeGrant` revoked are `ended`. Storing tokens before consuming the
source, discarding them, consuming, failing and crashing are stutters.

### Authorization

| pc | Actions | Code |
|---|---|---|
| `idle` | `BeginPush`, `BeginAuthorize`, `BeginRedeem`, `BeginComplete` | the endpoints; the application's callback for a saved request |
| `held` | `Adjust`, `Push`, `Choose`, `GiveUp` | the application: `PushAuthorizationRequest`, `SaveAuthorizationRequest`, `Approve`, `Deny` |
| `load` | `LoadFinds`, `LoadRefuses` | `redeemPushedRequest`, `loadPending` |
| `check` | `Accept`, `AcceptApproval`, `AcceptDenial`, `CheckRefuses` | the client lookup, `checkRequest`, `checkDelivery`, `validateApproval` |
| `create` | `CreateSucceeds`, `CreateFails` | `CreateAuthorizationRequest` and the binding cookie |
| `delete` | `Delete`, `DeleteDenied`, `DeleteRefuses` | `completeRequest`, the deletion in `redeemPushedRequest` |
| `recheck` | `Recheck`, `RecheckRefuses` | the second check of a redeemed request |
| `code` | `IssueCode`, `CodeFails` | `CreateToken` and the response of `Approve` |

* While it holds an unsaved request the application may change the client, redirect
  URI, scopes, audience, challenge, nonce, prompt and `Pushed` to any combination of
  the instance. It leaves the timestamps alone and completes an unsaved request once;
  the library cannot enforce either, because an unsaved request is only a value.
  Of a saved request it may only hand back an unchanged copy (`sameProtocolFields`).
* `checkRequest` looks up the client that the request names, so a changed `ClientID`
  is judged by the other client's registration, and that is what `CodeIsPermitted`
  promises.
* The registration that is read when a request is parsed is read with the arrival:
  every later step looks it up again, so the time between has no effect of its own.
* `lineage`, `answered`, `lost` and `seen` are history. `answered[v]` counts the
  responses that carry an outcome for request `v` to the client; a redeemed request
  counts for the pushed one as well.
* Response modes, `RedirectURIInRequest`, the claims parameter and login hints are left
  out: no property here tells them apart. They are in `Provider`.

**RequestLife** says that a request is unknown until its ID is handed out, open until
it is redeemed, completed or expires, and never open again; and that it is answered at
most once, together with the pushed request that it was redeemed from
(`AuthorizationLife` has the mapping). Whenever the store is written to it may also
drop what has expired, so any number of open requests may leave in the step that
opens another one.

### ClientAssertion

`lookup`, `verify` and `claim` are `lookupAuthenticatingClient`, the checks of
`verifyClientAssertion` and `Storage.ClaimOnce`; the clock may advance between any
two. A signature is the key that made it. `exp` and the audience belong to the
assertion; the assertions of an instance exist from the start, so a client may
present one before, at and after every boundary. The parameter `client_id` is
compared after the claim, as in the code, so a request that fails that comparison
has used up its `jti`.

### KeyRotation

A request resolves the keys of its issuer when it arrives (`issuerFor`) and uses them
when it signs (`issueIDToken`, `encodeAccessToken`) or sends the JWKS (`serveJWKS`). A
verifier uses a JWKS for as long as `Cache-Control` says, `MaxAge`. The application
rotates a key in three steps, `Publish`, `Promote` and `Retire`. `Issuer.Keys`
(`provider.go:38`) describes the last two: a new key goes first, and the old one is
removed when its tokens have expired. `Promote` may follow `Publish` at once, which is
that description, or later.

* The model demands one wait: `Grace >= lifetime + Flight` between the end of signing
  and the removal, because a request that began before may still sign with the old key.
* Nothing is demanded between publishing and signing. `CachedKeysVerify` states what
  follows: a fresh cached JWKS may lack a key for `Flight + MaxAge` after it was
  published, since a JWKS of a request that began before may be delivered `Flight` later
  and cached for `MaxAge`; after that time it never lacks one. An application that lets
  a new key sign at once has tokens in this window that such a verifier does not know.

Both times are tight: with a `Grace` one less, or `Flight + MaxAge - 1` in the property,
TLC finds `LiveTokensVerify` and `CachedKeysVerify` violated. In the window verifiers
that rely on a cached JWKS must fetch it again, which most do when they meet an unknown
`kid`. An `id_token_hint` is accepted, expired or not, only while its key is configured.
`Flight` stands for the timeout of the HTTP server, which the library leaves to the
application. A provider with `Config.Issuer` resolves its keys once and is the case
without rotation. Lifetimes are at least one second, as `validLifetime` (`issue.go:255`), `New` (`provider.go:223`)
and `Client.validate` (`client.go:255`) demand.

### Provider, with Endpoints, Clients and Claims

`Provider` composes the rules that hardly need interleaving: a handler runs to its response
(`out`), which is then read (`Delivered`), and between two handlers the registration may
change (`SetClient`); one handler has two steps, see below. It follows one grant of one client from the request to the claims.

| Actions | Code |
|---|---|
| `Init` with `New`, `Configured` | `New`, `Endpoints.setDefaults`, `Endpoints.validate`, `resolveIssuer` |
| `ErrorPage`, `ErrorRedirect`, `Authorize` | `serveAuthorization` up to the parsed request: `authorizationTarget`, `parseAuthorizationRequest` |
| `ParseAuthorizationRequest` | the same for an application with an authorization endpoint of its own |
| `Save`, `SaveFails` | `SaveAuthorizationRequest`, and within `serveAuthorization` `Interact` or the error sent to `targetOf` |
| `Approve`, `Deny` | `Approve`, `Deny` with `checkRequest`, `checkDelivery`, `claimsForClient`, `validateApproval` |
| `ExchangeCode`, `ExchangeRefresh`, `ExchangeClientCredentials`, `TokenRefuses` | `serveToken`, `issueIDToken` |
| `UserInfo` | `serveUserInfo`, `endUserClaims` |
| `CallEndpoint` | the other endpoints, up to the authenticated client |
| `Document` | discovery, JWKS and 404 |

* One handler has a second step: `serveAuthorization` looks the client up when it parses
  a request and again when it saves it (`authorize.go:203`, `authorize.go:208`). Between
  `Authorize` and `Save` or `SaveFails` only the registration may change; the stage
  "serving" keeps other handlers away, and `parsedWith` remembers the registration of the
  first lookup.
* `parseable` has every refusal that depends on the registration, the configuration or
  another parameter. Refusals for the format of one parameter alone (`prompt`, `max_age`,
  malformed challenges, sizes) end in the same `ErrorRedirect` and are left out. So is an
  unset `Config.Interact`, which shows an error page to every request.
* `New` fills in a lifetime that is not positive before it demands one second of it
  (`setDefault`, `validLifetime`); the instance has lifetimes 0, 999 and 1000 ms.
* `Endpoints`: a path is a sequence of pieces, so that prefixes, `/.well-known/` and
  characters that are not path characters can be told apart without spelling strings.
* `Clients`: a secret is "hash", "secret" or "wrong"; a redirect URI is the record of
  its scheme, host, port, path, user info and fragment. `validateClient` is the whole
  of `Client.validate`, and an invalid registration answers no request.
* `Claims`: a claims request is two sets of names, the requested `sub` and whether `acr`
  is essential; the claims of a response are a function from names to who set them:
  the provider, the application or the hook.
* What the application and its hook decide are inputs: `Approvals` are the approvals it
  may hand to `Approve`, valid or not, `ScopeSets` the scopes that a token request or
  `BeforeIssue` may ask for, and `ExtraClaims` the claims that the hook may add. An approval without a subject is
  refused (`validateSubject`).
* `asked`, `approved` and `registered` in a token are history.
* Left to the other modules: what interleaves or fails, audiences, redeeming pushed
  requests, the `redirect_uri` check of an exchange, expiry, reuse and revocation.

## What TLC checks

Every property has a comment in its module that says which behaviour it is about,
and a mutant in `PROJECT.json`: a plausible bug in one definition under which the
property fails in the same run.

| Run | Instance | Shows |
|---|---|---|
| `TokenEndpointRace` | 2 handlers, 1 grant, 4 values, `error`, fairness | `DoubleUseEndsGrant`; `EveryRequestEnds`, clean-up paths that fail included |
| `TokenEndpointCrash` | 2 handlers, 2 grants, 4 values, all faults | `ConsumedMeansExchanged` (no retry becomes a reuse unless a response was lost), `LostExchangesFailClosed` (a lost response is never replaced by another one), `RevokedGrantStaysDead`, `AtMostOneExchange`, `NoOrphans` |
| `TokenEndpointTime` | 2 handlers, 3 values, clock 0..3, collection every 2, all reading endpoints | `SpentTokensAreUseless`, `NoResurrection` while tokens expire and are collected; `ReplayDetectableUntilExpiry`; `ImplementsGrantLife` and `Inductive`, the invariant of the proofs, both of which are proved under every fault too |
| `TokenEndpointScopes` | 1 handler, 2 scopes, 1 audience, 3 registrations | `WithinGrant`, `RefreshNeedsOfflineAccess`, `IssuedWithinRegistration` |
| `TokenEndpointOwner` | 2 handlers, 2 issuers, 2 clients, every code shape, right, wrong and missing proofs | `OnlyTheOwnerSpends` |
| `TokenEndpointReplay` | 1 handler, clock 0..2 | `ReplayStaysDetectable` is violated: see below |
| `AuthorizationRace` | 2 handlers, 2 user agents, 3 requests, `late` and `crash` | `AtMostOneAnswer`, `CompletedByStarter`, `SavedRequestsAreAnswered`, `ImplementsRequestLife` |
| `AuthorizationPolicy` | 1 handler, 3 registrations, 3 kinds of request with `max_age` 0, 1 or none, 2 requests, 2 adjustments, `error`, clock 0..2 | `CodeIsPermitted`, `LoginIsFresh` |
| `ClientAssertionClaims` | 1 handler, 2 issuers, 2 clients, 7 assertions with one `jti`, 2 registrations, clock 0..3, all faults | `NoReplayWhileValid`, `NoFalseReplay`, `ClaimsAreBounded`, `AcceptedAtOneIssuer` |
| `ClientAssertionReuse` | 2 handlers, 1 assertion, clock 0..4 | `SingleUse` is violated: see below |
| `KeyRotation` | 2 handlers, 1 verifier, 2 RSA keys and an EC key, lifetime 1, `Flight` and `MaxAge` 1, `Grace` 2, clock 0..5, no wait before a key signs | `LiveTokensVerify`, `CachedKeysVerify`, `SigningNeverStops` |
| `Provider` | 12 configurations, 6 of them rejected, 6 registrations, 12 authorization requests, 9 credentials, 26 paths | `RequestsReachTheirEndpoint`, `CredentialsProveTheClient`, `AnswersStayRegistered`, `PublicCodesAreProven`, `ReleaseIsApproved`, `LoginIsAsAsked` |

Each state machine's `TypeOK` is checked in its first run.

**Bounds.** `MaxValues`, `MaxGrants` and `MaxRequests` end the supply of random
values and `MaxTime` stops the clock; each is a conjunct of the guard that would
exceed it. Four values are a code, the two tokens of an exchange and one more, since
the hook may withhold a refresh token: two exchanges compete for the code, a refresh
token is used twice, or a refreshed grant is revoked. These are the shortest histories
in which a token is used twice. Two handlers are every pair of requests that race; what
three or more do together is in the theorems, which bound nothing. A grant meets another one only
through `GrantID`, which `TokenEndpointCrash` covers with two. In `Authorization` two
requests are a pushed request and the saved request redeemed from it; three allow for
the saved copy that a late failure left behind. Where a property is about one request
over time or over registrations, one handler is enough: other handlers work on other
records, and what happens when they share one is in the racing runs. `ClientAssertionClaims`
has one handler, which verifies and claims at different times, and all of its
properties are proved for any number. Clocks run past the longest lifetime the
properties speak of. In `KeyRotation` the clock is long enough for two rotations with
the shortest waits, and for a token signed at the last moment to meet the removal of its key.
`Provider` has two named bounds: `Unused` lets a behaviour follow one grant, and
`Before` has the requests that do not touch the grant made before there is one, as
their answers do not depend on it.
Handlers and user agents are symmetric; runs with liveness properties use no symmetry.

**Fairness.** Only `FairSpec` of `TokenEndpoint` has any: weak fairness of `Step(h)`
for each handler. `net/http` runs a handler until it returns, and `Storage` calls
return, with an error if they must. Nothing is assumed about arrivals, crashes,
ticks or collections, and nothing about which outcome a step has.

**Deadlock** is checked in every run: `Collect`, `SetClient` or the arrival of a
request always applies, and that handlers themselves never get stuck is
`EveryRequestEnds`.

## What is proved

TLAPS proves the following for any number of handlers, values, grants, requests, keys,
clients and issuers, any lifetimes, registrations and configurations, and every
combination of faults.

| Module | Theorem | Statement |
|---|---|---|
| `TokenEndpointProofs` | `InductiveInvariant` | `Spec => []Inductive` |
| | `TypeCorrect` | `Spec => []TypeOK` |
| | `RevocationIsFinal` | `Spec => []RevokedGrantStaysDead` |
| | `SingleUse` | `Spec => []AtMostOneExchange` |
| | `RevokedTokensStayAway` | `Spec => NoResurrection` |
| `TokenEndpointGuarantees` | `TokensStayWithinGrants` | `Spec => []WithinGrant` |
| | `RefreshIsOffline` | `Spec => []RefreshNeedsOfflineAccess` |
| | `WithinRegistration` | `Spec => []IssuedWithinRegistration` |
| | `SpentIsUseless` | `Spec => []SpentTokensAreUseless` |
| | `OwnersSpend` | `Spec => OnlyTheOwnerSpends` |
| | `FailuresLeaveTokensUsable` | `Spec => []ConsumedMeansExchanged` |
| | `LostAnswersFailClosed` | `Spec => []LostExchangesFailClosed` |
| | `ReplaysAreDetected` | `Spec => []ReplayDetectableUntilExpiry` |
| | `NothingIsOrphaned` | `Spec => []NoOrphans` |
| | `GrantLifeRefined` | `Spec => ImplementsGrantLife` |
| | `HandlersDescend` | `Spec => [][NoWayBack]_vars`: every step of a handler lowers `StepsLeft` |
| `AuthorizationProofs` | `InductiveInvariant` | `Spec => []Inductive` |
| | `TypeCorrect` | `Spec => []TypeOK` |
| | `OneAnswer` | `Spec => []AtMostOneAnswer` |
| | `StarterCompletes` | `Spec => []CompletedByStarter` |
| | `CodesArePermitted` | `Spec => []CodeIsPermitted` |
| | `LoginsAreFresh` | `Spec => []LoginIsFresh` |
| | `SavedRequestsSurvive` | `Spec => []SavedRequestsAreAnswered` |
| | `RequestLifeRefined` | `Spec => ImplementsRequestLife` |
| `ClientAssertionProofs` | `TypeCorrect` | `Spec => []TypeOK` |
| | `BoundedClaims` | `Spec => []ClaimsAreBounded` |
| | `NoReplay` | `Spec => NoReplayWhileValid` |
| | `OneIssuer` | `Spec => []AcceptedAtOneIssuer` |
| | `ReplaysAreReal` | `Spec => NoFalseReplay` |
| `KeyRotationProofs` | `InductiveInvariant` | `Spec => []Inductive` |
| | `TypeCorrect` | `Spec => []TypeOK` |
| | `NeverWithoutKey` | `Spec => []SigningNeverStops` |
| | `LiveTokensHaveKeys` | `Spec => []LiveTokensVerify` |
| | `CachesHaveKeys` | `Spec => []CachedKeysVerify` |
| `ProviderProofs` | `InductiveInvariant` | `Spec => []Inductive` |
| | `TypeCorrect` | `Spec => []TypeOK` |
| | `RoutingIsDiscovery` | `Spec => []RequestsReachTheirEndpoint` |
| | `CredentialsAreProof` | `Spec => []CredentialsProveTheClient` |
| | `AnswersAreRegistered` | `Spec => []AnswersStayRegistered` |
| | `PublicClientsUsePKCE` | `Spec => []PublicCodesAreProven` |
| | `ClaimsAreApproved` | `Spec => []ReleaseIsApproved` |
| | `LoginsAreAsAsked` | `Spec => []LoginIsAsAsked` |
| `LifeTheorems` | `RevocationIsComplete` | `GrantLife`: no value is valid in an ended grant |
| | `TokensDoNotReturn` | `GrantLife`: a step revives no value, moves none to another grant, forgets no use and reopens no grant |
| | `OneAnswerWhenTaken` | `RequestLife`: one answer at most, and only to a request that was taken |
| | `RequestsDoNotReopen` | `RequestLife`: a step reopens no request and forgets no answer |

**Assumptions.** The named `ASSUME`s give the constants their types, and TLC evaluates
them in every run. Three say more than that:

* lifetimes are at least 1 (`KeysAssumption`), because a token with lifetime 0 would
  count as alive at an instant at which its key may already be gone; the code refuses
  such lifetimes;
* a rotation removes a key no earlier than `Grace` after it stopped signing, with
  `Grace >= lifetime + Flight` (`WaitsAssumption`), which `Issuer.Keys` leaves to the
  application ("remove the old key once its tokens have expired");
* `Tails`, the pieces of a path that do not begin with "/", do not contain those of the
  two well-known paths, which do (`PiecesAssumption`).

**Token endpoint.** `RevokedGrantStaysDead` is not inductive. An exchange stores
tokens of a grant that may already be revoked; this is harmless because it returns
them only after `ConsumeToken` found the source token, and a revoked grant has no
stored source. `TokenEndpointInvariant` says what makes that argument go through:

* `HandlersOK`: what `pc[h]` says about the request and the records of a handler;
* `ValuesOK`, `GrantsOK`: values and grant IDs are handed out once, and the values a
  handler minted are disclosed to nobody and belong to no other handler;
* `RecordsOK`, `SourceOK`: minted tokens and the source are of the handler's grant,
  for as long as the store has them;
* `PrivateOK`: the grant that a handler is starting is known to nobody else, so it
  cannot be revoked;
* `RespondOK`: at "respond", tokens that are still stored are of an unrevoked grant,
  which is exactly what makes disclosing them preserve `RevokedGrantStaysDead`;
* `UsedOK`: the source of every answered or winning exchange is marked as used if the
  store has it, which is why a second `ConsumeToken` cannot succeed.

The proof groups the actions by what they do to the store and to the supply of
values (`QuietStep`, `ReadStep`, `CreateStep`, `MintStep`, `ConsumeStep`,
`RespondStep`, `LookupStep`, `StartStep`, `RevokeGrantRevokes`), proves one lemma for
each group, and applies these lemmas in one step per action (`ArriveSafe`,
`StepSafe`, `OtherSafe`). `TokenMapTheorems` has what each method of the store
keeps. `RevokedTokensStayAway` follows because only `CreateToken` adds a value to the
store (`StoreEffect`), and it adds one that is still private.

`TokenEndpointGuarantees` adds four invariants, each proved with `Inductive` at hand:

* `Contents`: every record in the store or in a handler's hands is `Lawful`, within the
  grant it belongs to; a handler has checked what its position says (`Checked`); the
  copy it loaded differs from the stored record at most in having been used since
  (`CopyOK`); and a token that was spent when the request came is spent in that copy
  (`DeadOK`). `WithinGrant` is not inductive without the records that are not stored
  yet, and `SpentTokensAreUseless` relates an arrival to an answer many steps later.
* `Outcomes`: `ConsumedMeansExchanged` and `LostExchangesFailClosed` are inductive
  together. Marking a record as used is the same step that wins, or that records the
  answer as lost.
* `CleanUp`: `NoOrphans` with what `discardTokens` has done so far.
* `Traceable`: what `ReplayDetectableUntilExpiry` says of a used token (`Kept`) holds
  for every answered exchange, and for every handler that has consumed its source and
  not answered yet, because the tokens it is about to disclose will need it. Only
  `RevokeGrant`, the collection and `RevokeToken` delete a used token (`UsedTokenGoes`).
  `RevokeGrant` leaves nothing alive that a client knows. The collection drops what has
  expired. `RevokeToken` is called for what a handler minted, which nobody has used, and
  for tokens that are neither codes nor refresh tokens.

`OwnersSpend` is an action property: the only steps that mark a token are `Consume` and
a failing one that took effect, and by `Checked` and `CopyOK` what was verified of the
copy holds of the record. `GrantLifeRefined` shows that every step is a step of
`GrantLife` or a stutter. `Respond` is `Start` or `Exchange`; it needs `RespondOK`,
`UsedOK` and that values are private until then.

**Authorization.** A response is counted when it is sent, so `AtMostOneAnswer` needs to
know who may still send one. `Carries(h)` are the requests that handler `h` took from
the store: the one it redeemed or completed, and the pushed one that this came from.
`Kept(w)` are the requests that are answered when the saved request `w` is. `OnePlace`
says that these sets are disjoint, between handlers, between stored requests, and
between the two, and that nothing in them was answered. `DeleteAuthorizationRequest`
moves `Kept` to `Carries` and has one winner; a late failure leaves a saved copy that
nobody has the ID of. `StoreOK` has what the store remembers of a request, `HandlerOK`
and `WorkOK` what the position of a handler says: that it serves the user agent that
started the request, and that at "code" the login is fresh and one of the registrations
seen during the call permits the code. `RequestLifeRefined` follows from `OnePlace`.

**Key rotation.** The invariants relate the stage of a key, and the times at which it was
published and stopped signing, to the time when a request began. `SignerOK`: the key that
a request resolved still signs, or stopped after the request began; with `Flight` this
bounds how late its token expires (`TokenOK`), and so `Grace` is enough. `FetchOK`: a
JWKS on its way lacks a key only if the request began before the key was published; with
`Flight` this bounds when such a JWKS reached a cache (`CacheOK`), and with `MaxAge` how
long it is used. No assumption on when keys begin to sign is needed. `ConfigOK` says that
the configuration has the published keys once each and the signing key of an algorithm
first.

**Provider.** `StateOK` says what is left of the request at each stage: the pending
request has a claims request that is `Reduced` from the one that came, with its entries
for `acr` and `sub`; a grant has claims that were asked for, approved and covered by
the registration at its approval (`ClaimsOK`), the login that was asked for (`LoginOK`)
and a challenge if its client was public then (`GrantOK`). A request that
`serveAuthorization` has parsed and not saved was matched with the registration it
remembers (`ServedOK`), which is what `SaveFails` needs. `OutOK` has the properties,
which are about the last response, and none of which follows without `StateOK`. The
lemmas are about the rules: `RouteIsPublished` (the paths of two endpoints, and those of
the metadata, are different below every issuer path, one exception aside; `CutPrefix` is
that a prefix may be cut on both sides), `AuthenticatedOK` with `OneMethod`, `TargetOK` with
`MatchesRegistered`, `ReducedOK`, `ApprovedOK`, `IDTokenOK`, `UserInfoOK`.

**What the proofs changed.** An attempt that failed pointed at each of these:

* `RequestLife` had no step in which requests expire while another one is opened; the
  instance of `AuthorizationRace` keeps the clock still, and TLC had not seen one.
* `LiveTokensVerify` is false if a lifetime may be 0.
* Several rules were `CASE` expressions with overlapping guards. TLC takes the first,
  TLA+ any; they are now ordered, as the code's `switch` and `if` statements are.
* `validateApproval` did not refuse an approval without a subject.

**Client assertions.** The invariant joins `PendingInTime` (an assertion that waits
for its claim expires within the maximal lifetime of now), `ClaimsAreBounded` and
`Remembered` (for every accepted assertion that has not expired, leeway included,
the store has the claim that was recorded for it). `Remembered` needs that a claim is
replaced or collected only after it ended. `NoReplay` follows because a step that
accepts is the one that claims the key. `OneIssuer` has an invariant of its own,
`OneAudience`: whatever waits for a claim or was accepted names its issuer as the only
audience.

**Only model-checked.** Liveness under fairness is outside what the proof system
handles, so `EveryRequestEnds` and `DoubleUseEndsGrant` rest on TLC, and the refinements
are proved as safety properties. Half of `EveryRequestEnds` is proved: `HandlersDescend`
bounds the steps of a request by nine, on every error path and next to any number of
other handlers, where a `RevokeGrant` that deletes tokens one by one is one step. What
rests on TLC alone is that a handler which has not returned always has a step it can
take. `ReplayStaysDetectable`, the documentation's claim about replays, is false (below);
what the code does guarantee is `ReplayDetectableUntilExpiry`. The system cannot prove
what a recursive definition computes for every input either; the modules contain no
recursion.

## Where code and documentation differ

1. **A used code is forgotten when it expires** (`TokenEndpointReplay`).
   `token.go:352` and `docs/design.md:77` say that reuse of a code revokes the grant
   even after the code has expired. `memory.Store.collectLocked` (`memory.go:189`)
   drops every expired token, used ones too. A code lives for a minute, tokens for
   hours: once some request causes a collection, a replay of the code is an unknown
   token and the tokens issued from it live on. What does hold, and is proved, is
   `ReplayDetectableUntilExpiry`: until the code expires, and unless a `RevokeGrant`
   that is not atomic stopped after deleting it, the store has it and every replay
   revokes the grant.
2. **The last instant of an assertion** (`ClientAssertionReuse`). `docs/design.md:99`
   says that client assertions are single-use. An assertion is valid up to and
   including `exp` plus the leeway, but its claim ends at that instant, exclusive
   (`clientauth.go:206`, `memory.go:170`), so it is accepted once more at that
   instant, or when it was verified before and is claimed after it. What does hold,
   and is proved, is `NoReplayWhileValid`: nothing is accepted twice strictly before
   that instant.

## What is not modelled

* **Cryptography and formats**: signing, hashing of secrets and verifiers, `at_hash`,
  the claims of JWT access tokens, the syntax of scopes, challenges and JSON, HTML,
  status codes and headers. They keep no state, and no property here depends on more
  than their outcome.
* **Values of claims**, and the fields of an introspection response: what is released
  is modelled, what it says is not.
* **A custom encoder that repeats values** (`token.go:523`): excluded by the contract
  of `AccessTokenEncoder`.
* **A restart of `memory.Store`** loses everything and leaves nothing to check.
* **The conformance suite and the examples**: not part of the library. What the suite
  demands of a `Storage` is what the models have as its methods.

## Three corners the models show

* **Claims of a grant after its approval.** Individually requested claims are reduced
  to the registration at the approval (`approve.go:278`) and not again:
  `checkClientGrant` (`token.go:321`) compares scopes and audiences only. A client
  whose registration loses the mapping scope later keeps receiving the claim if the
  grant does not have that scope. `docs/design.md:119` says that "the client is
  registered for a scope that maps to it" without saying when. `ReleaseIsApproved` says
  what the code guarantees: the scopes whose claims are released are registered at the
  exchange, individually requested claims were covered by the registration at the
  approval.
* **The error of a failed save.** `serveAuthorization` looks the client up twice. If a
  redirect URI is removed between the lookups, `checkDelivery` refuses the request and
  `authorize.go:210` sends `server_error` to `targetOf(req)`, which is that URI. It was
  registered when the request was parsed, a moment before. `checkDelivery` is there to
  "send an authorization response safely" with "a registered redirect URI"
  (`approve.go:314`); here its refusal itself is redirected. `AnswersStayRegistered`
  names this case and says what holds: the URI of the error was registered at the first
  lookup.
* **An issuer below `/.well-known`.** The code accepts `https://host/.well-known`. The
  endpoint path `/oauth-authorization-server/.well-known` then passes
  `Endpoints.validate` (`endpoints.go:57`), discovery publishes that endpoint at the
  address of the issuer's RFC 8414 metadata, and `route` serves the metadata there.
  `RequestsReachTheirEndpoint` names this case, the `Provider` run has such a
  configuration, and `RoutingIsDiscovery` proves that there is no other one.

## Plan

Done: the token endpoint with revocation and reading, the authorization endpoint with
pushed requests, client assertions, key rotation and the composed provider, the two
refinements, their runs, and the theorems above: every safety property of a run that
passes is proved. Left for whoever continues:

1. The two properties about progress, which need a proof system with fairness.
2. A `Storage` on a database with weaker isolation than the contract in `storage.go`
   demands; the models take each call as atomic except where `late` and `partial` say
   otherwise.
