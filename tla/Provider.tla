-------------------------------- MODULE Provider --------------------------------
(***************************************************************************)
(* A configured provider and the life of one grant of one client: a        *)
(* request is routed, the client is looked up and authenticated, an        *)
(* authorization request is parsed, saved and approved, its code is        *)
(* exchanged and refreshed, and the end-user's claims are released in ID   *)
(* tokens and at UserInfo, while the registration changes in between.      *)
(*                                                                         *)
(* This module composes the rules of Endpoints, Clients and Claims.        *)
(* Handlers run one at a time, but the application may change the          *)
(* registration between them, and between the two lookups of the client in *)
(* serveAuthorization.  What interleavings of handlers, failures and expiry*)
(* can do is the subject of Authorization and TokenEndpoint, and so are    *)
(* audiences, pushed requests and the other checks of an exchange.         *)
(***************************************************************************)
EXTENDS Integers, Endpoints, Clients, Claims

CONSTANTS
    Configs,        \* what applications pass to New
    Registrations,  \* what the ClientStore may return for the client
    AuthParams,     \* the parameters of authorization requests
    Approvals,      \* what the application may pass to Approve
    Credentials,    \* the credentials of token requests
    ScopeSets,      \* scopes that a token request or the hook may ask for
    ExtraClaims,    \* sets of claims that the hook may add to an ID token
    Paths,          \* the paths of requests
    Held,           \* the claims that Config.Claims returns
    None            \* no such object

VARIABLES
    cfg,      \* the configuration New accepted
    reg,      \* the current registration of the client, or None
    pending,  \* the authorization request to save or complete
    code,     \* the latest code that was not exchanged
    access,   \* the latest access token
    refresh,  \* the latest refresh token
    out       \* the last response

vars == <<cfg, reg, pending, code, access, refresh, out>>

ClientID == "app"

(* What New is given, as far as the rules read it.  base is the path of the *)
(* issuer, extra says that something follows it, lifetime, that of tokens,  *)
(* is in milliseconds.                                                      *)
Config ==
    [endpoints : [Names -> Seq(STRING)], base : Seq(STRING), par : STRING,
     scopeClaims : {c.scopeClaims : c \in Configs}, idTokenScopeClaims : BOOLEAN,
     grants : SUBSET STRING, formats : SUBSET STRING, format : STRING,
     lifetime : Int, scheme : STRING, host : STRING, extra : BOOLEAN]

(* The parameters of an authorization request.  object is whether there is a *)
(* request object, objectMode the response mode it asks for, hint the        *)
(* subject of an id_token_hint, repeated the parameters that occur twice.    *)
AuthParam ==
    [id : STRING, redirect : URI \union {None}, mode : STRING, objectMode : STRING,
     object : BOOLEAN, type : STRING, scopes : SUBSET STRING, challenge : BOOLEAN,
     nonce : BOOLEAN, repeated : SUBSET STRING, hint : STRING, claims : ClaimsRequest]

Approval ==
    [scopes : SUBSET STRING, claims : SUBSET STRING, subject : STRING, acr : STRING]

ASSUME ConfigsAssumption == Configs \subseteq Config

ASSUME RequestsAssumption ==
    /\ \A c \in Registrations : c.redirects \subseteq URI
    /\ AuthParams \subseteq AuthParam /\ None \notin AuthParams
    /\ Approvals \subseteq Approval
    /\ Paths \subseteq Seq(STRING)

----------------------------------------------------------------------------
(* Configuration.                                                          *)

BuiltInGrants  == {"authorization_code", "refresh_token", "client_credentials"}
BuiltInFormats == {"opaque", "jwt"}

knownFormat(c, f) == f \in BuiltInFormats \union c.formats

(* The issuer URL: https, or http on the local host, and nothing but a path *)
(* without a trailing slash behind the host.                                *)
resolveIssuer(c) ==
    /\ \/ c.scheme = "https"
       \/ c.scheme = "http" /\ (isLoopbackIP(c.host) \/ c.host = "localhost")
    /\ c.host # "" /\ ~c.extra

(* Lifetimes that are not positive are replaced by an hour. *)
setDefault(d) == IF d <= 0 THEN 3600000 ELSE d

(* Whether New accepts a configuration. *)
New(c) ==
    /\ DOMAIN c.scopeClaims \intersect {"openid", "offline_access"} = {}
    /\ c.grants \intersect (BuiltInGrants \union {""}) = {}
    /\ c.formats \intersect (BuiltInFormats \union {""}) = {}
    /\ validate(setDefaults(c.endpoints), c.par # "")
    /\ c.par \in {"", "allowed", "required"}
    /\ setDefault(c.lifetime) >= 1000
    /\ c.format = "" \/ knownFormat(c, c.format)
    /\ resolveIssuer(c)

(* The provider keeps the configuration with its defaults. *)
Configured(c) == [c EXCEPT !.endpoints = setDefaults(c.endpoints),
                           !.lifetime = setDefault(c.lifetime),
                           !.format = IF c.format = "" THEN "opaque" ELSE c.format]

PAR == cfg.par # ""

At(path) == route(cfg.endpoints, PAR, cfg.base, path)

(* What Provider.client makes of a registration. *)
usable(c) ==
    /\ validateClient(c)
    /\ c.requirePAR => PAR
    /\ c.format = "" \/ knownFormat(cfg, c.format)
    /\ grantTypes(c) \subseteq BuiltInGrants \union cfg.grants

client(id) ==
    IF id # ClientID \/ reg = None THEN "unknown"
    ELSE IF usable(reg) THEN "ok" ELSE "invalid"

Authenticated(q) == ~q.repeated /\ authenticateClient(reg, client(Named(q)), q) = "ok"

----------------------------------------------------------------------------
(* The state.                                                              *)

Response(at, path, kind) ==
    [at |-> at, path |-> path, kind |-> kind, to |-> None, mode |-> "",
     q |-> None, verifier |-> FALSE, claims |-> <<>>, of |-> None, parsedWith |-> None]

Init ==
    /\ cfg \in {Configured(c) : c \in {d \in Configs : New(d)}}
    /\ reg \in Registrations
    /\ pending = None /\ code = None /\ access = None /\ refresh = None
    /\ out = None

(* serveAuthorization has parsed a request and has not saved it. *)
Serving == pending # None /\ pending.stage = "serving"

(* Handlers run one at a time. *)
Idle == out = None /\ ~Serving

(* The response has been read. *)
Delivered ==
    /\ out # None
    /\ out' = None
    /\ UNCHANGED <<cfg, reg, pending, code, access, refresh>>

(* Bound: a behaviour follows one grant. *)
Unused == code = None /\ access = None /\ refresh = None

----------------------------------------------------------------------------
(* The authorization endpoint.                                             *)

parRequired(c) == cfg.par = "required" \/ c.requirePAR

RedirectURI(p) ==
    IF p.redirect # None
    THEN IF matchRedirectURI(reg, p.redirect) THEN p.redirect ELSE None
    ELSE IF "openid" \notin p.scopes /\ Cardinality(reg.redirects) = 1
    THEN CHOOSE u \in reg.redirects : TRUE
    ELSE None

(* The mode of the answer; a rejected request object may say it. *)
ResponseMode(p, uri) ==
    LET asked == IF p.mode = "" THEN p.objectMode ELSE p.mode
    IN  IF /\ "response_mode" \notin p.repeated
           /\ asked \in {"query", "fragment"} \/ (asked = "form_post" /\ isHTTPURL(uri))
        THEN asked ELSE "query"

(* Where errors may be redirected to, or None: they are shown to the user. *)
authorizationTarget(p) ==
    IF \/ p.repeated \intersect {"client_id", "redirect_uri"} # {}
       \/ client(p.id) # "ok"
       \/ RedirectURI(p) = None
    THEN None
    ELSE [uri |-> RedirectURI(p), mode |-> ResponseMode(p, RedirectURI(p))]

scopesOf(p) == p.scopes \intersect reg.scopes

Conflict(p, claims) ==
    requestedSub(claims) # "" /\ p.hint # "" /\ requestedSub(claims) # p.hint

parseable(p, t) ==
    /\ p.repeated = {}
    /\ ~p.object
    /\ ~parRequired(reg)
    /\ p.mode \in {"", t.mode}
    /\ p.type = "code"
    /\ allowsGrant(reg, "authorization_code")
    /\ p.challenge \/ checkPKCEPolicy(reg, "openid" \in scopesOf(p), p.nonce)
    /\ ~Conflict(p, claimsForClient(cfg.scopeClaims, reg.scopes, p.claims))

(* The parsed request.  path and parsedWith, the registration it was       *)
(* parsed with, are set while serveAuthorization has it.                   *)
parsed(p, t) ==
    LET claims == claimsForClient(cfg.scopeClaims, reg.scopes, p.claims)
    IN  [uri |-> t.uri, mode |-> t.mode, scopes |-> scopesOf(p), claims |-> claims,
         challenge |-> p.challenge, nonce |-> p.nonce,
         subject |-> IF requestedSub(claims) # "" THEN requestedSub(claims) ELSE p.hint,
         asked |-> p, stage |-> "parsed", path |-> <<>>, parsedWith |-> None]

Redirect(at, path, kind, t) ==
    [Response(at, path, kind) EXCEPT !.to = t.uri, !.mode = t.mode]

ErrorPage(path, p) ==
    /\ Idle /\ At(path) = "authorization"
    /\ authorizationTarget(p) = None
    /\ out' = Response("authorization", path, "page")
    /\ UNCHANGED <<cfg, reg, pending, code, access, refresh>>

ErrorRedirect(path, p) ==
    LET t == authorizationTarget(p)
    IN  /\ Idle /\ At(path) = "authorization"
        /\ t # None /\ ~parseable(p, t)
        /\ out' = Redirect("authorization", path, "redirect", t)
        /\ UNCHANGED <<cfg, reg, pending, code, access, refresh>>

(* An application with an authorization endpoint of its own; it answers a  *)
(* request that is refused as above.                                       *)
ParseAuthorizationRequest(p) ==
    LET t == authorizationTarget(p)
    IN  /\ Idle /\ Unused /\ t # None /\ parseable(p, t)
        /\ pending' = parsed(p, t)
        /\ UNCHANGED <<cfg, reg, code, access, refresh, out>>

(* serveAuthorization up to the parsed request; Save or SaveFails ends it. *)
Authorize(path, p) ==
    LET t == authorizationTarget(p)
    IN  /\ Idle /\ At(path) = "authorization"
        /\ Unused /\ t # None /\ parseable(p, t)
        /\ pending' = [parsed(p, t) EXCEPT !.stage = "serving", !.path = path,
                                           !.parsedWith = reg]
        /\ UNCHANGED <<cfg, reg, code, access, refresh, out>>

checkDelivery(r) ==
    /\ matchRedirectURI(reg, r.uri)
    /\ r.mode = "form_post" => isHTTPURL(r.uri)

(* Mutant of checkRequest: the scopes are not compared again. *)
checkRequestParsed(r) ==
    /\ checkDelivery(r)
    /\ allowsGrant(reg, "authorization_code")
    /\ ~parRequired(reg)
    /\ r.challenge \/ checkPKCEPolicy(reg, "openid" \in r.scopes, r.nonce)

checkRequest(r) ==
    /\ checkDelivery(r)
    /\ allowsGrant(reg, "authorization_code")
    /\ r.scopes \subseteq reg.scopes
    /\ ~parRequired(reg)
    /\ r.challenge \/ checkPKCEPolicy(reg, "openid" \in r.scopes, r.nonce)

Current(r) == [r EXCEPT !.claims = claimsForClient(cfg.scopeClaims, reg.scopes, @)]

(* SaveAuthorizationRequest, which looks the client up again: called by    *)
(* serveAuthorization, which then calls Interact, or by the application.   *)
Save ==
    /\ out = None /\ pending # None /\ pending.stage # "saved"
    /\ client(ClientID) = "ok" /\ checkRequest(pending)
    /\ pending' = [Current(pending) EXCEPT !.stage = "saved", !.path = <<>>,
                                           !.parsedWith = None]
    /\ out' = IF Serving THEN Response("authorization", pending.path, "interact") ELSE None
    /\ UNCHANGED <<cfg, reg, code, access, refresh>>

(* The client is gone or the request not allowed any more, or the storage, *)
(* which is not modelled here, fails: serveAuthorization sends the error to*)
(* where the parsed request points.  A call of the application that fails  *)
(* changes nothing and is left out.                                        *)
SaveFails ==
    /\ out = None /\ Serving
    /\ pending' = None
    /\ out' = [Redirect("authorization", pending.path, "failed", pending) EXCEPT
                  !.parsedWith = pending.parsedWith]
    /\ UNCHANGED <<cfg, reg, code, access, refresh>>

(* What Approve demands of the application's approval a. *)
validateApproval(r, a) ==
    /\ a.subject # ""
    /\ a.scopes \subseteq r.scopes
    /\ a.claims \subseteq requestedNames(r.claims)
    /\ "openid" \in r.scopes =>
        /\ "openid" \in a.scopes
        /\ r.subject \in {"", a.subject}
        /\ requestedEssentialACR(r.claims) => a.acr = "gold"

(* Mutant of completable: the claims request is not reduced again. *)
ApproveStale(a) ==
    LET r == pending
    IN  /\ Idle /\ pending # None
        /\ client(ClientID) = "ok" /\ checkRequest(pending)
        /\ validateApproval(r, a)
        /\ code' = [scopes |-> a.scopes, subject |-> a.subject, acr |-> a.acr,
                    challenge |-> r.challenge,
                    claims |-> IF "openid" \in r.scopes THEN filter(r.claims, a.claims)
                               ELSE NoClaims,
                    asked |-> r.asked, approved |-> a.claims, registered |-> reg]
        /\ pending' = None
        /\ out' = Redirect("approve", <<>>, "redirect", r)
        /\ UNCHANGED <<cfg, reg, access, refresh>>

(* asked, approved and registered are kept for the properties: what the    *)
(* client asked for, the application approved, and the registration then.  *)
Approve(a) ==
    LET r == Current(pending)
    IN  /\ Idle /\ pending # None
        /\ client(ClientID) = "ok" /\ checkRequest(pending)
        /\ validateApproval(r, a)
        /\ code' = [scopes |-> a.scopes, subject |-> a.subject, acr |-> a.acr,
                    challenge |-> r.challenge,
                    claims |-> IF "openid" \in r.scopes THEN filter(r.claims, a.claims)
                               ELSE NoClaims,
                    asked |-> r.asked, approved |-> a.claims, registered |-> reg]
        /\ pending' = None
        /\ out' = Redirect("approve", <<>>, "redirect", r)
        /\ UNCHANGED <<cfg, reg, access, refresh>>

Deny ==
    /\ Idle /\ pending # None
    /\ client(ClientID) = "ok" /\ checkDelivery(pending)
    /\ pending' = None
    /\ out' = Redirect("deny", <<>>, "redirect", pending)
    /\ UNCHANGED <<cfg, reg, code, access, refresh>>

----------------------------------------------------------------------------
(* The token endpoint.                                                     *)

verifyPKCE(t, verifier) == verifier = t.challenge

checkClientGrant(t) == t.scopes \subseteq reg.scopes

withRefresh(t) ==
    /\ allowsGrant(reg, "refresh_token")
    /\ "openid" \in t.scopes => "offline_access" \in t.scopes

IDToken(t, extra) ==
    issueIDToken(cfg.scopeClaims, Held, cfg.idTokenScopeClaims, t, extra)

Tokens(path, q, verifier, claims, t) ==
    [Response("token", path, "tokens") EXCEPT
        !.q = q, !.verifier = verifier, !.claims = claims, !.of = t]

(* The scope parameter and BeforeIssue narrow the scopes of the access     *)
(* token; the hook adds claims to the ID token, but no protocol claims.    *)
ExchangeCode(path, q, verifier, scopes, extra) ==
    LET t  == code
        at == [t EXCEPT !.scopes = scopes]
    IN  /\ Idle /\ At(path) = "token" /\ Authenticated(q)
        /\ code # None
        /\ allowsGrant(reg, "authorization_code")
        /\ verifyPKCE(t, verifier)
        /\ checkClientGrant(t)
        /\ scopes \subseteq t.scopes
        /\ extra \intersect protocolClaims = {}
        /\ access' = at
        /\ refresh' = IF withRefresh(t) THEN t ELSE None
        /\ code' = None
        /\ out' = Tokens(path, q, verifier,
                         IF "openid" \in t.scopes THEN IDToken(at, extra) ELSE <<>>, at)
        /\ UNCHANGED <<cfg, reg, pending>>

(* The rotated refresh token has the contents of the old one. *)
ExchangeRefresh(path, q, scopes, extra) ==
    LET t  == refresh
        at == [t EXCEPT !.scopes = scopes]
    IN  /\ Idle /\ At(path) = "token" /\ Authenticated(q)
        /\ refresh # None
        /\ allowsGrant(reg, "refresh_token")
        /\ checkClientGrant(t)
        /\ scopes \subseteq t.scopes
        /\ extra \intersect protocolClaims = {}
        /\ access' = at
        /\ out' = [Tokens(path, q, FALSE,
                          IF "openid" \in scopes THEN IDToken(at, extra) ELSE <<>>, at)
                   EXCEPT !.kind = "refreshed"]
        /\ UNCHANGED <<cfg, reg, pending, code, refresh>>

(* No end-user stands behind the tokens of this grant. *)
ExchangeClientCredentials(path, q, scopes) ==
    /\ Idle /\ At(path) = "token" /\ Authenticated(q)
    /\ Unused /\ ~isPublic(reg) /\ allowsGrant(reg, "client_credentials")
    /\ scopes \subseteq reg.scopes \ {"openid", "offline_access"}
    /\ access' = [scopes |-> scopes, subject |-> "", acr |-> "", challenge |-> FALSE,
                  claims |-> NoClaims, asked |-> None, approved |-> {}, registered |-> reg]
    /\ out' = Tokens(path, q, FALSE, <<>>, access')
    /\ UNCHANGED <<cfg, reg, pending, code, refresh>>

(* Clients that are not authenticated.  Requests that are refused later    *)
(* change nothing either and are left out.                                 *)
TokenRefuses(path, q) ==
    /\ Idle /\ At(path) = "token" /\ ~Authenticated(q)
    /\ out' = [Response("token", path, "error") EXCEPT !.q = q]
    /\ UNCHANGED <<cfg, reg, pending, code, access, refresh>>

----------------------------------------------------------------------------
(* The other endpoints.                                                    *)

UserInfo(path) ==
    /\ Idle /\ At(path) = "userinfo"
    /\ access # None
    /\ IF "openid" \in access.scopes /\ access.subject # ""
       THEN out' = [Response("userinfo", path, "claims") EXCEPT
                        !.claims = userInfo(cfg.scopeClaims, Held, access), !.of = access]
       ELSE out' = Response("userinfo", path, "error")
    /\ UNCHANGED <<cfg, reg, pending, code, access, refresh>>

(* Introspection, revocation and pushed requests, up to the authenticated  *)
(* client; public clients may not introspect.                              *)
CallEndpoint(at, path, q) ==
    /\ Idle /\ At(path) = at
    /\ LET passes == Authenticated(q) /\ (at = "introspection" => ~isPublic(reg))
       IN  out' = [Response(at, path, IF passes THEN "served" ELSE "error") EXCEPT !.q = q]
    /\ UNCHANGED <<cfg, reg, pending, code, access, refresh>>

(* The documents, and 404. *)
Document(at, path) ==
    /\ Idle /\ At(path) = at
    /\ out' = Response(at, path, "document")
    /\ UNCHANGED <<cfg, reg, pending, code, access, refresh>>

(* The application registers the client anew or removes it. *)
SetClient(c) ==
    /\ out = None
    /\ reg' = c
    /\ UNCHANGED <<cfg, pending, code, access, refresh, out>>

----------------------------------------------------------------------------
(* Bound: requests that do not touch the grant are made before there is one. *)
Before == Unused /\ pending = None

(* The requests that reach an endpoint. *)
To(at) == {path \in Paths : At(path) = at}

Next ==
    \/ Delivered
    \/ \E path \in To("authorization"), p \in AuthParams :
        ErrorPage(path, p) \/ ErrorRedirect(path, p) \/ Authorize(path, p)
    \/ \E p \in AuthParams : ParseAuthorizationRequest(p)
    \/ Save
    \/ SaveFails
    \/ \E a \in Approvals : Approve(a)
    \/ Deny
    \/ \E path \in To("token"), q \in Credentials :
        \/ \E v \in BOOLEAN, scopes \in ScopeSets, extra \in ExtraClaims :
            ExchangeCode(path, q, v, scopes, extra)
        \/ \E scopes \in ScopeSets, extra \in ExtraClaims :
            ExchangeRefresh(path, q, scopes, extra)
        \/ \E scopes \in ScopeSets :
            ExchangeClientCredentials(path, q, scopes)
        \/ TokenRefuses(path, q)
    \/ \E path \in To("userinfo") : UserInfo(path)
    \/ \E at \in {"introspection", "revocation", "par"} :
        \E path \in To(at), q \in Credentials : Before /\ CallEndpoint(at, path, q)
    \/ \E at \in {"discovery", "jwks", "none"} :
        \E path \in To(at) : Before /\ Document(at, path)
    \/ \E c \in Registrations \union {None} : SetClient(c)

Spec == Init /\ [][Next]_vars

----------------------------------------------------------------------------
(* Properties.                                                             *)

Kinds == {"page", "redirect", "failed", "interact", "tokens", "refreshed", "claims",
          "served", "document", "error"}

(* The variables have their types; a code, once issued, has the scopes its *)
(* client was registered for.                                              *)
TypeOK ==
    /\ New(cfg)
    /\ reg \in Registrations \union {None}
    /\ pending # None => pending.asked \in AuthParams
    /\ \A t \in {code, refresh} \ {None} :
        /\ t.asked \in AuthParams
        /\ t.registered \in Registrations
        /\ t.scopes \subseteq t.registered.scopes
    /\ out # None => out.kind \in Kinds

(***************************************************************************)
(* A request is served by the endpoint that discovery publishes at its     *)
(* path, every published endpoint is reached, and endpoints of features    *)
(* that are not configured are not served (Provider.route,                 *)
(* Endpoints.validate, serveDiscovery).  The one exception: the metadata   *)
(* document wins at its address, and only an issuer below /.well-known can *)
(* give an endpoint that address.                                          *)
(***************************************************************************)
RequestsReachTheirEndpoint ==
    out # None /\ out.path # <<>> =>
        LET urls == Published(cfg.endpoints, PAR, cfg.base)
            metadata == ServerMetadata \o cfg.base
        IN  /\ \A n \in Names :
                out.at = n <=> /\ n \in DOMAIN urls /\ urls[n] = out.path
                               /\ out.path # metadata
            /\ out.at = "discovery" <=>
                out.path \in {cfg.base \o OpenIDConfiguration, metadata}
            /\ (\E n \in DOMAIN urls : urls[n] = metadata) =>
                cfg.base # <<>> /\ cfg.base[1] = "/.well-known"

(***************************************************************************)
(* Whoever gets past client authentication used the one kind of credential *)
(* the client is registered for and named no other client, and only        *)
(* clients with a credential introspect (authenticateClient,               *)
(* serveIntrospection).                                                    *)
(***************************************************************************)
CredentialsProveTheClient ==
    out # None /\ out.kind \in {"tokens", "refreshed", "served"} =>
        LET used == MethodsUsed(out.q)
        IN  /\ out.q.id \in {"", ClientID}
            /\ \/ used \in {{"basic"}, {"post"}} /\ reg.secret = "hash" /\ usesSecret(reg)
               \/ used = {"assertion"} /\ reg.jwks /\ authMethod(reg) = "private_key_jwt"
               \/ used = {} /\ isPublic(reg) /\ out.at # "introspection"

(***************************************************************************)
(* Codes, refusals and errors of a request are redirected only to a URI    *)
(* the client is registered for when the call looks the client up, up to   *)
(* the port of a loopback address, and a form is never posted to a         *)
(* private-use scheme (authorizationTarget, checkDelivery,                 *)
(* matchRedirectURI).  The exception is the error serveAuthorization sends *)
(* when the request it has just parsed cannot be saved: it goes where the  *)
(* registration allowed when it was parsed, which the second lookup of the *)
(* client may no longer allow (serveAuthorization, targetOf).              *)
(***************************************************************************)
RegisteredFor(r, uri) ==
    \E u \in r.redirects :
        /\ [uri EXCEPT !.port = u.port] = u
        /\ uri # u => u.scheme = "http" /\ isLoopbackIP(u.host) /\ ~u.user

AnswersStayRegistered ==
    out # None /\ out.kind \in {"redirect", "failed"} =>
        /\ RegisteredFor(IF out.kind = "redirect" THEN reg ELSE out.parsedWith, out.to)
        /\ out.mode = "form_post" => out.to.scheme \in {"http", "https"}

(***************************************************************************)
(* A code issued to a public client, which authenticates with nothing, is  *)
(* exchanged only with its PKCE verifier, and such a client gets no tokens *)
(* of its own (pkcePolicy, Client.validate, verifyPKCE).                   *)
(***************************************************************************)
PublicCodesAreProven ==
    out # None /\ out.kind = "tokens" /\ isPublic(out.of.registered) =>
        out.verifier /\ out.of.asked # None

(***************************************************************************)
(* Every claim of the application that reaches the client is either mapped *)
(* from a scope of the access token, or was asked for by name in that      *)
(* place, approved by name, and covered by a scope the client was          *)
(* registered for when it was approved; scope claims stay out of ID tokens *)
(* unless the configuration says so, and protocol claims never come from   *)
(* the application (claims.go, docs/design.md "Claims").  Discovery        *)
(* advertises every claim but those the hook adds (supportedClaims).  The  *)
(* scopes of new tokens, and with them the scope claims, are within the    *)
(* registration at the exchange (checkClientGrant); the claims asked for by*)
(* name stay bounded by the registration at the approval.                  *)
(***************************************************************************)
AskedFor(n, asked) ==
    /\ n \in asked
    /\ n \in out.of.approved
    /\ n \in Mapped(cfg.scopeClaims, out.of.registered.scopes)

ReleaseIsApproved ==
    /\ out # None /\ out.kind \in {"tokens", "refreshed"} =>
        out.of.scopes \subseteq reg.scopes
    /\ out # None => \A n \in DOMAIN out.claims :
        /\ out.claims[n] # "hook" => n \in supportedClaims(cfg.scopeClaims)
        /\ out.claims[n] = "application" =>
            /\ n \notin protocolClaims
            /\ out.kind = "claims" =>
                \/ n \in Mapped(cfg.scopeClaims, out.of.scopes)
                \/ AskedFor(n, out.of.asked.claims.userinfo)
            /\ out.kind # "claims" =>
                \/ cfg.idTokenScopeClaims /\ n \in Mapped(cfg.scopeClaims, out.of.scopes)
                \/ AskedFor(n, out.of.asked.claims.id)

(***************************************************************************)
(* An ID token is only issued for the end-user and with the essential acr  *)
(* that the client asked for, although the claims request is reduced four  *)
(* times between the request and the token (claimsForClient,               *)
(* validateApproval, requestedEssentialACR).                               *)
(***************************************************************************)
LoginIsAsAsked ==
    out # None /\ out.kind \in {"tokens", "refreshed"} /\ DOMAIN out.claims # {} =>
        LET asked == out.of.asked
        IN  /\ "acr" \in asked.claims.id /\ asked.claims.essential => out.of.acr = "gold"
            /\ "sub" \in asked.claims.id => asked.claims.sub \in {"", out.of.subject}
            /\ asked.hint \in {"", out.of.subject}
==================================================================================
