-------------------------------- MODULE Clients --------------------------------
(***************************************************************************)
(* The rules of a registered client: how it authenticates, what makes its  *)
(* registration valid, and which redirect URIs it may use (client.go,      *)
(* authenticateClient in clientauth.go).                                   *)
(*                                                                         *)
(* A URI is a record of the parts the rules read; its path includes the    *)
(* query.  A secret hash is "" (none), "hash" (of the secret "secret") or  *)
(* "junk" (not a SHA-256 hash).                                            *)
(***************************************************************************)
EXTENDS FiniteSets, Naturals

SecretMethods == {"client_secret_basic", "client_secret_post"}

authMethod(c) ==
    IF c.method # "" THEN c.method
    ELSE IF c.secret # "" THEN "client_secret_basic"
    ELSE IF c.jwks THEN "private_key_jwt"
    ELSE "none"

isPublic(c) == authMethod(c) = "none"

usesSecret(c) == authMethod(c) \in SecretMethods

verifySecret(c, secret) == c.secret = "hash" /\ secret = "secret"

(* Mutant of pkcePolicy: a client that says nothing may omit PKCE. *)
pkcePolicyOptional(c) == IF c.pkce = "" THEN "optional" ELSE c.pkce

pkcePolicy(c) == IF c.pkce = "" \/ isPublic(c) THEN "required" ELSE c.pkce

checkPKCEPolicy(c, openid, nonce) ==
    \/ pkcePolicy(c) = "optional"
    \/ pkcePolicy(c) = "unless_nonce" /\ openid /\ nonce

grantTypes(c) == IF c.grants = {} THEN {"authorization_code"} ELSE c.grants

allowsGrant(c, g) == g \in grantTypes(c)

----------------------------------------------------------------------------
(* Redirect URIs.                                                          *)

URI == [scheme : STRING, host : STRING, port : Nat, path : STRING,
        user : BOOLEAN, fragment : BOOLEAN]

isLoopbackIP(host) == host \in {"127.0.0.1", "[::1]"}

isHTTPURL(u) == u.scheme \in {"http", "https"}

(* Absolute, without fragment, and http, https or a reverse domain name. *)
validateRedirectURI(u) ==
    /\ u.scheme # ""
    /\ ~u.fragment
    /\ isHTTPURL(u) \/ u.scheme = "com.example.app"

(* Everything but the port of a loopback address has to match. *)
loopbackMatch(registered, requested) ==
    /\ registered.scheme = "http" /\ requested.scheme = "http"
    /\ isLoopbackIP(registered.host)
    /\ requested.host = registered.host
    /\ ~requested.user /\ ~registered.user /\ ~requested.fragment
    /\ requested.path = registered.path

(* Mutant of matchRedirectURI: the port of any host may vary. *)
matchRedirectURIAnyHost(c, u) ==
    \E r \in c.redirects : [u EXCEPT !.port = r.port] = r

matchRedirectURI(c, u) ==
    \E r \in c.redirects : u = r \/ loopbackMatch(r, u)

----------------------------------------------------------------------------
(* Registrations.                                                          *)

(* A lifetime is in seconds, 0 when it is not set and -1 when it is shorter *)
(* than a second.                                                           *)
validateClient(c) ==
    /\ CASE usesSecret(c)                       -> c.secret = "hash"
         [] authMethod(c) = "private_key_jwt"   -> c.jwks
         [] isPublic(c) -> c.secret = "" /\ ~allowsGrant(c, "client_credentials")
         [] OTHER                               -> FALSE
    /\ c.lifetime >= 0
    /\ c.format = "jwt" => c.audience # {}
    /\ \/ c.pkce \in {"", "required"}
       \/ c.pkce \in {"unless_nonce", "optional"} /\ ~isPublic(c)
    /\ "" \notin grantTypes(c)
    /\ \A u \in c.redirects : validateRedirectURI(u)

----------------------------------------------------------------------------
(***************************************************************************)
(* Authentication.  lookup(id) is the outcome of Provider.client for an    *)
(* ID: "unknown", "invalid" or "ok"; c is the registration it finds.       *)
(* q.basic is the ID and secret of an Authorization header, or NoBasic;    *)
(* q.post and q.assertion are the parameters, "" when absent; an assertion *)
(* "signed" is one that verifyClientAssertion accepts for its client when  *)
(* the client uses private_key_jwt.  The result is "ok", with the client   *)
(* ID Named(q), or an error.                                               *)
(***************************************************************************)
NoBasic == [id |-> "", secret |-> ""]

MethodsUsed(q) ==
    (IF q.basic # NoBasic THEN {"basic"} ELSE {})
    \union (IF q.post # "" THEN {"post"} ELSE {})
    \union (IF q.assertion # "" THEN {"assertion"} ELSE {})

(* The client that the credentials name; an assertion names its subject. *)
Named(q) ==
    IF q.basic # NoBasic THEN q.basic.id
    ELSE IF q.post = "" /\ q.assertion # "" THEN q.sub
    ELSE q.id

lookupAuthenticatingClient(found) ==
    CASE found = "unknown" -> "invalid_client"
      [] found = "invalid" -> "server_error"
      [] OTHER             -> "ok"

authenticateWithSecret(c, found, secret) ==
    IF found # "ok" THEN lookupAuthenticatingClient(found)
    ELSE IF usesSecret(c) /\ verifySecret(c, secret) THEN "ok"
    ELSE "invalid_client"

(* Mutant of authenticateClient: a client that names itself without a   *)
(* credential is believed whatever its method.                             *)
authenticateClientByName(c, found, q) ==
    IF Cardinality(MethodsUsed(q)) > 1 THEN "invalid_request"
    ELSE IF q.basic # NoBasic THEN authenticateWithSecret(c, found, q.basic.secret)
    ELSE IF q.post # "" THEN authenticateWithSecret(c, found, q.post)
    ELSE lookupAuthenticatingClient(found)

authenticateClient(c, found, q) ==
    IF Cardinality(MethodsUsed(q)) > 1 THEN "invalid_request"
    ELSE IF q.basic # NoBasic THEN
        IF q.id \notin {"", q.basic.id} THEN "invalid_request"
        ELSE authenticateWithSecret(c, found, q.basic.secret)
    ELSE IF q.post # "" THEN authenticateWithSecret(c, found, q.post)
    ELSE IF q.assertion # "" THEN
        IF q.assertion # "signed" THEN "invalid_client"
        ELSE IF found # "ok" THEN lookupAuthenticatingClient(found)
        ELSE IF authMethod(c) # "private_key_jwt" THEN "invalid_client"
        ELSE IF q.id \notin {"", q.sub} THEN "invalid_request"
        ELSE "ok"
    ELSE
        IF found # "ok" THEN lookupAuthenticatingClient(found)
        ELSE IF isPublic(c) THEN "ok"
        ELSE "invalid_client"
================================================================================
