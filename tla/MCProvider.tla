------------------------------ MODULE MCProvider ------------------------------
(* Constants for model checking Provider. *)
EXTENDS Provider, TLC

NoEndpoints == [n \in Names |-> <<>>]

Plain == [endpoints |-> NoEndpoints, par |-> "", base |-> <<>>, scopeClaims |-> <<>>,
          idTokenScopeClaims |-> FALSE, grants |-> {}, formats |-> {}, format |-> "",
          lifetime |-> 0, scheme |-> "https", host |-> "id.example", extra |-> FALSE]

(* A tenant below a path, with pushed requests; one that requires them and *)
(* moved the token endpoint to /par; one without them whose disabled       *)
(* endpoint has the path of the token endpoint; one with claims of its own,*)
(* a protocol claim among them; one whose issuer lies below /.well-known,  *)
(* with an endpoint in the place of the RFC 8414 metadata; and             *)
(* configurations that New rejects.                                        *)
Tenant == [Plain EXCEPT !.base = <<"/t">>, !.par = "allowed", !.grants = {"custom"}, !.lifetime = 1000]

MCConfigs ==
    {Plain, Tenant,
     [Tenant EXCEPT !.par = "required", !.idTokenScopeClaims = TRUE,
                    !.endpoints["token"] = <<"/par">>, !.endpoints["par"] = <<"/.well-known">>],
     [Plain EXCEPT !.endpoints["par"] = <<"/token">>, !.idTokenScopeClaims = TRUE],
     [Plain EXCEPT !.scopeClaims = [email |-> {"role", "acr"}], !.formats = {"paseto"}],
     [Plain EXCEPT !.base = <<"/.well-known">>,
                   !.endpoints["token"] = <<"/oauth-authorization-server", "/.well-known">>],
     [Tenant EXCEPT !.endpoints["par"] = <<"/token">>],
     [Plain EXCEPT !.endpoints["token"] = <<"x", "/token">>],
     [Plain EXCEPT !.endpoints["jwks"] = OpenIDConfiguration],
     [Plain EXCEPT !.scheme = "http"],
     [Plain EXCEPT !.lifetime = 999],
     [Plain EXCEPT !.scopeClaims = [openid |-> {"email"}]]}

MCSegments == {"/t", "/authorize", "/token", "/userinfo", "/introspect", "/revoke", "/jwks",
               "/par", "/.well-known", "/openid-configuration", "/oauth-authorization-server"}
MCTails == {"x"}

MCPaths ==
    LET known == {Default[n] : n \in Names}
                 \union {OpenIDConfiguration, ServerMetadata, <<"/.well-known">>}
    IN  known \union {<<"/t">> \o p : p \in known}
        \union {<<"/t", "x", "/token">>, ServerMetadata \o <<"/t">>}
        \union {ServerMetadata \o <<"/.well-known">>, <<"/.well-known", "/authorize">>,
                <<"/.well-known", "/jwks">>, <<"/.well-known">> \o OpenIDConfiguration}

Web  == [scheme |-> "https", host |-> "app.example", port |-> 443, path |-> "/cb",
         user |-> FALSE, fragment |-> FALSE]
Loop == [Web EXCEPT !.scheme = "http", !.host = "127.0.0.1", !.port = 80]
Own  == [Web EXCEPT !.scheme = "com.example.app"]

Confidential ==
    [method |-> "", secret |-> "hash", jwks |-> FALSE, pkce |-> "optional",
     grants |-> {"authorization_code", "refresh_token", "client_credentials"},
     scopes |-> {"openid", "offline_access", "email"}, redirects |-> {Web, Loop},
     format |-> "", audience |-> {}, lifetime |-> 0, requirePAR |-> FALSE]

Public == [Confidential EXCEPT !.secret = "", !.pkce = "", !.redirects = {Loop},
                               !.grants = {"authorization_code", "refresh_token"}]

MCRegistrations ==
    {Confidential, Public,
     [Confidential EXCEPT !.scopes = {"openid", "offline_access"}, !.method = "client_secret_post",
                          !.pkce = "unless_nonce"],
     [Confidential EXCEPT !.secret = "", !.jwks = TRUE, !.redirects = {Own}, !.grants = {}],
     [Public EXCEPT !.pkce = "optional"],
     [Confidential EXCEPT !.format = "jwt"]}

Params == [id |-> ClientID, redirect |-> Web, mode |-> "", objectMode |-> "", object |-> FALSE,
           type |-> "code", scopes |-> {"openid", "offline_access"}, challenge |-> FALSE,
           nonce |-> FALSE, repeated |-> {}, hint |-> "", claims |-> NoClaims]

(* Requests for claims by name, for a login, for another port, for a form, *)
(* and ones that are refused.                                              *)
MCAuthParams ==
    {[Params EXCEPT !.scopes = {"openid", "email"}, !.nonce = TRUE],
     [Params EXCEPT !.claims = [NoClaims EXCEPT !.id = {"email", "role", "acr"}, !.essential = TRUE]],
     [Params EXCEPT !.redirect = [Loop EXCEPT !.port = 8080], !.challenge = TRUE, !.hint = "alice",
                    !.claims = [NoClaims EXCEPT !.userinfo = {"email", "name"}]],
     [Params EXCEPT !.claims = [NoClaims EXCEPT !.id = {"sub"}, !.sub = "bob"], !.hint = "alice"],
     [Params EXCEPT !.claims = [NoClaims EXCEPT !.id = {"sub"}, !.sub = "bob"], !.nonce = TRUE],
     [Params EXCEPT !.redirect = [Web EXCEPT !.port = 8443]],
     [Params EXCEPT !.redirect = Own, !.mode = "form_post"],
     [Params EXCEPT !.redirect = None, !.scopes = {"email"}, !.challenge = TRUE,
                    !.object = TRUE, !.objectMode = "form_post"],
     [Params EXCEPT !.redirect = None, !.scopes = {}],
     [Params EXCEPT !.redirect = Loop],
     [Params EXCEPT !.repeated = {"redirect_uri"}],
     [Params EXCEPT !.id = "other"]}

(* Approvals of some or all of what was asked, and of more. *)
MCScopeSets ==
    {{}, {"email"}, {"openid"}, {"offline_access"}, {"openid", "offline_access"},
     {"openid", "email"}, {"openid", "email", "profile"}}

MCApprovals ==
    [scopes : MCScopeSets, subject : {"alice", "bob"}, acr : {"", "gold"},
     claims : {{}, {"email"}, {"email", "name"}, {"email", "role"}}]

Anonymous == [id |-> ClientID, basic |-> NoBasic, post |-> "", assertion |-> "", sub |-> "",
              repeated |-> FALSE]
Basic == [Anonymous EXCEPT !.basic = [id |-> ClientID, secret |-> "secret"]]

MCCredentials ==
    {Anonymous, Basic,
     [Basic EXCEPT !.id = "other"],
     [Basic EXCEPT !.post = "secret"],
     [Anonymous EXCEPT !.post = "secret"],
     [Anonymous EXCEPT !.post = "wrong"],
     [Anonymous EXCEPT !.assertion = "signed", !.sub = ClientID],
     [Anonymous EXCEPT !.assertion = "signed", !.sub = ClientID, !.id = "other"],
     [Basic EXCEPT !.repeated = TRUE]}
===============================================================================
