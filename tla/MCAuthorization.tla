--------------------------- MODULE MCAuthorization ---------------------------
(* Constants for model checking Authorization. *)
EXTENDS AuthorizationLife, TLC

(* A confidential client that may do everything. *)
OpenClient == [code |-> TRUE, redirects |-> Redirects, scopes |-> Scopes,
               audience |-> Audiences, pkce |-> "required", par |-> FALSE]

MCOpenClient == {OpenClient}

(* Registrations that require PAR and lose a redirect URI, a scope and the *)
(* audience but may omit PKCE, or that lose the grant.                     *)
MCRegistrations ==
    {OpenClient,
     [OpenClient EXCEPT !.pkce = "unless_nonce", !.redirects = {"https://a"},
                        !.scopes = {"openid"}, !.audience = {}, !.par = TRUE],
     [OpenClient EXCEPT !.code = FALSE]}

Plain == [redirect |-> "https://a", scopes |-> {}, challenge |-> TRUE,
          nonce |-> FALSE, login |-> FALSE, maxAge |-> None]

MCPlain == {Plain}

MCNoParams == {}

MCParams ==
    {[Plain EXCEPT !.scopes = {"openid"}, !.maxAge = 1],
     [Plain EXCEPT !.redirect = NoRedirect],
     [Plain EXCEPT !.scopes = {"openid", "mail"}, !.challenge = FALSE,
                   !.nonce = TRUE, !.maxAge = 0]}

(* What the application may turn a request into. *)
MCAdjustments ==
    {[Plain EXCEPT !.redirect = "https://b", !.challenge = FALSE, !.scopes = Scopes],
     [Plain EXCEPT !.challenge = FALSE, !.nonce = TRUE, !.scopes = {"openid"}, !.login = TRUE]}

MCSymmetry == Permutations(Procs) \union Permutations(Agents)
==============================================================================
