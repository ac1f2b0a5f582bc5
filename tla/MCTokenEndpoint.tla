--------------------------- MODULE MCTokenEndpoint ---------------------------
(* Constants for model checking TokenEndpoint. *)
EXTENDS TokenEndpointLife, TLC

(* A confidential client that may do everything. *)
FullClient == [grants |-> GrantTypes, scopes |-> Scopes, audience |-> Audiences,
               public |-> FALSE, introspect |-> FALSE]

(* A client for code and refresh exchanges only. *)
CodeClient == [FullClient EXCEPT !.grants = Exchanges]

MCCodeClient == {CodeClient}
MCFullClient == {FullClient}

(* Registrations that lose a scope, the audience or the refresh grant. *)
MCRegistrations ==
    {FullClient,
     [FullClient EXCEPT !.scopes = Scopes \ {"offline_access"}],
     [FullClient EXCEPT !.audience = {}, !.grants = GrantTypes \ {"refresh_token"}]}

MCPkce   == {[challenge |-> TRUE, redirectSent |-> FALSE]}
MCProven == {[verifier |-> "match", redirect |-> "absent"]}

(* Codes with and without PKCE; requests with one proof, right or wrong,   *)
(* or none.                                                                *)
MCShapes    == Shapes
MCAllProofs == {pf \in Proof : "absent" \in {pf.verifier, pf.redirect}}

MCProcSymmetry == Permutations(Procs)
=============================================================================
