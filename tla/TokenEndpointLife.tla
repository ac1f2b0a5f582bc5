-------------------------- MODULE TokenEndpointLife --------------------------
(***************************************************************************)
(* TokenEndpoint implements GrantLife.  A value that was sent in a response*)
(* is valid in the grant of its stored record and gone when the store does *)
(* not have it; ConsumedAt, the handlers and what they store before they   *)
(* answer are hidden.                                                      *)
(***************************************************************************)
EXTENDS TokenEndpointInvariant

(* Model values that are no grants stand for Secret and Gone. *)
ASSUME LifeAssumption ==
    /\ None \notin Grants
    /\ NotFound \notin Grants
    /\ None # NotFound

heldBar ==
    [v \in Values |-> IF v \notin disclosed THEN None
                      ELSE IF Has(tokens, v) THEN tokens[v].grant ELSE NotFound]

usedBar == {x.used : x \in issued}

Life == INSTANCE GrantLife WITH
            Secret <- None, Gone <- NotFound,
            held <- heldBar, used <- usedBar, ended <- revoked

(***************************************************************************)
(* However the handlers of token.go, revoke.go and approve.go interleave,  *)
(* fail or crash, clients see what GrantLife promises: each code or refresh*)
(* token is exchanged once for tokens of its own grant, tokens that are    *)
(* gone never come back, and nothing is valid in a grant that ended.       *)
(***************************************************************************)
ImplementsGrantLife == Life!Spec
==============================================================================
