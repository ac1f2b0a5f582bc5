------------------------------ MODULE GrantLife ------------------------------
(***************************************************************************)
(* What the token endpoint of grantor promises its clients, without        *)
(* handlers, storage calls or failures.  A token value is secret until a   *)
(* response carries it; from then on it is valid in one grant until it is  *)
(* gone for good.  A code or refresh token is exchanged at most once, and  *)
(* nothing that is issued after a grant ended is valid in it.              *)
(*                                                                         *)
(* TokenEndpointLife shows that the handlers of token.go, revoke.go and    *)
(* approve.go implement this specification.                                *)
(***************************************************************************)
CONSTANTS Values, Grants, Secret, Gone

VARIABLES
    held,    \* Secret, Gone, or the grant in which a value is valid
    used,    \* the codes and refresh tokens that were exchanged
    ended    \* the grants that were revoked

life == <<held, used, ended>>

LifeOK ==
    /\ held \in [Values -> Grants \union {Secret, Gone}]
    /\ used \subseteq Values
    /\ ended \subseteq Grants

Init ==
    /\ held = [v \in Values |-> Secret]
    /\ used = {}
    /\ ended = {}

(* A response carries values that were secret; by the time it is sent,     *)
(* some may have expired or been revoked already.                          *)
Disclose(g) ==
    /\ held' \in [Values -> Grants \union {Secret, Gone}]
    /\ \A v \in Values :
        \/ held'[v] = held[v]
        \/ held[v] = Secret /\ held'[v] = Gone
        \/ held[v] = Secret /\ held'[v] = g /\ g \notin ended
    /\ UNCHANGED ended

(* Approve, client credentials and custom grants start a grant. *)
Start(g) ==
    /\ \A v \in Values : held[v] # g
    /\ g \notin ended
    /\ Disclose(g)
    /\ UNCHANGED used

(* A code or refresh token buys new tokens of its own grant, once. *)
Exchange(v, g) ==
    /\ v \notin used
    /\ used' = used \union {v}
    /\ held[v] \in {g, Gone}
    /\ Disclose(g)

(* Values expire or are revoked one by one. *)
Drop ==
    /\ held' \in [Values -> Grants \union {Secret, Gone}]
    /\ \A v \in Values :
        held'[v] # held[v] => held[v] # Secret /\ held'[v] = Gone
    /\ UNCHANGED <<used, ended>>

(* Reuse detection and the revocation of a refresh token end the grant. *)
End(g) ==
    /\ held' = [v \in Values |-> IF held[v] = g THEN Gone ELSE held[v]]
    /\ ended' = ended \union {g}
    /\ UNCHANGED used

Next ==
    \/ Drop
    \/ \E g \in Grants : Start(g) \/ End(g)
    \/ \E v \in Values, g \in Grants : Exchange(v, g)

Spec == Init /\ [][Next]_life
==============================================================================
