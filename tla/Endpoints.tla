------------------------------- MODULE Endpoints -------------------------------
(***************************************************************************)
(* The paths of the protocol endpoints: their defaults and validation      *)
(* (endpoints.go), the routing of requests (Provider.route) and the        *)
(* endpoints that discovery publishes.                                     *)
(*                                                                         *)
(* A path is a sequence of pieces.  A piece in Segments begins with "/"; a *)
(* piece in Tails continues the segment before it, so that <<"/t", "x">>   *)
(* is the path /tx.  A piece in neither has characters that are not path   *)
(* characters.  Pieces are chosen so that every path is written in one     *)
(* way, which makes the prefixes of sequences the prefixes of strings that *)
(* end at a piece.                                                         *)
(***************************************************************************)
EXTENDS Sequences, Naturals

CONSTANTS Segments, Tails

(* The fields of Endpoints. *)
Names == {"authorization", "token", "userinfo", "introspection",
          "revocation", "jwks", "par"}

Default ==
    [authorization |-> <<"/authorize">>, token |-> <<"/token">>,
     userinfo |-> <<"/userinfo">>, introspection |-> <<"/introspect">>,
     revocation |-> <<"/revoke">>, jwks |-> <<"/jwks">>, par |-> <<"/par">>]

OpenIDConfiguration == <<"/.well-known", "/openid-configuration">>
ServerMetadata      == <<"/.well-known", "/oauth-authorization-server">>

(* The pieces of the well-known paths begin with "/". *)
ASSUME PiecesAssumption ==
    Tails \intersect {OpenIDConfiguration[2], ServerMetadata[2]} = {}

StartsWith(path, prefix) ==
    /\ Len(prefix) <= Len(path)
    /\ SubSeq(path, 1, Len(prefix)) = prefix

(* An empty field takes the default. *)
setDefaults(e) == [n \in Names |-> IF e[n] = <<>> THEN Default[n] ELSE e[n]]

Served(par) == IF par THEN Names ELSE Names \ {"par"}

WellFormed(path) ==
    /\ path # <<>>
    /\ path[1] \in Segments
    /\ \A i \in DOMAIN path : path[i] \in Segments \union Tails

BelowWellKnown(path) ==
    /\ Len(path) >= 2
    /\ path[1] = "/.well-known"
    /\ path[2] \in Segments

(* Mutant of validate: two endpoints may share a path. *)
validateSharing(e, par) ==
    \A n \in Served(par) : WellFormed(e[n]) /\ ~BelowWellKnown(e[n])

(* The path of an endpoint that is not served is not looked at. *)
validate(e, par) ==
    /\ \A n \in Served(par) : WellFormed(e[n]) /\ ~BelowWellKnown(e[n])
    /\ \A n, m \in Served(par) : e[n] = e[m] => n = m

(***************************************************************************)
(* The endpoint that serves a path, or "none" for 404.  The RFC 8414 path  *)
(* is compared as a whole; for the rest the path of the issuer is cut off. *)
(* validate makes the choice among the endpoints unique.                   *)
(***************************************************************************)
route(e, par, base, path) ==
    LET rel == SubSeq(path, Len(base) + 1, Len(path))
    IN  IF path = ServerMetadata \o base THEN "discovery"
        ELSE IF ~StartsWith(path, base) THEN "none"
        ELSE IF \E n \in Served(par) : rel = e[n] THEN CHOOSE n \in Served(par) : rel = e[n]
        ELSE IF rel = OpenIDConfiguration THEN "discovery"
        ELSE "none"

(* The endpoint URLs of the discovery document, below the issuer's host. *)
Published(e, par, base) == [n \in Served(par) |-> base \o e[n]]
================================================================================
