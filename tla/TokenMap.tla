------------------------------ MODULE TokenMap ------------------------------
(***************************************************************************)
(* The token records of grantor (records.go, type Token) and the effect of *)
(* each Storage method on the map that memory.Store keeps them in          *)
(* (memory/memory.go, field tokens).  The operators are pure: a module     *)
(* with state applies them to its own variables, one call per step, which  *)
(* is the atomicity that the mutex of memory.Store gives every method.     *)
(*                                                                         *)
(* A token value and its SHA-256 hash are one number: values come from     *)
(* randomToken, are never repeated, and the map is keyed by their hash.    *)
(* An absent key is the model value NotFound, after grantor.ErrNotFound.   *)
(***************************************************************************)
EXTENDS Integers

CONSTANTS
    MaxValues,   \* bound: how many token values randomToken may return
    MaxGrants,   \* bound: how many grant IDs randomToken may return
    Issuers,     \* issuer URLs served by one provider
    ClientIDs,   \* client identifiers, registered per issuer
    Scopes,      \* scope names
    Audiences,   \* audience names
    NotFound     \* the absent record

ASSUME BoundsAssumption ==
    /\ MaxValues \in Nat
    /\ MaxGrants \in Nat

Values == 1 .. MaxValues
Grants == 1 .. MaxGrants

(* TokenKind of records.go. *)
Kinds == {"authorization_code", "refresh_token", "access_token"}

(***************************************************************************)
(* The fields of a Token that the checks of the endpoints read.  challenge *)
(* and redirectSent say whether CodeChallenge is set and what              *)
(* RedirectURIInRequest holds; subject whether there is an end-user;       *)
(* consumed whether ConsumedAt is non-zero.                                *)
(***************************************************************************)
Token == [kind         : Kinds,
          grant        : Grants,
          issuer       : Issuers,
          client       : ClientIDs,
          subject      : BOOLEAN,
          scopes       : SUBSET Scopes,
          audience     : SUBSET Audiences,
          challenge    : BOOLEAN,
          redirectSent : BOOLEAN,
          expiresAt    : Nat,
          consumed     : BOOLEAN]

ASSUME NotFoundAssumption == NotFound \notin Token

TokenMaps == [Values -> Token \union {NotFound}]

NoTokensStored == [v \in Values |-> NotFound]

Has(tokens, v) == tokens[v] # NotFound

(***************************************************************************)
(* The part of collectLocked that concerns tokens: at most once per        *)
(* interval, records whose expiry lies strictly in the past are dropped,   *)
(* whether or not they were consumed.                                      *)
(***************************************************************************)
CollectionDue(now, last, interval) == now - last >= interval

Expired(t, now) == now > t.expiresAt

Collected(tokens, now) ==
    [v \in Values |-> IF Has(tokens, v) /\ Expired(tokens[v], now)
                      THEN NotFound ELSE tokens[v]]

(* CreateToken once the collection is done; a taken key is ErrConflict. *)
WithToken(tokens, v, t) == [tokens EXCEPT ![v] = t]

(* ConsumeToken of a present token: ConsumedAt is set once and kept. *)
WithConsumed(tokens, v) == [tokens EXCEPT ![v].consumed = TRUE]

(* RevokeToken: deleting an unknown key is not an error. *)
WithoutToken(tokens, v) == [tokens EXCEPT ![v] = NotFound]

(* Mutant of WithoutGrant: tokens that were used are kept. *)
WithoutUnusedOfGrant(tokens, g) ==
    [v \in Values |-> IF /\ Has(tokens, v)
                         /\ tokens[v].grant = g /\ ~tokens[v].consumed
                      THEN NotFound ELSE tokens[v]]

(* RevokeGrant: every token of the grant is deleted under one lock. *)
WithoutGrant(tokens, g) ==
    [v \in Values |-> IF Has(tokens, v) /\ tokens[v].grant = g
                      THEN NotFound ELSE tokens[v]]
=============================================================================
