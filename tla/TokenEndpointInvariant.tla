------------------------ MODULE TokenEndpointInvariant ------------------------
(***************************************************************************)
(* The inductive invariant behind the theorems of TokenEndpointProofs.     *)
(* RevokedGrantStaysDead is not inductive: a step of an exchange that is   *)
(* under way can break it, so the invariant says what handlers know about  *)
(* their source token, about the tokens they minted and about their grant. *)
(***************************************************************************)
EXTENDS TokenEndpoint

(* Requests that bring a token, and requests that start a grant. *)
Lookups == Exchanges \union Reads \union {"revoke"}
Starts  == Direct \union {"approve"}

Fresh == {"idle", "load", "check", "issue", "act", "answer"}
Holds == {"store", "store_refresh", "consume", "respond", "discard",
          "discard_refresh"}

(* What a handler's position says about its request and its records. *)
HandlerOK(h) ==
    /\ pc[h] = "idle" => src[h] = NotFound
    /\ pc[h] # "idle" => req[h] \in Request
    /\ (pc[h] # "idle" /\ req[h].op \in Lookups) => req[h].value \in disclosed
    /\ pc[h] \notin {"idle", "load"} => src[h] \in Token
    /\ pc[h] \in Fresh => out[h] = NoTokens
    /\ pc[h] \in Holds => out[h].main # 0
    /\ pc[h] \in {"store_refresh", "discard_refresh"} => out[h].refresh # 0
    /\ out[h].main = 0 => out[h] = NoTokens
    /\ out[h].main # 0 => out[h].at \in Token
    /\ out[h].refresh # 0 => out[h].rt \in Token /\ out[h].refresh # out[h].main
    /\ pc[h] \in {"check", "consume", "reuse"} => req[h].op \in Exchanges
    /\ pc[h] = "load" => req[h].op \in Lookups /\ src[h] = NotFound
    /\ pc[h] \in {"act", "answer"} => req[h].op \in Lookups \ Exchanges
    /\ pc[h] \in {"issue"} \union Holds => req[h].op \in Exchanges \union Starts

(* Values are handed out once, and minted values belong to one handler. *)
ValuesOK ==
    /\ \A v \in Values : v >= nextValue => v \notin disclosed /\ ~Has(tokens, v)
    /\ \A h \in Procs : \A v \in MintedValues(h) :
          v < nextValue /\ v \notin disclosed
    /\ \A h, k \in Procs :
          h # k => MintedValues(h) \intersect MintedValues(k) = {}

(* Grant IDs are handed out once. *)
GrantsOK ==
    /\ \A v \in Values : Has(tokens, v) => tokens[v].grant < nextGrant
    /\ \A h \in Procs : src[h] # NotFound => src[h].grant < nextGrant
    /\ \A g \in revoked : g < nextGrant

(* A minted token is of the handler's grant, before and after it is stored.*)
RecordsOK(h) ==
    /\ out[h].main # 0 => out[h].at.grant = src[h].grant
    /\ out[h].refresh # 0 => out[h].rt.grant = src[h].grant
    /\ \A v \in MintedValues(h) :
          Has(tokens, v) => tokens[v].grant = src[h].grant

(* The store still has the token a request brought, if at all, in the      *)
(* grant the handler read.                                                 *)
SourceOK(h) ==
    (/\ pc[h] \notin {"idle", "load"}
     /\ req[h].op \in Lookups
     /\ Has(tokens, req[h].value))
        => tokens[req[h].value].grant = src[h].grant

(* A grant that is being started is known to nobody else. *)
PrivateOK(h) ==
    pc[h] # "idle" /\ req[h].op \in Starts =>
        /\ src[h].grant \notin revoked
        /\ \A v \in disclosed : Has(tokens, v) => tokens[v].grant # src[h].grant
        /\ \A k \in Procs \ {h} :
              src[k] # NotFound => src[k].grant # src[h].grant

(* Tokens about to be returned are revoked with their grant. *)
RespondOK(h) ==
    At(h, "respond") => \A v \in MintedValues(h) :
        Has(tokens, v) => src[h].grant \notin revoked

(* A used token is marked, as long as the store has it. *)
UsedOK ==
    /\ \A x \in issued : /\ x.used \in disclosed
                         /\ Has(tokens, x.used) => tokens[x.used].consumed
    /\ \A h \in Procs : Winning(h) /\ Has(tokens, req[h].value) =>
                            tokens[req[h].value].consumed

HandlersOK == \A h \in Procs : HandlerOK(h)

Safe ==
    /\ ValuesOK
    /\ GrantsOK
    /\ \A h \in Procs : RecordsOK(h)
    /\ \A h \in Procs : SourceOK(h)
    /\ \A h \in Procs : PrivateOK(h)
    /\ \A h \in Procs : RespondOK(h)
    /\ RevokedGrantStaysDead
    /\ UsedOK
    /\ AtMostOneExchange

(***************************************************************************)
(* The inductive invariant: what every handler of the token, revocation    *)
(* and introspection endpoints relies on between two Storage calls.        *)
(***************************************************************************)
Inductive == TypeOK /\ HandlersOK /\ Safe
=============================================================================
