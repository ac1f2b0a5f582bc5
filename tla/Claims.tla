--------------------------------- MODULE Claims ---------------------------------
(***************************************************************************)
(* Which end-user claims a client receives (claims.go, ClaimsRequest in    *)
(* records.go).  Claim and scope names are those of the standard that the  *)
(* rules tell apart: profile and email map to one claim each.              *)
(***************************************************************************)

(* A claims request: the names asked for in the ID token and at UserInfo.  *)
(* essential says that the acr entry of the ID token part is essential,    *)
(* for the value "gold"; sub is the value of its sub entry, or "".         *)
ClaimsRequest ==
    [id : SUBSET STRING, userinfo : SUBSET STRING, essential : BOOLEAN, sub : STRING]

NoClaims == [id |-> {}, userinfo |-> {}, essential |-> FALSE, sub |-> ""]

standardScopeClaims == [profile |-> {"name"}, email |-> {"email"}]

(* Set by the provider, never taken from the application. *)
protocolClaims == {"iss", "sub", "acr", "auth_time"}

(* The configuration replaces the standard claims of a scope. *)
scopeClaims(custom, s) ==
    IF s \in DOMAIN custom THEN custom[s]
    ELSE IF s \in DOMAIN standardScopeClaims THEN standardScopeClaims[s]
    ELSE {}

Mapped(custom, scopes) == UNION {scopeClaims(custom, s) : s \in scopes}

filter(c, keep) == [c EXCEPT !.id = @ \intersect keep, !.userinfo = @ \intersect keep]

requestedNames(c) == (c.id \union c.userinfo) \ protocolClaims

(* Mutant of claimsForClient: requests that only affect authentication  *)
(* are dropped with the rest.                                              *)
claimsForClientMapped(custom, registered, c) == filter(c, Mapped(custom, registered))

(***************************************************************************)
(* A request reduced to what the client is registered for.  sub, acr and   *)
(* auth_time stay, because they affect authentication.                     *)
(***************************************************************************)
claimsForClient(custom, registered, c) ==
    filter(c, Mapped(custom, registered) \union {"sub", "acr", "auth_time"})

allowedClaims(custom, scopes, requested, includeScopes) ==
    (IF includeScopes THEN Mapped(custom, scopes) ELSE {}) \union requested

(* held is what Config.Claims returns. *)
endUserClaims(held, allowed) == (held \intersect allowed) \ protocolClaims

requestedEssentialACR(c) == "acr" \in c.id /\ c.essential

(* The sub value that restricts the end-user, or "". *)
requestedSub(c) == IF "sub" \in c.id THEN c.sub ELSE ""

(* The claims that discovery lists. *)
supportedClaims(custom) ==
    {"iss", "sub", "acr", "auth_time"}
    \union (UNION {standardScopeClaims[s] : s \in DOMAIN standardScopeClaims})
    \union (UNION {custom[s] : s \in DOMAIN custom})

(* The claims of an ID token with their origin: those of the end-user, then *)
(* those of the hook, then those of the provider, each over the former.     *)
issueIDToken(custom, held, scopeClaimsToo, t, extra) ==
    LET mine == {"iss", "sub", "auth_time"} \union (IF t.acr # "" THEN {"acr"} ELSE {})
        user == endUserClaims(held, allowedClaims(custom, t.scopes, t.claims.id, scopeClaimsToo))
    IN  [n \in user \union extra \union mine |->
            IF n \in mine THEN "provider" ELSE IF n \in extra THEN "hook" ELSE "application"]

(* The claims of a UserInfo response with their origin. *)
userInfo(custom, held, t) ==
    LET user == endUserClaims(held, allowedClaims(custom, t.scopes, t.claims.userinfo, TRUE))
    IN  [n \in user \union {"sub"} |-> IF n = "sub" THEN "provider" ELSE "application"]
==================================================================================
