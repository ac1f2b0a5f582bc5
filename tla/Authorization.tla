---------------------------- MODULE Authorization ----------------------------
(***************************************************************************)
(* The authorization endpoint of grantor: pushed authorization requests,   *)
(* requests sent in the URL, saved requests that wait for the end-user,    *)
(* and their completion with Approve or Deny.                              *)
(*                                                                         *)
(* Every HTTP request is a handler that runs concurrently with the others. *)
(* Its steps are its calls of Storage and of the client store; pc[h] names *)
(* the next one.  At "held" the application has an unsaved request in its  *)
(* hands: it may change it, and then push, save, approve or deny it.  A    *)
(* call that fails returns the request to the application; a saved request *)
(* is completed by a later HTTP request.  Requests that are refused before *)
(* the first call change nothing and are left out.                         *)
(*                                                                         *)
(* Faults are those of TokenEndpoint: "error" before and "late" after the  *)
(* effect of a call, and "crash" between two calls.                        *)
(***************************************************************************)
EXTENDS Integers, FiniteSets

CONSTANTS
    Procs,            \* HTTP requests that can run at the same time
    Agents,           \* user agents, each with its cookies
    Issuers,          \* issuer URLs
    ClientIDs,        \* client identifiers, registered per issuer
    Scopes,           \* scope names
    Audiences,        \* audience names
    Redirects,        \* redirect URIs
    Registrations,    \* what may be registered for a client
    Params,           \* request parameters that clients send
    Adjustments,      \* parameters that the application may put in their place
    PAR,              \* Config.PAR: "disabled", "allowed" or "required"
    Binding,          \* FALSE iff Config.DisableInteractionBinding
    RequestLifetime,  \* Lifetimes.AuthorizationRequest
    PushedLifetime,   \* Lifetimes.PushedAuthorizationRequest
    CollectInterval,  \* memory.Store collects at most once per interval
    MaxRequests,      \* bound: how many request IDs randomToken may return
    MaxTime,          \* bound: the clock stops here
    Faults,           \* subset of {"error", "late", "crash"}
    NoRedirect,       \* a request without redirect_uri
    NotFound,         \* the absent record
    None              \* no agent, no answer

IDs == 1 .. MaxRequests

Registration == [code      : BOOLEAN,
                 redirects : SUBSET Redirects,
                 scopes    : SUBSET Scopes,
                 audience  : SUBSET Audiences,
                 pkce      : {"required", "unless_nonce", "optional"},
                 par       : BOOLEAN]

Param == [redirect  : Redirects \union {NoRedirect},
          scopes    : SUBSET Scopes,
          challenge : BOOLEAN,
          nonce     : BOOLEAN,
          login     : BOOLEAN,
          maxAge    : Nat \union {None}]

(* The fields of an AuthorizationRequest that the checks read.  pushed is  *)
(* the field Pushed, bound whether BindingHash is set.                     *)
Record == [issuer    : Issuers,
           client    : ClientIDs,
           redirect  : Redirects \union {NoRedirect},
           scopes    : SUBSET Scopes,
           audience  : SUBSET Audiences,
           challenge : BOOLEAN,
           nonce     : BOOLEAN,
           login     : BOOLEAN,
           maxAge    : Nat \union {None},
           pushed    : BOOLEAN,
           bound     : BOOLEAN,
           createdAt : Nat,
           expiresAt : Nat]

ASSUME ConstantsAssumption ==
    /\ Registrations \subseteq Registration
    /\ Params \subseteq Param
    /\ Adjustments \subseteq Param
    /\ PAR \in {"disabled", "allowed", "required"}
    /\ Binding \in BOOLEAN
    /\ RequestLifetime \in Nat
    /\ PushedLifetime \in Nat
    /\ CollectInterval \in Nat
    /\ MaxRequests \in Nat
    /\ MaxTime \in Nat
    /\ Faults \subseteq {"error", "late", "crash"}
    /\ NotFound \notin Record

VARIABLES
    now,              \* the clock of the provider and of the store
    clients,          \* registration of each client of each issuer
    requests,         \* memory.Store.requests
    par,              \* the IDs that have the prefix pushedIDPrefix
    lastCollection,   \* memory.Store.lastCollection
    nextID,           \* the next value randomToken returns
    disclosed,        \* IDs and request_uris that a caller was told
    cookies,          \* <<agent, id>>: the agent has the binding cookie of id
    pc,               \* the call each handler makes next
    call,             \* what each handler was asked to do
    held,             \* the AuthorizationRequest each handler works on
    lineage,          \* history: how each request in the store came about
    answered,         \* history: responses sent to the client, per request
    lost,             \* history: completed requests whose response was lost
    seen              \* history: registrations in force since the call of Approve

store   == <<requests, par, lastCollection, nextID>>
world   == <<now, clients, cookies, disclosed>>
history == <<lineage, answered, lost>>
vars    == <<store, world, pc, call, held, history, seen>>

(* origin is the pushed request that was redeemed, value the stored request*)
(* that the handler loads or completes; client is pushedBy or the parameter*)
(* client_id; scopes, audience and auth are the Approval.                  *)
Call == [op       : {"push", "choose", "redeem", "save", "approve", "deny"},
         agent    : Agents \union {None},
         issuer   : Issuers,
         client   : ClientIDs \union {None},
         value    : IDs \union {0},
         origin   : IDs \union {0},
         started  : Nat,
         scopes   : SUBSET Scopes,
         audience : SUBSET Audiences,
         auth     : Nat]

(* started is when the user agent arrived with the request, to expire when *)
(* the store may drop it.                                                  *)
Origin == [agent : Agents \union {None}, origin : IDs \union {0},
           started : Nat, expire : Nat]

PCs == {"idle", "held", "load", "check", "create", "delete", "recheck", "code"}

TypeOK ==
    /\ now \in 0 .. MaxTime
    /\ clients \in [Issuers \X ClientIDs -> Registrations]
    /\ requests \in [IDs -> Record \union {NotFound}]
    /\ par \subseteq IDs
    /\ lastCollection \in Int
    /\ nextID \in 1 .. MaxRequests + 1
    /\ disclosed \subseteq IDs
    /\ cookies \subseteq Agents \X IDs
    /\ pc \in [Procs -> PCs]
    /\ call \in [Procs -> Call \union {None}]
    /\ held \in [Procs -> Record \union {NotFound}]
    /\ lineage \in [IDs -> Origin \union {None}]
    /\ answered \in [IDs -> Nat]
    /\ lost \subseteq IDs
    /\ seen \in [Procs -> SUBSET Registrations]

Init ==
    /\ now = 0
    /\ clients \in [Issuers \X ClientIDs -> Registrations]
    /\ requests = [v \in IDs |-> NotFound]
    /\ par = {}
    /\ lastCollection = 0 - CollectInterval
    /\ nextID = 1
    /\ disclosed = {}
    /\ cookies = {}
    /\ pc = [h \in Procs |-> "idle"]
    /\ call = [h \in Procs |-> None]
    /\ held = [h \in Procs |-> NotFound]
    /\ lineage = [v \in IDs |-> None]
    /\ answered = [v \in IDs |-> 0]
    /\ lost = {}
    /\ seen = [h \in Procs |-> {}]

------------------------------------------------------------------------------
(* Control flow of a handler. *)

At(h, label) == pc[h] = label

Has(v) == requests[v] # NotFound

Reg(h) == clients[<<call[h].issuer, held[h].client>>]

Goto(h, label) ==
    /\ pc' = [pc EXCEPT ![h] = label]
    /\ UNCHANGED <<call, held>>

Finish(h) ==
    /\ pc' = [pc EXCEPT ![h] = "idle"]
    /\ call' = [call EXCEPT ![h] = None]
    /\ held' = [held EXCEPT ![h] = NotFound]
    /\ seen' = [seen EXCEPT ![h] = {}]

Begin(h, label, c, r) ==
    /\ At(h, "idle")
    /\ pc' = [pc EXCEPT ![h] = label]
    /\ call' = [call EXCEPT ![h] = c]
    /\ held' = [held EXCEPT ![h] = r]

(* A response about request v, which was redeemed from request origin. *)
Answered(v, origin) ==
    answered' = [w \in IDs |-> answered[w] + (IF w \in {v, origin} THEN 1 ELSE 0)]

(* A refused or failed call on an unsaved request returns it to the        *)
(* application, which may try again; otherwise the HTTP request ends.      *)
(* serveAuthorization tells the client that the request was not saved.     *)
Return(h) ==
    \/ /\ call[h].value = 0
       /\ pc' = [pc EXCEPT ![h] = "held"]
       /\ call' = [call EXCEPT ![h].op = IF @ = "push" THEN "push" ELSE "choose"]
       /\ held' = [held EXCEPT ![h].bound = FALSE]
       /\ seen' = [seen EXCEPT ![h] = {}]
       /\ UNCHANGED answered
    \/ /\ call[h].value # 0
       /\ Finish(h)
       /\ UNCHANGED answered
    \/ /\ call[h].op = "save"
       /\ Finish(h)
       /\ Answered(0, call[h].origin)

StorageError == "error" \in Faults /\ UNCHANGED store

(* collectLocked, for requests. *)
collectLocked ==
    IF now - lastCollection >= CollectInterval
    THEN [requests |-> [v \in IDs |-> IF Has(v) /\ now > requests[v].expiresAt
                                      THEN NotFound ELSE requests[v]],
          last |-> now]
    ELSE [requests |-> requests, last |-> lastCollection]

------------------------------------------------------------------------------
(* The checks of authorize.go, approve.go and pkce.go. *)

parRequired(reg) == PAR = "required" \/ reg.par

(* Provider.client refuses a registration that the configuration cannot    *)
(* serve.                                                                  *)
usable(reg) == reg.par => PAR # "disabled"

checkPKCEPolicy(reg, scopes, nonce) ==
    \/ reg.pkce = "optional"
    \/ reg.pkce = "unless_nonce" /\ "openid" \in scopes /\ nonce

(* authorizationTarget: redirect_uri may be left out when a plain OAuth    *)
(* client registered just one.                                             *)
redirectAllowed(reg, p) ==
    \/ p.redirect \in reg.redirects
    \/ /\ p.redirect = NoRedirect
       /\ "openid" \notin p.scopes
       /\ Cardinality(reg.redirects) = 1

target(reg, p) ==
    IF p.redirect = NoRedirect THEN CHOOSE u \in reg.redirects : TRUE
                               ELSE p.redirect

(* parseAuthorizationRequest: unregistered scopes are dropped silently. *)
parseable(reg, p, pushed) ==
    /\ usable(reg)
    /\ redirectAllowed(reg, p)
    /\ ~pushed => ~parRequired(reg)
    /\ reg.code
    /\ p.challenge \/ checkPKCEPolicy(reg, p.scopes \intersect reg.scopes, p.nonce)

parsed(i, c, reg, p, pushed) ==
    [issuer |-> i, client |-> c, redirect |-> target(reg, p),
     scopes |-> p.scopes \intersect reg.scopes, audience |-> reg.audience,
     challenge |-> p.challenge, nonce |-> p.nonce, login |-> p.login,
     maxAge |-> p.maxAge, pushed |-> pushed, bound |-> FALSE,
     createdAt |-> now, expiresAt |-> now + RequestLifetime]

checkDelivery(reg, r) == usable(reg) /\ r.redirect \in reg.redirects

checkRequest(reg, r) ==
    /\ checkDelivery(reg, r)
    /\ reg.code
    /\ r.scopes \subseteq reg.scopes
    /\ ~r.pushed => ~parRequired(reg)
    /\ r.audience \subseteq reg.audience
    /\ r.challenge \/ checkPKCEPolicy(reg, r.scopes, r.nonce)

(* Mutant: Pushed is believed. *)
checkUnsavedTrusting(h) == TRUE

(* An unsaved request comes from ParseAuthorizationRequest, and Pushed     *)
(* says truthfully whether it was redeemed.                                *)
checkUnsaved(h) == held[h].pushed = (call[h].origin # 0)

(* A tick is a second.  max_age=0 asks for a login as prompt=login does. *)
needsAuthentication(r, auth) ==
    \/ (r.login \/ r.maxAge = 0) /\ auth < r.createdAt
    \/ r.maxAge \notin {None, 0} /\ now - auth > r.maxAge

(* validateApproval and the audience check of Approve. *)
validateApproval(r, s, a, auth) ==
    /\ s \subseteq r.scopes
    /\ a \subseteq r.audience
    /\ "openid" \in r.scopes =>
          "openid" \in s /\ ~needsAuthentication(r, auth)

------------------------------------------------------------------------------
(* Requests arrive. *)

NewCall(op, ua, i, c, v) ==
    [op |-> op, agent |-> ua, issuer |-> i, client |-> c, value |-> v,
     origin |-> 0, started |-> now, scopes |-> {},
     audience |-> {}, auth |-> 0]

(* An authenticated client pushes a request. *)
BeginPush(h) ==
    /\ PAR # "disabled"
    /\ \E i \in Issuers, c \in ClientIDs, p \in Params :
        LET reg == clients[<<i, c>>] IN
        /\ parseable(reg, p, TRUE)
        /\ Begin(h, "held", NewCall("push", None, i, c, 0),
                 parsed(i, c, reg, p, TRUE))
    /\ UNCHANGED <<store, world, history, seen>>

(* A user agent brings a request in its URL. *)
BeginAuthorize(h) ==
    /\ \E ua \in Agents, i \in Issuers, c \in ClientIDs, p \in Params :
        LET reg == clients[<<i, c>>] IN
        /\ parseable(reg, p, FALSE)
        /\ Begin(h, "held", NewCall("choose", ua, i, c, 0),
                 parsed(i, c, reg, p, FALSE))
    /\ UNCHANGED <<store, world, history, seen>>

(* A user agent brings the request_uri of a pushed request. *)
BeginRedeem(h) ==
    /\ PAR # "disabled"
    /\ \E ua \in Agents, i \in Issuers, c \in ClientIDs, v \in disclosed :
        Begin(h, "load", NewCall("redeem", ua, i, c, v), NotFound)
    /\ UNCHANGED <<store, world, history, seen>>

(* The application completes a saved request whose ID it got from some     *)
(* user agent, passing its copy of the request.                            *)
BeginComplete(h) ==
    /\ \E ua \in Agents, i \in Issuers, v \in disclosed,
          op \in {"approve", "deny"} :
        Begin(h, "load", NewCall(op, ua, i, None, v), NotFound)
    /\ UNCHANGED <<store, world, history, seen>>

------------------------------------------------------------------------------
(* The application works on an unsaved request. *)

(* It may change every field that the checks protect, Pushed and ClientID  *)
(* included; it leaves the timestamps alone.                               *)
Adjust(h) ==
    /\ At(h, "held")
    /\ \E p \in Adjustments, c \in ClientIDs, a \in SUBSET Audiences, b \in BOOLEAN :
        held' = [held EXCEPT ![h] =
            [@ EXCEPT !.client = c, !.redirect = p.redirect, !.scopes = p.scopes,
                      !.audience = a, !.challenge = p.challenge,
                      !.nonce = p.nonce, !.login = p.login,
                      !.maxAge = p.maxAge, !.pushed = b]]
    /\ UNCHANGED <<store, world, pc, call, history, seen>>

(* PushAuthorizationRequest: pushedBy must be the client. *)
Push(h) ==
    /\ At(h, "held")
    /\ call[h].op = "push"
    /\ held[h].client = call[h].client
    /\ Goto(h, "check")
    /\ UNCHANGED <<store, world, history, seen>>

(* SaveAuthorizationRequest, Approve and Deny of an unsaved request. *)
Choose(h, op) ==
    /\ At(h, "held")
    /\ call[h].op = "choose"
    /\ checkUnsaved(h)
    /\ op # "save" => now < held[h].expiresAt
    /\ pc' = [pc EXCEPT ![h] = "check"]
    /\ call' = [call EXCEPT ![h].op = op]
    /\ seen' = [seen EXCEPT ![h] = {Reg(h)}]
    /\ UNCHANGED <<held, store, world, history>>

GiveUp(h) ==
    /\ At(h, "held")
    /\ Finish(h)
    /\ UNCHANGED <<store, world, history>>

------------------------------------------------------------------------------
(* Storage.AuthorizationRequest. *)

(* Mutant: loadPending does not look at the binding cookie. *)
loadableByAnyone(h) ==
    LET k == call[h]
        r == requests[k.value]
    IN
    /\ Has(k.value)
    /\ r.issuer = k.issuer
    /\ now < r.expiresAt
    /\ IF k.op = "redeem"
       THEN k.value \in par /\ r.pushed /\ r.client = k.client
       ELSE k.value \notin par

(* redeemPushedRequest sees only pushed requests, loadPending all others.  *)
(* A saved request answers to the agent that holds its binding cookie.     *)
loadable(h) ==
    LET k == call[h]
        r == requests[k.value]
    IN
    /\ Has(k.value)
    /\ r.issuer = k.issuer
    /\ now < r.expiresAt
    /\ IF k.op = "redeem"
       THEN k.value \in par /\ r.pushed /\ r.client = k.client
       ELSE /\ k.value \notin par
            /\ r.bound => <<k.agent, k.value>> \in cookies

LoadFinds(h) ==
    /\ At(h, "load")
    /\ loadable(h)
    /\ pc' = [pc EXCEPT ![h] = IF call[h].op = "redeem" THEN "delete" ELSE "check"]
    /\ held' = [held EXCEPT ![h] = requests[call[h].value]]
    /\ seen' = [seen EXCEPT ![h] =
           {clients[<<call[h].issuer, requests[call[h].value].client>>]}]
    /\ UNCHANGED <<call, store, world, history>>

(* sameProtocolFields refuses a saved request of which the application     *)
(* passes a changed copy.                                                  *)
LoadRefuses(h) ==
    /\ At(h, "load")
    /\ ~loadable(h) \/ call[h].op # "redeem" \/ "error" \in Faults
    /\ Finish(h)
    /\ UNCHANGED <<store, world, history>>

------------------------------------------------------------------------------
(* The client store, and the checks against the registration it returns.   *)

(* Mutant: the lifetime is subtracted. *)
stampedBackwards(r) ==
    [r EXCEPT !.pushed = TRUE, !.bound = FALSE, !.createdAt = now,
              !.expiresAt = now - PushedLifetime]

(* pushAuthorization stamps the request, SaveAuthorizationRequest binds it.*)
stamped(r) ==
    [r EXCEPT !.pushed = TRUE, !.bound = FALSE, !.createdAt = now,
              !.expiresAt = now + PushedLifetime]

Accept(h) ==
    LET r == held[h] IN
    /\ At(h, "check")
    /\ call[h].op \in {"push", "save"}
    /\ checkRequest(Reg(h), r)
    /\ pc' = [pc EXCEPT ![h] = "create"]
    /\ held' = [held EXCEPT ![h] = IF call[h].op = "push" THEN stamped(r)
                                   ELSE [r EXCEPT !.bound = Binding]]
    /\ UNCHANGED <<call, store, world, history, seen>>

(* AuthTime may lie in the near future, for the skew of clocks. *)
AcceptApproval(h) ==
    /\ At(h, "check")
    /\ call[h].op = "approve"
    /\ checkRequest(Reg(h), held[h])
    /\ \E s \in SUBSET Scopes, a \in SUBSET Audiences, auth \in 0 .. now + 1 :
        /\ validateApproval(held[h], s, a, auth)
        /\ call' = [call EXCEPT ![h].scopes = s, ![h].audience = a, ![h].auth = auth]
    /\ pc' = [pc EXCEPT ![h] = IF call[h].value = 0 THEN "code" ELSE "delete"]
    /\ UNCHANGED <<held, store, world, history, seen>>

(* A denial of an unsaved request is sent at once. *)
AcceptDenial(h) ==
    /\ At(h, "check")
    /\ call[h].op = "deny"
    /\ checkDelivery(Reg(h), held[h])
    /\ \/ /\ call[h].value # 0
          /\ Goto(h, "delete")
          /\ UNCHANGED <<history, seen>>
       \/ /\ call[h].value = 0
          /\ Answered(0, call[h].origin)
          /\ Finish(h)
          /\ UNCHANGED <<lineage, lost>>
    /\ UNCHANGED <<store, world>>

(* The registration does not allow it, the lookup fails, or the Approval   *)
(* is not acceptable, which is up to the application.                      *)
CheckRefuses(h) ==
    /\ At(h, "check")
    /\ \/ ~checkDelivery(Reg(h), held[h])
       \/ call[h].op # "deny" /\ ~checkRequest(Reg(h), held[h])
       \/ call[h].op = "approve"
       \/ "error" \in Faults
    /\ Return(h)
    /\ UNCHANGED <<store, world, lineage, lost>>

------------------------------------------------------------------------------
(* Storage.CreateAuthorizationRequest, and the cookie of a saved request.  *)

Create(h) ==
    /\ At(h, "create")
    /\ nextID <= MaxRequests
    /\ requests' = [collectLocked.requests EXCEPT ![nextID] = held[h]]
    /\ lastCollection' = collectLocked.last
    /\ par' = IF call[h].op = "push" THEN par \union {nextID} ELSE par
    /\ nextID' = nextID + 1
    /\ lineage' = [lineage EXCEPT ![nextID] =
           [agent |-> call[h].agent, origin |-> call[h].origin,
            started |-> call[h].started, expire |-> held[h].expiresAt]]
    /\ UNCHANGED <<now, clients>>

CreateSucceeds(h) ==
    /\ Create(h)
    /\ disclosed' = disclosed \union {nextID}
    /\ cookies' = IF held[h].bound THEN cookies \union {<<call[h].agent, nextID>>}
                                   ELSE cookies
    /\ Finish(h)
    /\ UNCHANGED <<answered, lost>>

CreateFails(h) ==
    /\ At(h, "create")
    /\ \/ StorageError /\ UNCHANGED <<now, clients, lineage>>
       \/ "late" \in Faults /\ Create(h)
    /\ Return(h)
    /\ UNCHANGED <<cookies, disclosed, lost>>

------------------------------------------------------------------------------
(* Storage.DeleteAuthorizationRequest: completeRequest and the redemption. *)

(* Mutant: deleting a request that is gone succeeds. *)
RemoveMissing(v) ==
    /\ requests' = [requests EXCEPT ![v] = NotFound]
    /\ UNCHANGED <<par, lastCollection, nextID>>

Remove(v) ==
    /\ Has(v)
    /\ requests' = [requests EXCEPT ![v] = NotFound]
    /\ UNCHANGED <<par, lastCollection, nextID>>

Delete(h) ==
    /\ At(h, "delete")
    /\ call[h].op # "deny"
    /\ Remove(call[h].value)
    /\ Goto(h, IF call[h].op = "redeem" THEN "recheck" ELSE "code")
    /\ UNCHANGED <<world, history, seen>>

DeleteDenied(h) ==
    LET v == call[h].value IN
    /\ At(h, "delete")
    /\ call[h].op = "deny"
    /\ Remove(v)
    /\ cookies' = cookies \ {<<call[h].agent, v>>}
    /\ Answered(v, lineage[v].origin)
    /\ Finish(h)
    /\ UNCHANGED <<now, clients, disclosed, lineage, lost>>

DeleteRefuses(h) ==
    LET v == call[h].value IN
    /\ At(h, "delete")
    /\ \/ ~Has(v) /\ UNCHANGED <<store, lost>>
       \/ StorageError /\ UNCHANGED lost
       \/ "late" \in Faults /\ Remove(v) /\ lost' = lost \union {v}
    /\ Finish(h)
    /\ UNCHANGED <<world, lineage, answered>>

(* Mutant: the redeemed request keeps the time of the push. *)
RecheckKeepingTime(h) ==
    /\ At(h, "recheck")
    /\ checkRequest(Reg(h), held[h])
    /\ pc' = [pc EXCEPT ![h] = "held"]
    /\ call' = [call EXCEPT ![h].op = "choose", ![h].origin = call[h].value,
                            ![h].value = 0]
    /\ held' = [held EXCEPT ![h].expiresAt = now + RequestLifetime]
    /\ seen' = [seen EXCEPT ![h] = {}]
    /\ UNCHANGED <<store, world, history>>

(* The redeemed request starts a new interaction, if the registration      *)
(* still allows it.                                                        *)
Recheck(h) ==
    /\ At(h, "recheck")
    /\ checkRequest(Reg(h), held[h])
    /\ pc' = [pc EXCEPT ![h] = "held"]
    /\ call' = [call EXCEPT ![h].op = "choose", ![h].origin = call[h].value,
                            ![h].value = 0]
    /\ held' = [held EXCEPT ![h].createdAt = now,
                            ![h].expiresAt = now + RequestLifetime]
    /\ seen' = [seen EXCEPT ![h] = {}]
    /\ UNCHANGED <<store, world, history>>

(* The error goes to the client if it can still be delivered, and to an    *)
(* error page otherwise.                                                   *)
RecheckRefuses(h) ==
    /\ At(h, "recheck")
    /\ \/ /\ "error" \in Faults \/ ~checkDelivery(Reg(h), held[h])
          /\ UNCHANGED answered
       \/ /\ checkDelivery(Reg(h), held[h])
          /\ ~checkRequest(Reg(h), held[h])
          /\ Answered(call[h].value, 0)
    /\ Finish(h)
    /\ UNCHANGED <<store, world, lineage, lost>>

------------------------------------------------------------------------------
(* Storage.CreateToken of the authorization code, and the response. *)

collects ==
    /\ requests' = collectLocked.requests
    /\ lastCollection' = collectLocked.last
    /\ UNCHANGED <<par, nextID>>

(* The history of the request that a handler completes. *)
Past(h) ==
    LET k == call[h] IN
    IF k.value # 0 THEN lineage[k.value]
    ELSE [agent |-> k.agent, origin |-> k.origin, started |-> k.started,
          expire |-> held[h].expiresAt]

IssueCode(h) ==
    LET k == call[h] IN
    /\ At(h, "code")
    /\ collects
    /\ cookies' = IF held[h].bound THEN cookies \ {<<k.agent, k.value>>} ELSE cookies
    /\ Answered(k.value, Past(h).origin)
    /\ Finish(h)
    /\ UNCHANGED <<now, clients, disclosed, lineage, lost>>

(* Mutant: the error of CreateToken is returned to the application. *)
CodeFailsSilently(h) ==
    /\ At(h, "code")
    /\ StorageError \/ ("late" \in Faults /\ collects)
    /\ Finish(h)
    /\ UNCHANGED <<world, history>>

(* The code cannot be saved: the client gets server_error. *)
CodeFails(h) ==
    LET k == call[h] IN
    /\ At(h, "code")
    /\ StorageError \/ ("late" \in Faults /\ collects)
    /\ Answered(k.value, Past(h).origin)
    /\ Finish(h)
    /\ UNCHANGED <<world, lineage, lost>>

Crash(h) ==
    /\ "crash" \in Faults
    /\ ~At(h, "idle")
    /\ lost' = IF At(h, "code") THEN lost \union ({call[h].value} \ {0}) ELSE lost
    /\ Finish(h)
    /\ UNCHANGED <<store, world, lineage, answered>>

------------------------------------------------------------------------------
(* The environment. *)

SetClient ==
    /\ \E i \in Issuers, c \in ClientIDs, reg \in Registrations :
        /\ clients' = [clients EXCEPT ![<<i, c>>] = reg]
        /\ seen' = [h \in Procs |->
               IF seen[h] # {} /\ <<call[h].issuer, held[h].client>> = <<i, c>>
               THEN seen[h] \union {reg} ELSE seen[h]]
    /\ UNCHANGED <<store, now, cookies, disclosed, pc, call, held, history>>

Tick ==
    /\ now < MaxTime
    /\ now' = now + 1
    /\ UNCHANGED <<store, clients, cookies, disclosed, pc, call, held, history, seen>>

Collect ==
    /\ collects
    /\ UNCHANGED <<world, pc, call, held, history, seen>>

Arrive(h) ==
    BeginPush(h) \/ BeginAuthorize(h) \/ BeginRedeem(h) \/ BeginComplete(h)

Step(h) ==
    \/ Adjust(h) \/ Push(h) \/ GiveUp(h)
    \/ Choose(h, "save") \/ Choose(h, "approve") \/ Choose(h, "deny")
    \/ LoadFinds(h) \/ LoadRefuses(h)
    \/ Accept(h) \/ AcceptApproval(h) \/ AcceptDenial(h) \/ CheckRefuses(h)
    \/ CreateSucceeds(h) \/ CreateFails(h)
    \/ Delete(h) \/ DeleteDenied(h) \/ DeleteRefuses(h)
    \/ Recheck(h) \/ RecheckRefuses(h)
    \/ IssueCode(h) \/ CodeFails(h)

Next ==
    \/ \E h \in Procs : Arrive(h) \/ Step(h) \/ Crash(h)
    \/ SetClient \/ Tick \/ Collect

Spec == Init /\ [][Next]_vars

------------------------------------------------------------------------------
(* Properties. *)

(***************************************************************************)
(* A request is answered at most once, however many handlers complete it   *)
(* at the same time: a saved request by its ID (completeRequest), and a    *)
(* pushed request through everything that was redeemed from its            *)
(* request_uri (redeemPushedRequest).                                      *)
(***************************************************************************)
AtMostOneAnswer == \A v \in IDs : answered[v] <= 1

(***************************************************************************)
(* A saved request is approved or denied only in the user agent that       *)
(* started it, although every user agent may learn its ID (loadPending,    *)
(* BindingHash).  A handler at "delete" or "code" is past every check.     *)
(***************************************************************************)
CompletedByStarter ==
    \A h \in Procs :
        /\ Binding
        /\ At(h, "delete") \/ At(h, "code")
        /\ call[h].op \in {"approve", "deny"}
        => call[h].agent = Past(h).agent

(***************************************************************************)
(* A code is issued only for what a registration allows that was in force  *)
(* during the call of Approve, whatever registration the request was       *)
(* parsed, pushed or saved under and however the application changed it    *)
(* in between; and a client that must push its requests gets a code only   *)
(* for a request that came out of the store (checkRequest, checkUnsaved).  *)
(***************************************************************************)
Permits(reg, h) ==
    /\ reg.code
    /\ held[h].redirect \in reg.redirects
    /\ call[h].scopes \subseteq reg.scopes
    /\ call[h].audience \subseteq reg.audience
    /\ parRequired(reg) => Past(h).origin # 0
    /\ reg.pkce = "required" => held[h].challenge

CodeIsPermitted ==
    \A h \in Procs : At(h, "code") => \E reg \in seen[h] : Permits(reg, h)

(***************************************************************************)
(* With prompt=login or max_age=0, the end-user authenticated after the    *)
(* user agent came with the request, even if the request had been pushed   *)
(* before and was saved and completed later; with another max_age, no      *)
(* longer than that before the call of Approve (needsAuthentication,       *)
(* redeemPushedRequest).                                                   *)
(***************************************************************************)
LoginIsFresh ==
    \A h \in Procs : At(h, "code") /\ "openid" \in held[h].scopes =>
        /\ held[h].login \/ held[h].maxAge = 0 => call[h].auth >= Past(h).started
        /\ held[h].maxAge \notin {None, 0} =>
            call[h].auth + held[h].maxAge >= call[h].started

(***************************************************************************)
(* A saved request leaves the store only to be answered or because it      *)
(* expired: a Storage call that fails leaves it to be completed later, or  *)
(* the client is told (Approve, Deny).  The exceptions are a handler that  *)
(* stops between the deletion and the response, and a deletion that takes  *)
(* effect and reports an error.                                            *)
(***************************************************************************)
SavedRequestsAreAnswered ==
    \A v \in disclosed \ par : ~Has(v) =>
        \/ answered[v] = 1
        \/ now > lineage[v].expire
        \/ v \in lost
        \/ \E h \in Procs : At(h, "code") /\ call[h].value = v
==============================================================================
