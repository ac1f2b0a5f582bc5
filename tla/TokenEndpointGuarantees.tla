------------------------ MODULE TokenEndpointGuarantees ------------------------
(***************************************************************************)
(* What tokens may contain, who may use them up, what becomes of an        *)
(* exchange whose answer is lost, and what failures leave in the store,    *)
(* proved on top of the inductive invariant of TokenEndpointInvariant; and *)
(* the proof that TokenEndpoint implements GrantLife.                      *)
(***************************************************************************)
EXTENDS TokenEndpointLife, TokenEndpointProofs

(* A record is within its grant: WithinGrant and RefreshNeedsOfflineAccess *)
(* for one token.  Access tokens are never marked as used.                 *)
Lawful(t) ==
    LET g == granted[t.grant] IN
    /\ g \in GrantInfo
    /\ t.issuer = g.issuer /\ t.client = g.client /\ t.subject = g.subject
    /\ t.scopes \subseteq g.scopes /\ t.audience \subseteq g.audience
    /\ t.kind # "access_token" => t.scopes = g.scopes /\ t.audience = g.audience
    /\ t.kind = "access_token" => ~t.consumed
    /\ (t.kind = "refresh_token" /\ g.op = "approve" /\ "openid" \in g.scopes) =>
          "offline_access" \in g.scopes

(* Handlers that are on the way to an answer. *)
Underway == {"issue", "store", "store_refresh", "consume", "respond"}

(* The records a handler works with. *)
HoldsLawful(h) ==
    /\ src[h] # NotFound => Lawful(src[h])
    /\ out[h].main # 0 => Lawful(out[h].at) /\ ~out[h].at.consumed
    /\ out[h].refresh # 0 => Lawful(out[h].rt) /\ ~out[h].rt.consumed

(* What a handler has checked when it is where it is. *)
Checked(h) ==
    LET r == req[h]
        t == src[h]
    IN
    pc[h] # "idle" =>
      /\ (r.op = "refresh_token" \/ (r.op \in Direct /\ r.refresh)) =>
            "refresh_token" \in r.reg.grants
      /\ r.op \in Starts => ~r.dead
      /\ (r.op \in Exchanges /\ pc[h] # "load") => Own(r, t)
      /\ pc[h] = "act" => /\ t.issuer = r.issuer /\ t.client = r.client
                          /\ t.kind # "authorization_code"
      /\ pc[h] = "issue" => /\ r.op # "approve"
                            /\ checkClientGrant(r, t) /\ narrowScopes(r, t)
      /\ r.op \in Direct =>
            LET g == granted[t.grant] IN
            g.op \in Direct /\ t.scopes = g.scopes /\ t.audience = g.audience
      /\ (r.op \in Exchanges /\ pc[h] \in Underway \union {"reuse"}) => Verified(r, t)
      /\ (r.op \in Exchanges /\ pc[h] \in Underway) => ~r.dead
      /\ out[h].main # 0 =>
            /\ out[h].at.scopes \subseteq r.reg.scopes
            /\ out[h].at.audience \subseteq r.reg.audience
            /\ out[h].refresh # 0 => "refresh_token" \in r.reg.grants

(* The stored record of a request's token differs from the copy that was   *)
(* loaded at most in being used.                                           *)
Copy(t, u) ==
    /\ t.kind = u.kind /\ t.challenge = u.challenge
    /\ t.redirectSent = u.redirectSent /\ t.expiresAt = u.expiresAt
    /\ u.consumed => t.consumed

CopyOK(h) ==
    (/\ pc[h] \notin {"idle", "load"}
     /\ req[h].op \in Lookups
     /\ Has(tokens, req[h].value)) => Copy(tokens[req[h].value], src[h])

(* A token that was spent when its request came stays so. *)
DeadOK(h) ==
    (pc[h] # "idle" /\ req[h].dead) =>
      /\ Spent(req[h].value)
      /\ pc[h] # "load" => src[h].consumed \/ now >= src[h].expiresAt

(* The part of the invariant about the content of records. *)
Contents ==
    /\ \A v \in Values : Has(tokens, v) => Lawful(tokens[v])
    /\ \A h \in Procs : HoldsLawful(h) /\ Checked(h) /\ CopyOK(h) /\ DeadOK(h)

(* The part about exchanges: a lost answer is that of a disclosed token. *)
Outcomes ==
    /\ \A v \in Values : <<v, "answer">> \in lost => v \in disclosed
    /\ ConsumedMeansExchanged
    /\ LostExchangesFailClosed

(* The part about clean-up: what was given up is not held by a handler any *)
(* more, but for an access token whose refresh token is next.              *)
CleanUp ==
    /\ NoOrphans
    /\ \A v \in leaked : v < nextValue
    /\ \A h \in Procs : \A v \in MintedValues(h) \intersect leaked :
          pc[h] = "discard_refresh" /\ v = out[h].main
    /\ \A h \in Procs : pc[h] = "discard_refresh" =>
          ~Has(tokens, out[h].main) \/ out[h].main \in leaked

(* A used code or refresh token of grant g is in the store, or it expired, *)
(* a RevokeGrant under way deleted it, or its grant ended.                 *)
Kept(v, g, e) ==
    \/ Has(tokens, v)
    \/ now > e
    \/ <<v, "part">> \in lost
    \/ g \in revoked

(* The part about replays: an exchange that was answered, or is about to   *)
(* be, can be traced to the record of its code or refresh token.           *)
Traceable ==
    /\ \A x \in issued :
          /\ Kept(x.used, x.grant, x.expiresAt)
          /\ Has(tokens, x.used) => /\ tokens[x.used].grant = x.grant
                                    /\ tokens[x.used].expiresAt = x.expiresAt
    /\ \A h \in Procs : Winning(h) =>
          Kept(req[h].value, src[h].grant, src[h].expiresAt)

------------------------------------------------------------------------------
(* What a step does to the store and to a handler. *)

(* Tokens disappear, others stay as they are. *)
Drops(S) ==
    \A v \in S : tokens'[v] = NotFound \/ tokens'[v] = tokens[v]

(* CreateToken of handler h's access or refresh token. *)
Creates(h) ==
    \/ At(h, "store") /\ CreateToken(out[h].main, out[h].at)
    \/ At(h, "store_refresh") /\ CreateToken(out[h].refresh, out[h].rt)

(* ConsumeToken takes effect for handler h. *)
Marks(h) ==
    /\ At(h, "consume") /\ Has(tokens, req[h].value)
    /\ tokens' = WithConsumed(tokens, req[h].value)

(* The calls that begin with a collection, and the collection itself. *)
LEMMA CollectDrops == ASSUME TypeOK, tokens' = collectLocked.tokens PROVE Drops(Values)
  BY DEF TypeOK, TokenMaps, collectLocked, Collected, Drops

(* RevokeToken and RevokeGrant. *)
LEMMA RevokeDrops ==
    ASSUME TypeOK,
           \/ \E v \in Values : RevokeToken(v)
           \/ \E g \in Grants : RevokeGrant(g)
    PROVE  Drops(Values)
  BY DEF TypeOK, TokenMaps, RevokeToken, RevokeGrant, WithoutToken, WithoutGrant, Drops

(* A handler's step drops tokens, or is its CreateToken or ConsumeToken. *)
LEMMA OwnStore ==
    ASSUME Inductive, NEW h \in Procs, Arrive(h) \/ Step(h) \/ RevokePart(h) \/ Crash(h)
    PROVE  \/ Drops(Values)
           \/ Creates(h)
           \/ Marks(h) /\ (Consume(h) \/ ConsumeFails(h))
<1>0. TypeOK /\ HandlersOK
  BY DEF Inductive
<1>1. tokens' = tokens => Drops(Values)
  BY DEF Drops
<1>2. Arrive(h) => tokens' = tokens
  BY DEF Arrive, BeginCodeExchange, BeginRefresh, BeginDirect, BeginApprove,
         BeginRevocation, BeginRead, store
<1>3. (\/ LoadFinds(h) \/ LoadRefuses(h) \/ Answer(h) \/ CheckReuse(h)
       \/ CheckPasses(h) \/ CheckRefuses(h) \/ Mint(h) \/ MintFails(h)
       \/ ConsumeReused(h) \/ Respond(h) \/ Crash(h)) => tokens' = tokens
  BY DEF LoadFinds, LoadRefuses, Answer, CheckReuse, CheckPasses, CheckRefuses,
         Mint, MintFails, ConsumeReused, Respond, Crash, store
<1>4. Store(h) \/ StoreRefresh(h) \/ StoreFails(h) => tokens' = tokens \/ Creates(h)
  BY DEF Store, StoreRefresh, StoreFails, StorageError, store, Creates
<1>5. Consume(h) \/ ConsumeFails(h) => tokens' = tokens \/ Marks(h)
  BY DEF Consume, ConsumeFails, StorageError, store, Marks
<1>6. ASSUME Revoke(h) \/ RevokeReused(h) PROVE Drops(Values)
  <2>1. src[h].grant \in Grants /\ (At(h, "act") => req[h].value \in Values)
    BY <1>0, <1>6, TokenFields DEF Revoke, RevokeReused, At, HandlersOK, HandlerOK, TypeOK
  <2>2. \/ tokens' = tokens
        \/ RevokeGrant(src[h].grant)
        \/ At(h, "act") /\ RevokeToken(req[h].value)
    BY <1>6 DEF Revoke, RevokeReused, StorageError, store
  <2> QED BY <1>0, <1>1, <2>1, <2>2, RevokeDrops
<1>7. ASSUME Discard(h) \/ DiscardRefresh(h) PROVE Drops(Values)
  <2>1. /\ At(h, "discard") => out[h].main \in Values
        /\ At(h, "discard_refresh") => out[h].refresh \in Values
    BY <1>0, MintedFields DEF HandlersOK, HandlerOK, Holds, At, TypeOK
  <2>2. \/ tokens' = tokens
        \/ At(h, "discard") /\ RevokeToken(out[h].main)
        \/ At(h, "discard_refresh") /\ RevokeToken(out[h].refresh)
    BY <1>7 DEF Discard, DiscardRefresh, StorageError, store
  <2> QED BY <1>0, <1>1, <2>1, <2>2, RevokeDrops
<1>8. RevokePart(h) => Drops(Values)
  BY <1>0, RevokeDrops DEF RevokePart
<1> QED BY <1>1, <1>2, <1>3, <1>4, <1>5, <1>6, <1>7, <1>8 DEF Step

(* A step drops tokens, or it is CreateToken or ConsumeToken of a handler. *)
LEMMA StoreStep ==
    ASSUME Inductive, Next
    PROVE  Drops(Values) \/ \E h \in Procs :
              Creates(h) \/ (Marks(h) /\ (Consume(h) \/ ConsumeFails(h)))
<1>1. ASSUME SetClient \/ Tick \/ Collect PROVE Drops(Values)
  <2>1. tokens' = tokens => Drops(Values)
    BY DEF Drops
  <2>2. TypeOK
    BY DEF Inductive
  <2> QED BY <1>1, <2>1, <2>2, CollectDrops DEF SetClient, Tick, Collect, store
<1> QED BY <1>1, OwnStore DEF Next

(* CreateToken stores what its handler minted, under a value that no       *)
(* client has seen, and may drop others.                                   *)
LEMMA CreatesFacts ==
    ASSUME Inductive, NEW h \in Procs, Creates(h)
    PROVE  \E w \in MintedValues(h), t \in Token :
              /\ w \in Values /\ w \notin disclosed
              /\ \/ pc[h] = "store" /\ w = out[h].main /\ t = out[h].at
                 \/ pc[h] = "store_refresh" /\ w = out[h].refresh /\ t = out[h].rt
              /\ tokens'[w] = t
              /\ Drops(Values \ {w})
<1>0. TypeOK /\ HandlerOK(h) /\ out[h] \in Minted
  BY DEF Inductive, HandlersOK, TypeOK
<1>1. PICK w \in MintedValues(h), t \in Token :
        /\ CreateToken(w, t)
        /\ \/ pc[h] = "store" /\ w = out[h].main /\ t = out[h].at
           \/ pc[h] = "store_refresh" /\ w = out[h].refresh /\ t = out[h].rt
  BY <1>0 DEF Creates, At, HandlerOK, Holds, MintedValues
<1>2. w \in Values
  BY <1>0, MintedFields DEF MintedValues
<1>3. w \notin disclosed
  BY DEF Inductive, Safe, ValuesOK
<1> QED BY <1>0, <1>1, <1>2, <1>3, CreateTokenStep DEF Drops

(* ConsumeToken changes one field of one token. *)
LEMMA MarksFacts ==
    ASSUME Inductive, NEW h \in Procs, Marks(h)
    PROVE  LET v == req[h].value IN
           /\ v \in Values /\ v \in disclosed /\ req[h].op \in Exchanges
           /\ tokens[v] \in Token
           /\ tokens'[v] = [tokens[v] EXCEPT !.consumed = TRUE]
           /\ \A w \in Values \ {v} : tokens'[w] = tokens[w]
<1>0. TypeOK /\ HandlerOK(h) /\ pc[h] = "consume"
  BY DEF Inductive, HandlersOK, Marks, At
<1>1. /\ req[h].op \in Exchanges /\ req[h].value \in disclosed
      /\ req[h].value \in Values
  BY <1>0 DEF HandlerOK, Lookups, TypeOK
<1>2. tokens[req[h].value] \in Token
  BY <1>0, <1>1 DEF TypeOK, TokenMaps, Marks, Has
<1> QED BY <1>0, <1>1, <1>2 DEF Marks, WithConsumed, TypeOK, TokenMaps

(* A value that a client holds: its record stays, is marked, or goes. *)
LEMMA DisclosedStep ==
    ASSUME Inductive, Next, NEW v \in disclosed
    PROVE  \/ tokens'[v] = NotFound
           \/ tokens'[v] = tokens[v]
           \/ tokens[v] \in Token /\ tokens'[v] = [tokens[v] EXCEPT !.consumed = TRUE]
<1>0. v \in Values
  BY DEF Inductive, TypeOK
<1>1. CASE Drops(Values)
  BY <1>0, <1>1 DEF Drops
<1>2. ASSUME NEW h \in Procs, Creates(h)
      PROVE  tokens'[v] = NotFound \/ tokens'[v] = tokens[v]
  BY <1>0, <1>2, CreatesFacts DEF Drops
<1>3. ASSUME NEW h \in Procs, Marks(h)
      PROVE  \/ tokens'[v] = tokens[v]
             \/ tokens[v] \in Token /\ tokens'[v] = [tokens[v] EXCEPT !.consumed = TRUE]
  BY <1>0, <1>3, MarksFacts
<1> QED BY <1>1, <1>2, <1>3, StoreStep

------------------------------------------------------------------------------
(* The ways in which a handler moves; Idles and Stays are two of them. *)

Loads(h) ==
    LET t == tokens[req[h].value] IN
    /\ pc[h] = "load" /\ Has(tokens, req[h].value) /\ Continues(req[h], t)
    /\ pc'[h] = AfterLoad(req[h]) /\ src'[h] = t
    /\ req'[h] = req[h] /\ out'[h] = out[h]

Checks(h) ==
    /\ pc[h] = "check" /\ Verified(req[h], src[h])
    /\ \/ pc'[h] = "reuse" /\ src[h].consumed
       \/ pc'[h] = "issue" /\ Acceptable(req[h], src[h])
    /\ req'[h] = req[h] /\ src'[h] = src[h] /\ out'[h] = out[h]

Mints(h) ==
    /\ pc[h] = "issue" /\ pc'[h] = "store"
    /\ \E s \in SUBSET Scopes, a \in SUBSET Audiences, rf \in BOOLEAN,
          al \in AccessLifetimes, rl \in RefreshLifetimes :
             /\ planned(req[h], src[h], s, a, rf)
             /\ out'[h] = minted(src[h], s, a, rf, al, rl)
             /\ nextValue' = nextValue + (IF rf THEN 2 ELSE 1)
    /\ req'[h] = req[h] /\ src'[h] = src[h]

(* The Storage calls after minting, in their order. *)
Moves(h) ==
    /\ <<pc[h], pc'[h]>> \in
         {<<"store", "store_refresh">>, <<"store", "consume">>, <<"store", "respond">>,
          <<"store_refresh", "consume">>, <<"store_refresh", "respond">>,
          <<"consume", "respond">>,
          <<"store", "discard">>, <<"store_refresh", "discard">>,
          <<"consume", "discard">>, <<"reuse", "discard">>,
          <<"discard", "discard_refresh">>}
    /\ req'[h] = req[h] /\ src'[h] = src[h] /\ out'[h] = out[h]

Rereads(h) ==
    LET t == tokens[req[h].value] IN
    /\ pc[h] = "consume" /\ pc'[h] = "reuse" /\ Has(tokens, req[h].value) /\ t.consumed
    /\ src'[h] = t /\ req'[h] = req[h] /\ out'[h] = out[h]

(* A request that brings a token. *)
Asks(h) ==
    /\ pc[h] = "idle" /\ pc'[h] = "load"
    /\ req'[h] \in Request /\ req'[h].op \in Lookups /\ req'[h].value \in disclosed
    /\ req'[h].dead <=> Spent(req'[h].value)
    /\ req'[h].op = "refresh_token" => "refresh_token" \in req'[h].reg.grants
    /\ src'[h] = NotFound /\ out'[h] = NoTokens

(* A request that starts a grant: the record of the grant, which is        *)
(* remembered, is within the registration.                                 *)
StartsGrant(h) ==
    LET r == req'[h]
        t == src'[h]
    IN
    /\ pc[h] = "idle" /\ r \in Request /\ ~r.dead
    /\ nextGrant \in Grants
    /\ t \in Token /\ t.grant = nextGrant /\ ~t.consumed
    /\ t.kind # "refresh_token"
    /\ checkClientGrant(r, t) /\ r.scopes = NoScopeParam
    /\ granted' = [granted EXCEPT ![t.grant] =
          [op |-> r.op, issuer |-> t.issuer, client |-> t.client,
           subject |-> t.subject, scopes |-> t.scopes, audience |-> t.audience]]
    /\ \/ /\ pc'[h] = "issue" /\ r.op \in Direct /\ out'[h] = NoTokens
          /\ r.refresh => "refresh_token" \in r.reg.grants
       \/ /\ pc'[h] = "store" /\ r.op = "approve"
          /\ out'[h].main = nextValue /\ out'[h].at = t /\ out'[h].refresh = 0

(* An arrival is a request that brings a token or starts a grant. *)
LEMMA ArriveStep ==
    ASSUME Inductive, NEW h \in Procs, Arrive(h)
    PROVE  Only(h) /\ ((Asks(h) /\ granted' = granted) \/ StartsGrant(h))
<1> USE NoTokensType, ArrivalFacts
<1>0. TypeOK
  BY DEF Inductive
<1>1. CASE BeginCodeExchange(h)
  <2>1. PICK i \in Issuers, c \in ClientIDs, v \in disclosed, pf \in Proofs :
           Begin(h, "load",
                 Arrival("authorization_code", i, c, v, pf, NoScopeParam, FALSE),
                 NotFound, NoTokens)
    BY <1>1 DEF BeginCodeExchange
  <2>2. v \in Values /\ v # 0 /\ pf \in Proof
    BY <1>0, ConstantsAssumption DEF TypeOK, Values
  <2> DEFINE r == Arrival("authorization_code", i, c, v, pf, NoScopeParam, FALSE)
  <2>3. r \in Request /\ r.op = "authorization_code" /\ r.value = v /\ (r.dead <=> Spent(v))
    BY <1>0, <2>2 DEF Arrival, Request, Ops, Exchanges
  <2> HIDE DEF r
  <2>4. /\ Only(h) /\ pc[h] = "idle" /\ pc'[h] = "load" /\ req'[h] = r
        /\ src'[h] = NotFound /\ out'[h] = NoTokens
    BY <1>0, <2>1, <2>3 DEF Begin, r, At, Only, TypeOK
  <2> QED BY <1>1, <2>3, <2>4 DEF Asks, Lookups, Exchanges, BeginCodeExchange, history
<1>2. CASE BeginRefresh(h)
  <2>1. PICK i \in Issuers, c \in ClientIDs, v \in disclosed,
             s \in {NoScopeParam} \union SUBSET Scopes :
           /\ "refresh_token" \in clients[<<i, c>>].grants
           /\ Begin(h, "load", Arrival("refresh_token", i, c, v, NoProof, s, FALSE),
                    NotFound, NoTokens)
    BY <1>2 DEF BeginRefresh
  <2>2. v \in Values /\ v # 0
    BY <1>0 DEF TypeOK, Values
  <2> DEFINE r == Arrival("refresh_token", i, c, v, NoProof, s, FALSE)
  <2>3. /\ r \in Request /\ r.op = "refresh_token" /\ r.value = v /\ (r.dead <=> Spent(v))
        /\ r.reg = clients[<<i, c>>]
    BY <1>0, <2>2 DEF Arrival, Request, Ops, Exchanges
  <2> HIDE DEF r
  <2>4. /\ Only(h) /\ pc[h] = "idle" /\ pc'[h] = "load" /\ req'[h] = r
        /\ src'[h] = NotFound /\ out'[h] = NoTokens
    BY <1>0, <2>1, <2>3 DEF Begin, r, At, Only, TypeOK
  <2> QED BY <1>2, <2>1, <2>3, <2>4 DEF Asks, Lookups, Exchanges, BeginRefresh, history
<1>3. CASE BeginRevocation(h) \/ BeginRead(h)
  <2>1. PICK op \in Reads \union {"revoke"}, i \in Issuers, c \in ClientIDs, v \in disclosed :
           Begin(h, "load", Arrival(op, i, c, v, NoProof, NoScopeParam, FALSE),
                 NotFound, NoTokens)
    BY <1>3 DEF BeginRead, BeginRevocation
  <2>2. v \in Values /\ v # 0
    BY <1>0 DEF TypeOK, Values
  <2> DEFINE r == Arrival(op, i, c, v, NoProof, NoScopeParam, FALSE)
  <2>3. r \in Request /\ r.op = op /\ r.value = v /\ (r.dead <=> Spent(v))
    BY <1>0, <2>2 DEF Arrival, Request, Ops
  <2> HIDE DEF r
  <2>4. /\ Only(h) /\ pc[h] = "idle" /\ pc'[h] = "load" /\ req'[h] = r
        /\ src'[h] = NotFound /\ out'[h] = NoTokens
    BY <1>0, <2>1, <2>3 DEF Begin, r, At, Only, TypeOK
  <2>5. op # "refresh_token" /\ op \in Lookups
    BY DEF Reads, Lookups
  <2> QED BY <1>3, <2>3, <2>4, <2>5 DEF Asks, BeginRead, BeginRevocation, history
<1>4. CASE BeginDirect(h)
  <2>0. PICK op \in Direct \intersect Endpoints, i \in Issuers, c \in ClientIDs,
             subject \in BOOLEAN, s \in SUBSET Scopes, a \in SUBSET Audiences,
             rf \in BOOLEAN : StartDirect(h, op, i, c, subject, s, a, rf)
    BY <1>4, Zenon DEF BeginDirect
  <2> DEFINE r == Arrival(op, i, c, 0, NoProof, NoScopeParam, rf)
             t == directGrant(i, c, subject, s, a)
  <2>1. /\ DirectAllowed(clients[<<i, c>>], op, subject, s, a, rf)
        /\ Begin(h, "issue", r, t, NoTokens)
        /\ Remember(op, t)
    BY <2>0, Zenon DEF StartDirect
  <2>2. nextGrant \in Grants /\ now \in Nat
    BY <1>0, <1>4 DEF TypeOK, BeginDirect, Grants
  <2>3. /\ r \in Request /\ r.op = op /\ ~r.dead /\ r.scopes = NoScopeParam
        /\ r.refresh = rf /\ r.reg = clients[<<i, c>>]
    BY <1>0 DEF Arrival, Request, Ops
  <2>4. /\ t \in Token /\ t.grant = nextGrant /\ ~t.consumed /\ t.kind = "access_token"
        /\ t.scopes = s /\ t.audience = a
    BY <2>2 DEF directGrant, Token, Kinds
  <2>5. checkClientGrant(r, t) /\ (rf => "refresh_token" \in r.reg.grants)
    BY <2>1, <2>3, <2>4 DEF checkClientGrant, DirectAllowed, Direct
  <2> HIDE DEF r, t
  <2>6. /\ Only(h) /\ pc[h] = "idle" /\ pc'[h] = "issue" /\ req'[h] = r
        /\ src'[h] = t /\ out'[h] = NoTokens
    BY <1>0, <2>1, <2>3, <2>4 DEF Begin, At, Only, TypeOK
  <2>7. granted' = [granted EXCEPT ![t.grant] =
          [op |-> op, issuer |-> t.issuer, client |-> t.client,
           subject |-> t.subject, scopes |-> t.scopes, audience |-> t.audience]]
    BY <2>1 DEF Remember
  <2> QED BY <2>2, <2>3, <2>4, <2>5, <2>6, <2>7 DEF StartsGrant
<1>5. CASE BeginApprove(h)
  <2>0. PICK i \in Issuers, c \in ClientIDs, shape \in CodeShapes,
             s \in SUBSET Scopes, a \in SUBSET Audiences :
               StartApprove(h, i, c, shape, s, a)
    BY <1>5, Zenon DEF BeginApprove
  <2> DEFINE r == Arrival("approve", i, c, 0, NoProof, NoScopeParam, FALSE)
             t == newCode(i, c, shape, s, a)
             o == codeOnly(t)
  <2>1. /\ s \subseteq clients[<<i, c>>].scopes /\ a \subseteq clients[<<i, c>>].audience
        /\ Begin(h, "store", r, t, o)
        /\ Remember("approve", t)
    BY <2>0, Zenon DEF StartApprove
  <2>2. nextGrant \in Grants /\ nextValue \in Values /\ shape \in Shapes /\ now \in Nat
    BY <1>0, <1>5, ConstantsAssumption DEF TypeOK, BeginApprove, Grants, Values
  <2>3. /\ r \in Request /\ r.op = "approve" /\ ~r.dead /\ r.scopes = NoScopeParam
        /\ r.reg = clients[<<i, c>>]
    BY <1>0 DEF Arrival, Request, Ops
  <2>4. /\ t \in Token /\ t.grant = nextGrant /\ ~t.consumed
        /\ t.kind = "authorization_code" /\ t.scopes = s /\ t.audience = a
    BY <2>2, ConstantsAssumption DEF newCode, Token, Kinds, Shapes
  <2>5. checkClientGrant(r, t)
    BY <2>1, <2>3, <2>4 DEF checkClientGrant
  <2> HIDE DEF t
  <2>6. o \in Minted /\ o.main = nextValue /\ o.at = t /\ o.refresh = 0
    BY <2>2, <2>4 DEF codeOnly, NoTokens, Minted
  <2> HIDE DEF r, o
  <2>7. /\ Only(h) /\ pc[h] = "idle" /\ pc'[h] = "store" /\ req'[h] = r
        /\ src'[h] = t /\ out'[h] = o
    BY <1>0, <2>1, <2>3, <2>4, <2>6 DEF Begin, At, Only, TypeOK
  <2>8. granted' = [granted EXCEPT ![t.grant] =
          [op |-> "approve", issuer |-> t.issuer, client |-> t.client,
           subject |-> t.subject, scopes |-> t.scopes, audience |-> t.audience]]
    BY <2>1 DEF Remember
  <2> QED BY <2>2, <2>3, <2>4, <2>5, <2>6, <2>7, <2>8 DEF StartsGrant
<1> QED BY <1>1, <1>2, <1>3, <1>4, <1>5 DEF Arrive

(* Fail idles the handler, or it goes on to discard what it minted. *)
LEMMA FailMoves ==
    ASSUME TypeOK, NEW h \in Procs, Fail(h)
    PROVE  /\ Only(h)
           /\ \/ Idles(h) /\ (out[h].main = 0 \/ req[h].op = "approve")
              \/ /\ out[h].main # 0 /\ req[h].op # "approve"
                 /\ pc'[h] = "discard" /\ req'[h] = req[h]
                 /\ src'[h] = src[h] /\ out'[h] = out[h]
  BY FinishIdles, GotoStep DEF Fail, PCs

(* How a handler moves in its own step. *)
LEMMA OwnStep ==
    ASSUME Inductive, NEW h \in Procs, Step(h) \/ RevokePart(h) \/ Crash(h)
    PROVE  /\ Only(h)
           /\ \/ Idles(h) \/ Stays(h) \/ Loads(h) \/ Checks(h) \/ Mints(h)
              \/ Moves(h) \/ Rereads(h)
           /\ granted' = granted
<1>0. TypeOK /\ HandlerOK(h)
  BY DEF Inductive, HandlersOK
<1>1. granted' = granted
  BY DEF Step, LoadFinds, LoadRefuses, Answer, Revoke, CheckReuse, CheckPasses,
         CheckRefuses, Mint, MintFails, Store, StoreRefresh, StoreFails, Consume,
         ConsumeReused, ConsumeFails, RevokeReused, Discard, DiscardRefresh, Respond,
         RevokePart, Crash, history
<1>2. CASE LoadFinds(h)
  BY <1>0, <1>1, <1>2 DEF LoadFinds, Loads, Only, At, TypeOK
<1>3. CASE CheckReuse(h) \/ CheckPasses(h)
  BY <1>0, <1>1, <1>3, GotoStep DEF CheckReuse, CheckPasses, Acceptable, Checks, At, PCs
<1>4. CASE Mint(h)
  <2>1. Only(h) /\ pc'[h] = "store" /\ req'[h] = req[h] /\ src'[h] = src[h]
    BY <1>0, <1>4 DEF Mint, Only, TypeOK
  <2>2. PICK s \in SUBSET Scopes, a \in SUBSET Audiences, rf \in BOOLEAN,
             al \in AccessLifetimes, rl \in RefreshLifetimes :
               /\ planned(req[h], src[h], s, a, rf)
               /\ nextValue + (IF rf THEN 1 ELSE 0) <= MaxValues
               /\ out' = [out EXCEPT ![h] = minted(src[h], s, a, rf, al, rl)]
               /\ nextValue' = nextValue + (IF rf THEN 2 ELSE 1)
    BY <1>4, Zenon DEF Mint
  <2>3. out'[h] = minted(src[h], s, a, rf, al, rl)
    BY <1>0, <2>2 DEF TypeOK
  <2>4. pc[h] = "issue"
    BY <1>4 DEF Mint, At
  <2>5. Mints(h)
    BY <2>1, <2>2, <2>3, <2>4, Zenon DEF Mints
  <2> QED BY <1>1, <2>1, <2>5
<1>5. CASE Store(h) \/ StoreRefresh(h) \/ Consume(h)
  <2>1. PICK label \in {"store_refresh", "consume", "respond"} :
          /\ Goto(h, label)
          /\ <<pc[h], label>> \in
               {<<"store", "store_refresh">>, <<"store", "consume">>, <<"store", "respond">>,
                <<"store_refresh", "consume">>, <<"store_refresh", "respond">>,
                <<"consume", "respond">>}
    BY <1>5 DEF Store, StoreRefresh, Consume, AfterStore, At
  <2> QED BY <1>0, <1>1, <2>1, GotoStep DEF Moves, PCs
<1>6. CASE StoreFails(h) \/ ConsumeFails(h) \/ RevokeReused(h)
  <2>1. Fail(h) /\ pc[h] \in {"store", "store_refresh", "consume", "reuse"}
    BY <1>6 DEF StoreFails, ConsumeFails, RevokeReused, At
  <2> QED BY <1>0, <1>1, <2>1, FailMoves DEF Moves
<1>7. CASE ConsumeReused(h)
  BY <1>0, <1>1, <1>7 DEF ConsumeReused, Rereads, Only, At, TypeOK
<1>8. CASE Discard(h)
  BY <1>0, <1>1, <1>8, FinishIdles, GotoStep DEF Discard, Moves, At, PCs
<1>9. CASE RevokePart(h)
  BY <1>9 DEF RevokePart, handler, Stays, Only, history
<1>10. CASE \/ LoadRefuses(h) \/ Answer(h) \/ Revoke(h) \/ CheckRefuses(h) \/ MintFails(h)
            \/ DiscardRefresh(h) \/ Respond(h) \/ Crash(h)
  <2>1. Finish(h)
    BY <1>10 DEF LoadRefuses, Answer, Revoke, CheckRefuses, MintFails, DiscardRefresh,
                 Respond, Crash
  <2> QED BY <1>0, <1>1, <2>1, FinishIdles
<1> QED BY <1>1, <1>2, <1>3, <1>4, <1>5, <1>6, <1>7, <1>8, <1>9, <1>10 DEF Step

(* How any handler moves in any step. *)
LEMMA HandlerStep ==
    ASSUME Inductive, Next, NEW k \in Procs
    PROVE  \/ Idles(k) \/ Stays(k) \/ Loads(k) \/ Checks(k) \/ Mints(k)
           \/ Moves(k) \/ Rereads(k) \/ Asks(k) \/ StartsGrant(k)
<1>1. ASSUME NEW h \in Procs, Arrive(h) \/ Step(h) \/ RevokePart(h) \/ Crash(h), h # k
      PROVE  Stays(k)
  <2>1. Only(h)
    BY <1>1, ArriveStep, OwnStep
  <2> QED BY <1>1, <2>1 DEF Only, Stays
<1>2. CASE SetClient \/ Tick \/ Collect
  BY <1>2 DEF SetClient, Tick, Collect, handler, Stays
<1> QED BY <1>1, <1>2, ArriveStep, OwnStep DEF Next

(* Only a response discloses values and answers exchanges, only RevokeGrant*)
(* ends grants, only Tick moves the clock, and answers are lost only where *)
(* a call fails late or a handler stops.                                   *)
LEMMA HiddenStep ==
    ASSUME Next
    PROVE  /\ \/ disclosed' = disclosed /\ issued' = issued /\ revoked' = revoked
              \/ \E h \in Procs : Respond(h) \/ Revoke(h) \/ RevokeReused(h)
           /\ now' = now \/ now' = now + 1
           /\ \/ lost' = lost
              \/ \E h \in Procs : \/ ConsumeReused(h) \/ ConsumeFails(h)
                                  \/ RevokeReused(h) \/ RevokePart(h) \/ Crash(h)
<1> DEFINE quiet == disclosed' = disclosed /\ issued' = issued /\ revoked' = revoked
           still == now' = now
           kept  == lost' = lost
<1>1. ASSUME NEW h \in Procs, Arrive(h) PROVE quiet /\ still /\ kept
  BY <1>1 DEF Arrive, BeginCodeExchange, BeginRefresh, BeginDirect, BeginApprove,
              BeginRevocation, BeginRead, history, world
<1>2. ASSUME NEW h \in Procs, LoadFinds(h) \/ LoadRefuses(h) \/ Answer(h)
      PROVE  quiet /\ still /\ kept
  BY <1>2 DEF LoadFinds, LoadRefuses, Answer, StorageError, history, world
<1>3. ASSUME NEW h \in Procs, CheckReuse(h) \/ CheckPasses(h) \/ CheckRefuses(h)
      PROVE  quiet /\ still /\ kept
  BY <1>3 DEF CheckReuse, CheckPasses, CheckRefuses, history, world
<1>4. ASSUME NEW h \in Procs, Mint(h) \/ MintFails(h) PROVE quiet /\ still /\ kept
  BY <1>4 DEF Mint, MintFails, history, world
<1>5. ASSUME NEW h \in Procs, Store(h) \/ StoreRefresh(h) \/ StoreFails(h)
      PROVE  quiet /\ still /\ kept
  BY <1>5 DEF Store, StoreRefresh, StoreFails, StorageError, history, world
<1>6. ASSUME NEW h \in Procs, Consume(h) PROVE quiet /\ still /\ kept
  BY <1>6 DEF Consume, history, world
<1>7. ASSUME NEW h \in Procs, ConsumeReused(h) \/ ConsumeFails(h) PROVE quiet /\ still
  BY <1>7 DEF ConsumeReused, ConsumeFails, StorageError, history, world
<1>8. ASSUME NEW h \in Procs, Discard(h) \/ DiscardRefresh(h) PROVE quiet /\ still /\ kept
  BY <1>8 DEF Discard, DiscardRefresh, StorageError, history, world
<1>9. ASSUME NEW h \in Procs, Respond(h) \/ Revoke(h) PROVE still /\ kept
  BY <1>9 DEF Respond, Revoke, StorageError, history, world
<1>10. ASSUME NEW h \in Procs, RevokeReused(h) PROVE still
  BY <1>10 DEF RevokeReused, world
<1>11. ASSUME NEW h \in Procs, RevokePart(h) PROVE quiet /\ still
  BY <1>11 DEF RevokePart, world
<1>12. ASSUME NEW h \in Procs, Crash(h) PROVE quiet /\ still
  BY <1>12 DEF Crash, history, world
<1>13. ASSUME SetClient \/ Tick \/ Collect PROVE quiet /\ kept /\ (still \/ now' = now + 1)
  BY <1>13 DEF SetClient, Tick, Collect, history, world
<1> HIDE DEF quiet, still, kept
<1>14. /\ quiet \/ \E h \in Procs : Respond(h) \/ Revoke(h) \/ RevokeReused(h)
       /\ still \/ now' = now + 1
       /\ kept \/ \E h \in Procs : \/ ConsumeReused(h) \/ ConsumeFails(h)
                                   \/ RevokeReused(h) \/ RevokePart(h) \/ Crash(h)
  BY <1>1, <1>2, <1>3, <1>4, <1>5, <1>6, <1>7, <1>8, <1>9, <1>10, <1>11, <1>12, <1>13
     DEF Next, Step
<1> QED BY <1>14 DEF quiet, still, kept

(* The clock does not go back. *)
LEMMA ClockStep ==
    ASSUME Inductive, Next
    PROVE  now \in Int /\ now' \in Int /\ now' >= now
<1>1. now \in Int /\ now' \in Int
  BY StepInductive DEF Inductive, TypeOK
<1>2. now' = now \/ now' = now + 1
  BY HiddenStep
<1> QED BY <1>1, <1>2

(* Grants are remembered when they start and never change. *)
LEMMA GrantedStep ==
    ASSUME Inductive, Next, NEW g \in Grants, g < nextGrant
    PROVE  granted'[g] = granted[g]
<1>0. TypeOK
  BY DEF Inductive
<1>1. ASSUME NEW h \in Procs, StartsGrant(h) PROVE granted'[g] = granted[g]
  <2>1. src'[h].grant = nextGrant /\ nextGrant \in Grants
    BY <1>1 DEF StartsGrant
  <2>2. nextGrant # g
    BY DEF Grants
  <2> QED BY <1>0, <1>1, <2>1, <2>2 DEF StartsGrant, TypeOK
<1>2. ASSUME SetClient \/ Tick \/ Collect PROVE granted' = granted
  BY <1>2 DEF SetClient, Tick, Collect, history
<1> QED BY <1>1, <1>2, ArriveStep, OwnStep DEF Next

------------------------------------------------------------------------------
(* The content of records. *)

(* What a handler's place says about its records, from Inductive. *)
LEMMA HandlerFacts ==
    ASSUME Inductive, NEW h \in Procs
    PROVE  /\ src[h] # NotFound => src[h] \in Token /\ src[h].grant < nextGrant
           /\ pc[h] \notin {"idle", "load"} => src[h] \in Token
           /\ pc[h] # "idle" => req[h] \in Request
           /\ out[h].main # 0 => /\ out[h].at \in Token /\ out[h].at.grant = src[h].grant
                                 /\ src[h] \in Token /\ pc[h] \notin Fresh
           /\ out[h].main = 0 => out[h].refresh = 0
           /\ out[h].refresh # 0 => out[h].rt \in Token /\ out[h].rt.grant = src[h].grant
           /\ (pc[h] # "idle" /\ req[h].op \in Lookups) => req[h].value \in disclosed
           /\ (pc[h] # "idle" /\ req[h].op \in Lookups) => req[h].value \in Values
<1>1. TypeOK /\ HandlerOK(h) /\ RecordsOK(h) /\ GrantsOK
  BY DEF Inductive, HandlersOK, Safe
<1>2. out[h].main # 0 => pc[h] \notin Fresh
  BY <1>1, NoTokensType DEF HandlerOK
<1> QED BY <1>1, <1>2, NoTokensType
       DEF TypeOK, HandlerOK, RecordsOK, GrantsOK, Fresh

(* A record of a grant that has begun stays within it. *)
LEMMA LawfulStays ==
    ASSUME Inductive, Next, NEW t \in Token, t.grant < nextGrant, Lawful(t)
    PROVE  Lawful(t)'
<1>1. granted'[t.grant] = granted[t.grant]
  BY GrantedStep, TokenFields
<1> QED BY <1>1 DEF Lawful

(* ConsumeToken keeps a code or refresh token within its grant. *)
LEMMA LawfulMarked ==
    ASSUME NEW t \in Token, Lawful(t), t.kind # "access_token"
    PROVE  Lawful([t EXCEPT !.consumed = TRUE])
<1> DEFINE u == [t EXCEPT !.consumed = TRUE]
<1>1. /\ u.kind = t.kind /\ u.grant = t.grant /\ u.issuer = t.issuer
      /\ u.client = t.client /\ u.subject = t.subject /\ u.scopes = t.scopes
      /\ u.audience = t.audience
  BY DEF Token
<1> HIDE DEF u
<1>2. Lawful(u)
  BY <1>1 DEF Lawful
<1> QED BY <1>2 DEF u

(* Stored tokens are within their grants. *)
LEMMA StoredLawful ==
    ASSUME Inductive, Contents, Next, NEW v \in Values, tokens'[v] # NotFound
    PROVE  Lawful(tokens[v])'
<1>0. tokens[v] # NotFound =>
        tokens[v] \in Token /\ tokens[v].grant < nextGrant /\ Lawful(tokens[v])
  BY DEF Inductive, TypeOK, TokenMaps, Safe, GrantsOK, Contents, Has
<1>1. ASSUME tokens'[v] = tokens[v] PROVE Lawful(tokens[v])'
  <2>1. PICK t \in Token : t = tokens[v] /\ t.grant < nextGrant /\ Lawful(t)
    BY <1>0, <1>1
  <2>2. Lawful(t)' /\ tokens'[v] = t
    BY <1>1, <2>1, LawfulStays
  <2> QED BY <2>2 DEF Lawful
<1>2. CASE Drops(Values)
  BY <1>1, <1>2 DEF Drops
<1>3. ASSUME NEW h \in Procs, Creates(h) PROVE Lawful(tokens[v])'
  <2>1. PICK w \in MintedValues(h), t \in Token :
          /\ \/ w = out[h].main /\ t = out[h].at
             \/ w = out[h].refresh /\ t = out[h].rt
          /\ tokens'[w] = t
          /\ Drops(Values \ {w})
    BY <1>3, CreatesFacts
  <2>2. CASE v = w
    <3>1. w # 0
      BY DEF MintedValues
    <3>2. Lawful(t) /\ t.grant < nextGrant
      BY <2>1, <3>1, HandlerFacts, TokenFields DEF Contents, HoldsLawful
    <3>3. Lawful(t)' /\ tokens'[v] = t
      BY <2>1, <2>2, <3>2, LawfulStays
    <3> QED BY <3>3 DEF Lawful
  <2>3. CASE v # w
    BY <1>1, <2>1, <2>3 DEF Drops
  <2> QED BY <2>2, <2>3
<1>4. ASSUME NEW h \in Procs, Marks(h) PROVE Lawful(tokens[v])'
  <2>1. CASE v # req[h].value
    BY <1>1, <1>4, <2>1, MarksFacts
  <2>2. CASE v = req[h].value
    <3>1. tokens[v] \in Token /\ tokens'[v] = [tokens[v] EXCEPT !.consumed = TRUE]
      BY <1>4, <2>2, MarksFacts
    <3>2. tokens[v].kind # "access_token"
      <4>1. pc[h] = "consume" /\ req[h].op \in Exchanges /\ Has(tokens, v)
        BY <1>4, <2>2, MarksFacts DEF Marks, At
      <4>2. CopyOK(h) /\ Checked(h)
        BY DEF Contents
      <4>3. tokens[v].kind = src[h].kind
        BY <2>2, <4>1, <4>2 DEF CopyOK, Copy, Lookups
      <4>4. src[h].kind = req[h].op
        BY <4>1, <4>2 DEF Checked, Own
      <4> QED BY <4>1, <4>3, <4>4 DEF Exchanges
    <3> DEFINE u == [tokens[v] EXCEPT !.consumed = TRUE]
    <3>3. u \in Token /\ u.grant = tokens[v].grant
      BY <3>1 DEF Token
    <3>4. Lawful(u)
      BY <1>0, <3>1, <3>2, LawfulMarked, TokenFields
    <3>5. tokens'[v] = u
      BY <3>1
    <3> HIDE DEF u
    <3>6. PICK c \in Token : c = u /\ c.grant < nextGrant /\ Lawful(c)
      BY <1>0, <3>1, <3>3, <3>4, TokenFields
    <3>7. Lawful(c)' /\ tokens'[v] = c
      BY <3>5, <3>6, LawfulStays
    <3> QED BY <3>7 DEF Lawful
  <2> QED BY <2>1, <2>2
<1> QED BY <1>2, <1>3, <1>4, StoreStep

(* derive changes what it is told to change. *)
LEMMA DeriveFields ==
    ASSUME NEW t \in Token, NEW kind, NEW s, NEW a, NEW e
    PROVE  LET d == derive(t, kind, s, a, e) IN
           /\ d.kind = kind /\ d.grant = t.grant /\ d.issuer = t.issuer
           /\ d.client = t.client /\ d.subject = t.subject /\ d.scopes = s
           /\ d.audience = a /\ ~d.consumed
  BY DEF derive, Token

(* mintTokens: tokens are within the grant and within the registration. *)
LEMMA MintsLawful ==
    ASSUME Inductive, Contents, NEW h \in Procs, Mints(h)
    PROVE  /\ Lawful(out'[h].at) /\ ~out'[h].at.consumed
           /\ out'[h].refresh # 0 => Lawful(out'[h].rt) /\ ~out'[h].rt.consumed
           /\ out'[h].at.scopes \subseteq req[h].reg.scopes
           /\ out'[h].at.audience \subseteq req[h].reg.audience
           /\ out'[h].refresh # 0 => "refresh_token" \in req[h].reg.grants
<1> DEFINE r == req[h]
           t == src[h]
           g == granted[t.grant]
<1>1. PICK s \in SUBSET Scopes, a \in SUBSET Audiences, rf \in BOOLEAN,
           al \in AccessLifetimes, rl \in RefreshLifetimes :
             /\ planned(r, t, s, a, rf)
             /\ out'[h] = minted(t, s, a, rf, al, rl)
  BY Zenon DEF Mints
<1>2. /\ t \in Token /\ pc[h] = "issue" /\ Checked(h) /\ Lawful(t)
      /\ r.op \in Exchanges \union Direct
  <2>1. pc[h] = "issue" /\ t \in Token /\ t # NotFound
    BY HandlerFacts, TokenFields DEF Mints
  <2>2. r.op \in Exchanges \union Starts
    BY <2>1 DEF Inductive, HandlersOK, HandlerOK
  <2> QED BY <2>1, <2>2 DEF Contents, Checked, HoldsLawful, Starts
<1> DEFINE at == derive(t, "access_token", s, a, now + al)
           rt == derive(t, "refresh_token", t.scopes, t.audience, now + rl)
<1>3. /\ out'[h].at = at
      /\ out'[h].refresh # 0 => rf /\ out'[h].rt = rt
  BY <1>1 DEF minted
<1>4. /\ at.kind = "access_token" /\ at.grant = t.grant /\ at.issuer = t.issuer
      /\ at.client = t.client /\ at.subject = t.subject /\ at.scopes = s
      /\ at.audience = a /\ ~at.consumed
  BY <1>2, DeriveFields
<1>5. /\ rt.kind = "refresh_token" /\ rt.grant = t.grant /\ rt.issuer = t.issuer
      /\ rt.client = t.client /\ rt.subject = t.subject /\ rt.scopes = t.scopes
      /\ rt.audience = t.audience /\ ~rt.consumed
  BY <1>2, DeriveFields
<1> HIDE DEF at, rt, g
<1>6. s \subseteq t.scopes /\ a \subseteq t.audience
  BY <1>1, <1>2 DEF planned, narrowed, accessScopes, Checked, narrowScopes
<1>7. Lawful(at)
  BY <1>2, <1>4, <1>6 DEF Lawful
<1>8. /\ s \subseteq r.reg.scopes /\ a \subseteq r.reg.audience
  BY <1>2, <1>6 DEF Checked, checkClientGrant
<1>9. ASSUME rf PROVE Lawful(rt) /\ "refresh_token" \in r.reg.grants
  <2>0. withRefresh(r, t)
    BY <1>1, <1>9 DEF planned
  <2>1. CASE r.op = "authorization_code"
    <3>1. /\ "refresh_token" \in r.reg.grants
          /\ "openid" \in t.scopes => "offline_access" \in t.scopes
      BY <2>0, <2>1 DEF withRefresh
    <3>2. t.kind = "authorization_code"
      BY <1>2, <2>1 DEF Checked, Own, Exchanges
    <3> QED BY <1>2, <1>5, <3>1, <3>2 DEF Lawful
  <2>2. CASE r.op = "refresh_token"
    <3>1. t.kind = "refresh_token" /\ "refresh_token" \in r.reg.grants
      BY <1>2, <2>2 DEF Checked, Own, Exchanges
    <3> QED BY <1>2, <1>5, <3>1 DEF Lawful
  <2>3. CASE r.op \in Direct
    <3>1. r.refresh
      BY <2>0, <2>3 DEF withRefresh, Direct
    <3>2. /\ "refresh_token" \in r.reg.grants
          /\ granted[t.grant].op # "approve"
          /\ t.scopes = granted[t.grant].scopes /\ t.audience = granted[t.grant].audience
      BY <1>2, <2>3, <3>1 DEF Checked, Direct
    <3> QED BY <1>2, <1>5, <3>2 DEF Lawful
  <2> QED BY <1>2, <2>1, <2>2, <2>3 DEF Exchanges
<1> QED BY <1>3, <1>4, <1>5, <1>7, <1>8, <1>9

(* A request that starts a grant has a record within it. *)
LEMMA StartsLawful ==
    ASSUME Inductive, NEW h \in Procs, StartsGrant(h)
    PROVE  /\ Lawful(src[h])'
           /\ LET g == granted'[src'[h].grant] IN
              /\ g.op = req'[h].op
              /\ g.scopes = src'[h].scopes /\ g.audience = src'[h].audience
<1> DEFINE t == src'[h]
           r == req'[h]
           g == [op |-> r.op, issuer |-> t.issuer, client |-> t.client,
                 subject |-> t.subject, scopes |-> t.scopes, audience |-> t.audience]
<1>1. /\ t \in Token /\ ~t.consumed /\ t.kind # "refresh_token" /\ t.grant \in Grants
      /\ r.op \in {"approve"} \union Direct
      /\ granted' = [granted EXCEPT ![t.grant] = g]
  BY DEF StartsGrant
<1>2. granted'[t.grant] = g
  BY <1>1 DEF Inductive, TypeOK
<1>3. g \in GrantInfo
  BY <1>1 DEF Token, GrantInfo
<1> QED BY <1>1, <1>2, <1>3 DEF Lawful

(* The records of handlers stay within their grants. *)
LEMMA HoldsLawfulStep ==
    ASSUME Inductive, Contents, Next, NEW k \in Procs
    PROVE  HoldsLawful(k)'
<1>0. HoldsLawful(k)
  BY DEF Contents
<1>1. ASSUME NEW t \in Token, t.grant < nextGrant, Lawful(t) PROVE Lawful(t)'
  BY <1>1, LawfulStays
<1>2. /\ src[k] # NotFound => Lawful(src[k]) /\ src[k] \in Token /\ src[k].grant < nextGrant
      /\ out[k].main # 0 => /\ Lawful(out[k].at) /\ out[k].at \in Token
                            /\ out[k].at.grant < nextGrant /\ ~out[k].at.consumed
      /\ out[k].refresh # 0 => /\ Lawful(out[k].rt) /\ out[k].rt \in Token
                               /\ out[k].rt.grant < nextGrant /\ ~out[k].rt.consumed
  BY <1>0, HandlerFacts, TokenFields DEF HoldsLawful
<1>3. src'[k] = src[k] => (src'[k] # NotFound => Lawful(src[k])')
  <2>1. PICK t : t = src[k]
    OBVIOUS
  <2>2. t # NotFound => Lawful(t)'
    BY <1>1, <1>2, <2>1
  <2> QED BY <2>1, <2>2 DEF Lawful
<1>4. out'[k] = out[k] =>
        /\ out'[k].main # 0 => Lawful(out[k].at)' /\ ~out'[k].at.consumed
        /\ out'[k].refresh # 0 => Lawful(out[k].rt)' /\ ~out'[k].rt.consumed
  <2>1. PICK o : o = out[k]
    OBVIOUS
  <2>2. /\ o.main # 0 => Lawful(o.at)' /\ ~o.at.consumed
        /\ o.refresh # 0 => Lawful(o.rt)' /\ ~o.rt.consumed
    BY <1>1, <1>2, <2>1
  <2> QED BY <2>1, <2>2 DEF Lawful
<1>5. CASE Stays(k) \/ Checks(k) \/ Moves(k)
  BY <1>3, <1>4, <1>5 DEF Stays, Checks, Moves, HoldsLawful
<1>6. CASE Loads(k) \/ Rereads(k)
  <2>1. /\ src'[k] = tokens[req[k].value] /\ Has(tokens, req[k].value) /\ out'[k] = out[k]
        /\ pc[k] \in {"load", "consume"}
    BY <1>6 DEF Loads, Rereads
  <2>2. req[k].op \in Lookups
    BY <2>1 DEF Inductive, HandlersOK, HandlerOK, Lookups
  <2>3. req[k].value \in Values
    BY <2>1, <2>2, HandlerFacts
  <2>4. PICK t \in Token : t = tokens[req[k].value] /\ t.grant < nextGrant /\ Lawful(t)
    BY <2>1, <2>3 DEF Inductive, TypeOK, TokenMaps, Safe, GrantsOK, Contents, Has
  <2>5. Lawful(t)' /\ src'[k] = t
    BY <1>1, <2>1, <2>4
  <2> QED BY <1>4, <2>1, <2>5 DEF HoldsLawful, Lawful
<1>7. CASE Mints(k)
  <2>1. src'[k] = src[k] /\ src[k] \in Token /\ src[k].grant < nextGrant
    BY <1>7, HandlerFacts, TokenFields DEF Mints
  <2>2. Inductive'
    BY StepInductive
  <2>3. /\ out'[k].main # 0 => out'[k].at \in Token /\ out'[k].at.grant = src'[k].grant
        /\ out'[k].refresh # 0 => out'[k].rt \in Token /\ out'[k].rt.grant = src'[k].grant
    BY <2>2 DEF Inductive, HandlersOK, HandlerOK, Safe, RecordsOK
  <2>4. ASSUME out'[k].main # 0 PROVE Lawful(out[k].at)' /\ ~out'[k].at.consumed
    <3>1. PICK t \in Token : t = out'[k].at /\ t.grant < nextGrant /\ Lawful(t) /\ ~t.consumed
      BY <1>7, <2>1, <2>3, <2>4, MintsLawful
    <3>2. Lawful(t)'
      BY <1>1, <3>1
    <3> QED BY <3>1, <3>2 DEF Lawful
  <2>5. ASSUME out'[k].refresh # 0 PROVE Lawful(out[k].rt)' /\ ~out'[k].rt.consumed
    <3>1. PICK t \in Token : t = out'[k].rt /\ t.grant < nextGrant /\ Lawful(t) /\ ~t.consumed
      BY <1>7, <2>1, <2>3, <2>5, MintsLawful
    <3>2. Lawful(t)'
      BY <1>1, <3>1
    <3> QED BY <3>1, <3>2 DEF Lawful
  <2> QED BY <1>3, <2>1, <2>4, <2>5 DEF HoldsLawful
<1>8. CASE Idles(k) \/ Asks(k)
  BY <1>8, NoTokensType DEF Idles, Asks, HoldsLawful
<1>9. CASE StartsGrant(k)
  <2>1. Lawful(src[k])' /\ ~src'[k].consumed
    BY <1>9, StartsLawful DEF StartsGrant
  <2>2. out'[k].refresh = 0 /\ (out'[k].main # 0 => out'[k].at = src'[k])
    BY <1>9, NoTokensType DEF StartsGrant
  <2> QED BY <2>1, <2>2 DEF HoldsLawful, Lawful
<1> QED BY <1>5, <1>6, <1>7, <1>8, <1>9, HandlerStep

(* Handlers go on only as far as their checks allow. *)
LEMMA CheckedStep ==
    ASSUME Inductive, Contents, Next, NEW k \in Procs
    PROVE  Checked(k)'
<1>0. Checked(k) /\ HoldsLawful(k)
  BY DEF Contents
<1>1. pc[k] \in PCs /\ HandlerOK(k)
  BY DEF Inductive, TypeOK, HandlersOK
<1>2. src[k] # NotFound => granted'[src[k].grant] = granted[src[k].grant]
  BY HandlerFacts, GrantedStep, TokenFields
<1>3. CASE Stays(k)
  <2>1. pc[k] \notin {"idle", "load"} => src[k] # NotFound
    BY HandlerFacts, TokenFields
  <2>2. (pc[k] # "idle" /\ req[k].op \in Direct) => pc[k] # "load"
    BY <1>1 DEF HandlerOK, Lookups, Exchanges, Reads, Direct
  <2> QED BY <1>0, <1>2, <1>3, <2>1, <2>2 DEF Stays, Checked
<1>4. CASE Idles(k)
  BY <1>4 DEF Idles, Checked
<1>5. CASE Loads(k)
  <2>1. /\ req'[k] = req[k] /\ out'[k] = out[k] /\ out[k] = NoTokens
        /\ pc[k] = "load" /\ req[k].op \in Lookups
    BY <1>1, <1>5 DEF Loads, HandlerOK, Fresh
  <2>2. /\ pc'[k] \in {"check", "act", "answer"}
        /\ req[k].op \in Exchanges => Own(req[k], src'[k])
        /\ pc'[k] = "act" => /\ src'[k].issuer = req[k].issuer
                             /\ src'[k].client = req[k].client
                             /\ src'[k].kind # "authorization_code"
    BY <1>5, <2>1 DEF Loads, AfterLoad, Continues, Lookups, Exchanges, Reads
  <2>3. req[k].op \notin Direct \union Starts
    BY <2>1 DEF Lookups, Exchanges, Reads, Direct, Starts
  <2> QED BY <1>0, <2>1, <2>2, <2>3, NoTokensType DEF Checked, Underway
<1>6. CASE Checks(k)
  <2>1. /\ req'[k] = req[k] /\ src'[k] = src[k] /\ out'[k] = out[k] /\ out[k] = NoTokens
        /\ pc[k] = "check" /\ req[k].op \in Exchanges /\ pc'[k] \in {"reuse", "issue"}
        /\ Verified(req[k], src[k])
    BY <1>1, <1>6 DEF Checks, HandlerOK, Fresh
  <2>2. pc'[k] = "issue" => /\ checkClientGrant(req[k], src[k]) /\ narrowScopes(req[k], src[k])
                            /\ ~req[k].dead
    <3>1. DeadOK(k)
      BY DEF Contents
    <3>2. src[k] \in Token /\ now \in Int
      BY <2>1, HandlerFacts DEF Inductive, TypeOK
    <3>3. src[k].expiresAt \in Int
      BY <3>2 DEF Token
    <3> QED BY <1>6, <2>1, <3>1, <3>2, <3>3 DEF Checks, Acceptable, DeadOK
  <2>3. req[k].op \notin Direct \union Starts
    BY <2>1 DEF Exchanges, Direct, Starts
  <2>4. req[k].op # "approve"
    BY <2>1 DEF Exchanges
  <2> QED BY <1>0, <2>1, <2>2, <2>3, <2>4, NoTokensType DEF Checked, Underway
<1>7. CASE Mints(k)
  <2>1. /\ req'[k] = req[k] /\ src'[k] = src[k] /\ pc[k] = "issue" /\ pc'[k] = "store"
    BY <1>7 DEF Mints
  <2>2. src[k] # NotFound
    BY <2>1, HandlerFacts, TokenFields
  <2>3. out'[k].main # 0 =>
            /\ out'[k].at.scopes \subseteq req[k].reg.scopes
            /\ out'[k].at.audience \subseteq req[k].reg.audience
            /\ out'[k].refresh # 0 => "refresh_token" \in req[k].reg.grants
    BY <1>7, MintsLawful
  <2> QED BY <1>0, <1>2, <2>1, <2>2, <2>3 DEF Checked, Underway
<1>8. CASE Moves(k)
  <2>1. /\ req'[k] = req[k] /\ src'[k] = src[k] /\ out'[k] = out[k]
        /\ pc[k] \in (Underway \ {"issue"}) \union {"reuse", "discard"}
        /\ pc'[k] \in (Underway \ {"issue"}) \union {"discard", "discard_refresh"}
        /\ pc'[k] \in Underway => pc[k] \in Underway
    BY <1>8 DEF Moves, Underway
  <2>2. src[k] # NotFound
    BY <2>1, HandlerFacts, TokenFields DEF Underway
  <2> QED BY <1>0, <1>2, <2>1, <2>2 DEF Checked, Underway
<1>9. CASE Rereads(k)
  <2>1. /\ req'[k] = req[k] /\ out'[k] = out[k] /\ pc[k] = "consume" /\ pc'[k] = "reuse"
        /\ src'[k] = tokens[req[k].value] /\ Has(tokens, req[k].value)
    BY <1>9 DEF Rereads
  <2>2. req[k].op \in Exchanges /\ req[k].value \in Values
    BY <1>1, <2>1, HandlerFacts DEF HandlerOK, Lookups
  <2>3. Copy(src'[k], src[k])
    BY <2>1, <2>2 DEF Contents, CopyOK, Lookups
  <2>4. Lawful(src[k]) /\ Lawful(tokens[req[k].value])
        /\ tokens[req[k].value].grant = src[k].grant
    <3>1. src[k] # NotFound
      BY <2>1, HandlerFacts, TokenFields
    <3> QED BY <1>0, <2>1, <2>2, <3>1
            DEF HoldsLawful, Contents, Inductive, Safe, SourceOK, Lookups
  <2>5. Own(req[k], src'[k])
    BY <1>0, <2>1, <2>2, <2>3, <2>4 DEF Checked, Own, Lawful, Copy
  <2>6. Verified(req[k], src'[k])
    <3>1. Verified(req[k], src[k])
      BY <1>0, <2>1, <2>2 DEF Checked, Underway
    <3> QED BY <2>3, <3>1 DEF Verified, redirectMatches, verifyPKCE, Copy
  <2>7. req[k].op \notin Direct \union Starts
    BY <2>2 DEF Exchanges, Direct, Starts
  <2> QED BY <1>0, <2>1, <2>2, <2>5, <2>6, <2>7 DEF Checked, Underway
<1>10. CASE Asks(k)
  <2>1. /\ pc'[k] = "load" /\ out'[k] = NoTokens /\ req'[k].op \in Lookups
        /\ req'[k].op = "refresh_token" => "refresh_token" \in req'[k].reg.grants
    BY <1>10 DEF Asks
  <2>2. req'[k].op \notin Direct \union Starts
    BY <2>1 DEF Lookups, Exchanges, Reads, Direct, Starts
  <2> QED BY <2>1, <2>2, NoTokensType DEF Checked, Underway
<1>11. CASE StartsGrant(k)
  <2> DEFINE r == req'[k]
             t == src'[k]
  <2>1. /\ ~r.dead /\ checkClientGrant(r, t) /\ r.scopes = NoScopeParam
        /\ \/ /\ pc'[k] = "issue" /\ r.op \in Direct /\ out'[k] = NoTokens
              /\ r.refresh => "refresh_token" \in r.reg.grants
           \/ /\ pc'[k] = "store" /\ r.op = "approve"
              /\ out'[k].at = t /\ out'[k].refresh = 0
    BY <1>11 DEF StartsGrant
  <2>2. r.op \in Direct => LET g == granted'[t.grant] IN
            g.op \in Direct /\ t.scopes = g.scopes /\ t.audience = g.audience
    BY <1>11, StartsLawful
  <2>3. r.op \notin Exchanges /\ r.op # "refresh_token"
    BY <2>1 DEF Exchanges, Direct
  <2>4. r.op \in Direct => r.op # "approve"
    BY DEF Direct
  <2> QED BY <2>1, <2>2, <2>3, <2>4, NoTokensType
          DEF Checked, checkClientGrant, narrowScopes
<1> QED BY <1>3, <1>4, <1>5, <1>6, <1>7, <1>8, <1>9, <1>10, <1>11, HandlerStep

(* The loaded copy of a token stays faithful to the stored record. *)
LEMMA CopyStep ==
    ASSUME Inductive, Contents, Next, NEW k \in Procs
    PROVE  CopyOK(k)'
<1> SUFFICES ASSUME pc'[k] \notin {"idle", "load"}, req'[k].op \in Lookups,
                    tokens'[req'[k].value] # NotFound
             PROVE  Copy(tokens'[req'[k].value], src'[k])
  BY DEF CopyOK, Has
<1>1. ~Idles(k) /\ ~Asks(k)
  BY DEF Idles, Asks
<1>2. ~StartsGrant(k)
  BY DEF StartsGrant, Direct, Lookups, Exchanges, Reads
<1>3. req'[k] = req[k] /\ pc[k] # "idle"
  BY <1>1, <1>2, HandlerStep DEF Stays, Loads, Checks, Mints, Moves, Rereads
<1> DEFINE v == req[k].value
<1>4. v \in disclosed /\ v \in Values
  BY <1>3, HandlerFacts
<1>5. tokens[v] \in Token /\ Copy(tokens'[v], tokens[v])
  <2>1. tokens[v] \in Token
    BY <1>3, <1>4, DisclosedStep DEF Inductive, TypeOK, TokenMaps
  <2>2. LET u == [tokens[v] EXCEPT !.consumed = TRUE] IN Copy(u, tokens[v])
    BY <2>1 DEF Token, Copy
  <2> QED BY <1>3, <1>4, <2>1, <2>2, DisclosedStep DEF Copy
<1>6. CASE src'[k] = tokens[v]
  BY <1>3, <1>5, <1>6
<1>7. CASE src'[k] = src[k] /\ pc[k] # "load"
  <2>1. Copy(tokens[v], src[k])
    BY <1>3, <1>5, <1>7, TokenFields DEF Contents, CopyOK, Has
  <2> QED BY <1>3, <1>5, <1>7, <2>1 DEF Copy
<1> QED BY <1>1, <1>2, <1>6, <1>7, HandlerStep
        DEF Stays, Loads, Checks, Mints, Moves, Rereads

(* A spent token that a client holds stays spent. *)
LEMMA SpentStays ==
    ASSUME Inductive, Next, NEW v \in disclosed, Spent(v)
    PROVE  Spent(v)'
<1>0. v \in Values
  BY DEF Inductive, TypeOK
<1>1. tokens[v] \in Token \union {NotFound}
  BY <1>0 DEF Inductive, TypeOK, TokenMaps
<1>2. tokens[v] \in Token => tokens[v].expiresAt \in Int
  BY DEF Token
<1>4. CASE tokens'[v] = NotFound
  BY <1>4 DEF Spent, Has
<1>5. CASE tokens'[v] = tokens[v]
  <2>1. tokens[v] \in Token /\ now >= tokens[v].expiresAt => now' >= tokens[v].expiresAt
    BY <1>2, ClockStep
  <2> QED BY <1>1, <1>5, <2>1 DEF Spent, Has
<1>6. CASE tokens[v] \in Token /\ tokens'[v] = [tokens[v] EXCEPT !.consumed = TRUE]
  <2>1. tokens'[v].consumed
    BY <1>6 DEF Token
  <2> QED BY <2>1 DEF Spent
<1> QED BY <1>4, <1>5, <1>6, DisclosedStep

(* A request for a spent token keeps finding it spent. *)
LEMMA DeadStep ==
    ASSUME Inductive, Contents, Next, NEW k \in Procs
    PROVE  DeadOK(k)'
<1> SUFFICES ASSUME pc'[k] # "idle", req'[k].dead
             PROVE  /\ Spent(req[k].value)'
                    /\ pc'[k] # "load" => src'[k].consumed \/ now' >= src'[k].expiresAt
  BY DEF DeadOK
<1>1. ~Idles(k) /\ ~StartsGrant(k)
  BY DEF Idles, StartsGrant
<1>2. CASE Asks(k)
  <2>1. PICK v \in disclosed : v = req'[k].value /\ Spent(v)
    BY <1>2 DEF Asks
  <2>2. Spent(v)' /\ pc'[k] = "load"
    BY <1>2, <2>1, SpentStays DEF Asks
  <2> QED BY <2>1, <2>2 DEF Spent
<1>3. CASE ~Asks(k)
  <2>1. req'[k] = req[k] /\ pc[k] # "idle"
    BY <1>1, <1>3, HandlerStep DEF Stays, Loads, Checks, Mints, Moves, Rereads
  <2>2. DeadOK(k) /\ Checked(k) /\ req[k].dead
    BY <2>1 DEF Contents
  <2>3. req[k].op \in Lookups
    <3>1. req[k] \in Request /\ req[k].op \notin Starts
      BY <2>1, <2>2, HandlerFacts DEF Checked
    <3> QED BY <3>1 DEF Request, Ops, Starts, Lookups, Exchanges, Reads, Direct
  <2>4. PICK v \in disclosed : v = req[k].value /\ Spent(v)
    BY <2>1, <2>2, <2>3, HandlerFacts DEF DeadOK
  <2>5. Spent(v)'
    BY <2>4, SpentStays
  <2>6. Spent(req[k].value)'
    BY <2>1, <2>4, <2>5 DEF Spent
  <2>7. v \in Values /\ now \in Int /\ now' \in Int /\ now' >= now
    BY ClockStep DEF Inductive, TypeOK
  <2>8. CASE src'[k] = tokens[v] /\ Has(tokens, v)
    <3>1. tokens[v] \in Token
      BY <2>7, <2>8 DEF Inductive, TypeOK, TokenMaps, Has
    <3>2. tokens[v].consumed \/ now >= tokens[v].expiresAt
      BY <2>4, <2>8 DEF Spent
    <3>3. tokens[v].expiresAt \in Int
      BY <3>1 DEF Token
    <3> QED BY <2>6, <2>7, <2>8, <3>2, <3>3
  <2>9. CASE src'[k] = src[k] /\ (pc'[k] # "load" => pc[k] # "load")
    <3>1. pc[k] # "load" => src[k] \in Token
      BY <2>1, HandlerFacts
    <3>2. src[k] \in Token => src[k].expiresAt \in Int
      BY DEF Token
    <3> QED BY <2>2, <2>1, <2>6, <2>7, <2>9, <3>1, <3>2 DEF DeadOK
  <2> QED BY <1>1, <1>3, <2>4, <2>8, <2>9, HandlerStep
          DEF Stays, Loads, Checks, Mints, Moves, Rereads
<1> QED BY <1>2, <1>3

(* The content of records is an invariant. *)
LEMMA ContentsInvariant == Spec => []Contents
<1>1. Init => Contents
  <2> SUFFICES ASSUME Init PROVE Contents
    OBVIOUS
  <2>1. \A v \in Values : ~Has(tokens, v)
    BY DEF Init, NoTokensStored, Has
  <2>2. \A h \in Procs : /\ pc[h] = "idle" /\ src[h] = NotFound
                         /\ out[h].main = 0 /\ out[h].refresh = 0
    BY NoTokensType DEF Init
  <2> QED BY <2>1, <2>2 DEF Contents, HoldsLawful, Checked, CopyOK, DeadOK
<1>2. Inductive /\ Contents /\ [Next]_vars => Contents'
  <2>1. ASSUME Inductive, Contents, Next PROVE Contents'
    <3>1. \A v \in Values : tokens'[v] # NotFound => Lawful(tokens[v])'
      BY <2>1, StoredLawful
    <3>2. \A h \in Procs : HoldsLawful(h)' /\ Checked(h)' /\ CopyOK(h)' /\ DeadOK(h)'
      BY <2>1, HoldsLawfulStep, CheckedStep, CopyStep, DeadStep
    <3> QED BY <3>1, <3>2 DEF Contents, Has
  <2>2. ASSUME Contents, UNCHANGED vars PROVE Contents'
    <3>1. UNCHANGED <<tokens, pc, req, src, out, granted, now>>
      BY <2>2 DEF vars, handler, store, world, history
    <3>2. \A v \in Values : Has(tokens, v)' => Lawful(tokens[v])'
      BY <2>2, <3>1 DEF Contents, Has, Lawful
    <3>3. ASSUME NEW h \in Procs PROVE HoldsLawful(h)'
      BY <2>2, <3>1 DEF Contents, HoldsLawful, Lawful
    <3>4. ASSUME NEW h \in Procs PROVE Checked(h)'
      BY <2>2, <3>1 DEF Contents, Checked
    <3>5. ASSUME NEW h \in Procs PROVE CopyOK(h)' /\ DeadOK(h)'
      BY <2>2, <3>1 DEF Contents, CopyOK, DeadOK, Has, Spent
    <3> QED BY <3>2, <3>3, <3>4, <3>5 DEF Contents
  <2> QED BY <2>1, <2>2
<1> QED BY <1>1, <1>2, InductiveInvariant, PTL DEF Spec

(***************************************************************************)
(* Tokens never exceed their grant, through any number of rotations, hooks *)
(* and scope parameters (mintTokens, narrowScopes, narrowed).              *)
(***************************************************************************)
THEOREM TokensStayWithinGrants == Spec => []WithinGrant
<1>1. Contents => WithinGrant
  BY DEF Contents, WithinGrant, Lawful
<1> QED BY <1>1, ContentsInvariant, PTL

(***************************************************************************)
(* A refresh token of an OpenID Connect grant was asked for with           *)
(* offline_access, however often it was rotated (withRefresh).             *)
(***************************************************************************)
THEOREM RefreshIsOffline == Spec => []RefreshNeedsOfflineAccess
<1>1. Contents => RefreshNeedsOfflineAccess
  BY DEF Contents, RefreshNeedsOfflineAccess, Lawful
<1> QED BY <1>1, ContentsInvariant, PTL

(***************************************************************************)
(* Whatever a handler is going to return is within the registration that   *)
(* the client had when it authenticated (checkClientGrant, DirectAllowed). *)
(***************************************************************************)
THEOREM WithinRegistration == Spec => []IssuedWithinRegistration
<1>1. Inductive /\ Contents => IssuedWithinRegistration
  <2> SUFFICES ASSUME Inductive, Contents, NEW h \in Procs, out[h].main # 0
               PROVE  /\ out[h].at.scopes \subseteq req[h].reg.scopes
                      /\ out[h].at.audience \subseteq req[h].reg.audience
                      /\ out[h].refresh # 0 => "refresh_token" \in req[h].reg.grants
    BY DEF IssuedWithinRegistration
  <2>1. pc[h] # "idle"
    BY HandlerFacts DEF Fresh
  <2> QED BY <2>1 DEF Contents, Checked
<1> QED BY <1>1, InductiveInvariant, ContentsInvariant, PTL

(***************************************************************************)
(* A token that was revoked, used or expired before a request came buys    *)
(* nothing and is never reported active (checkUnused, consume,             *)
(* introspectionActive, userInfoActive, ValidateAccessToken).              *)
(***************************************************************************)
THEOREM SpentIsUseless == Spec => []SpentTokensAreUseless
<1>1. Inductive /\ Contents => SpentTokensAreUseless
  <2> SUFFICES ASSUME Inductive, Contents, NEW h \in Procs, pc[h] # "idle", req[h].dead
               PROVE  ~Winning(h) /\ (At(h, "answer") => ~Active(h))
    BY DEF SpentTokensAreUseless, At
  <2>1. ~Winning(h)
    BY DEF Contents, Checked, Winning, At, Underway
  <2>2. ASSUME pc[h] = "answer", Active(h) PROVE FALSE
    <3>1. src[h] \in Token /\ now \in Int
      BY <2>2, HandlerFacts DEF Inductive, TypeOK
    <3>2. src[h].expiresAt \in Int
      BY <3>1 DEF Token
    <3>3. src[h].consumed
      BY <2>2, <3>1, <3>2 DEF Contents, DeadOK, Active
    <3>4. src[h].kind # "access_token"
      BY <3>1, <3>3, TokenFields DEF Contents, HoldsLawful, Lawful
    <3> QED BY <2>2, <3>3, <3>4
            DEF Active, introspectionActive, userInfoActive, ValidateAccessToken
  <2> QED BY <2>1, <2>2 DEF At
<1> QED BY <1>1, InductiveInvariant, ContentsInvariant, PTL

(***************************************************************************)
(* Only the owner of a grant, with the proofs of its code, uses up a token *)
(* or has the grant revoked (exchangeAuthorizationCode, consume,           *)
(* serveRevocation).                                                       *)
(***************************************************************************)
THEOREM OwnersSpend == Spec => OnlyTheOwnerSpends
<1> DEFINE A == \A v \in Values :
                  (/\ Has(tokens, v) /\ ~tokens[v].consumed
                   /\ tokens'[v] # NotFound /\ tokens'[v].consumed)
                  => \E h \in Procs : /\ At(h, "consume")
                                      /\ req[h].value = v
                                      /\ Entitled(h, tokens[v].grant)
                                      /\ Verified(req[h], tokens[v])
           B == \A g \in revoked' \ revoked :
                  \E h \in Procs : /\ src[h] # NotFound /\ src[h].grant = g
                                   /\ Entitled(h, g)
                                   /\ At(h, "reuse") => Verified(req[h], src[h])
<1>1. ASSUME Inductive, Contents, Next, NEW v \in Values,
             Has(tokens, v), ~tokens[v].consumed,
             tokens'[v] # NotFound, tokens'[v].consumed
      PROVE  \E h \in Procs : /\ At(h, "consume") /\ req[h].value = v
                              /\ Entitled(h, tokens[v].grant)
                              /\ Verified(req[h], tokens[v])
  <2>1. ~Drops(Values)
    BY <1>1 DEF Drops
  <2>2. ASSUME NEW h \in Procs, Creates(h) PROVE FALSE
    <3>1. PICK w \in MintedValues(h), t \in Token :
            /\ \/ w = out[h].main /\ t = out[h].at
               \/ w = out[h].refresh /\ t = out[h].rt
            /\ tokens'[w] = t
            /\ Drops(Values \ {w})
      BY <1>1, <2>2, CreatesFacts
    <3>2. ~t.consumed
      BY <1>1, <3>1 DEF Contents, HoldsLawful, MintedValues
    <3> QED BY <1>1, <3>1, <3>2 DEF Drops
  <2>3. PICK h \in Procs : Marks(h)
    BY <1>1, <2>1, <2>2, StoreStep
  <2>4. req[h].value = v /\ req[h].op \in Exchanges /\ pc[h] = "consume"
    BY <1>1, <2>3, MarksFacts DEF Marks, At
  <2>5. src[h] \in Token /\ src[h] # NotFound
    BY <1>1, <2>4, HandlerFacts, TokenFields
  <2>6. /\ Copy(tokens[v], src[h]) /\ tokens[v].grant = src[h].grant
        /\ Own(req[h], src[h]) /\ Verified(req[h], src[h]) /\ Lawful(src[h])
    BY <1>1, <2>4, <2>5 DEF Contents, CopyOK, Checked, HoldsLawful, Inductive, Safe,
                            SourceOK, Lookups, Underway
  <2>7. Entitled(h, tokens[v].grant)
    BY <2>6 DEF Entitled, Own, Lawful
  <2>8. Verified(req[h], tokens[v])
    BY <2>6 DEF Verified, redirectMatches, verifyPKCE, Copy
  <2> QED BY <2>4, <2>7, <2>8 DEF At
<1>2. ASSUME Inductive, Contents, Next, NEW g \in revoked' \ revoked
      PROVE  \E h \in Procs : /\ src[h] # NotFound /\ src[h].grant = g
                              /\ Entitled(h, g)
                              /\ At(h, "reuse") => Verified(req[h], src[h])
  <2>1. PICK h \in Procs : Revoke(h) \/ RevokeReused(h)
    <3>1. ASSUME NEW h \in Procs, Respond(h) PROVE revoked' = revoked
      BY <3>1 DEF Respond
    <3> QED BY <1>2, <3>1, HiddenStep
  <2>2. src[h].grant = g /\ pc[h] \in {"act", "reuse"}
    BY <1>2, <2>1 DEF Revoke, RevokeReused, RevokeGrant, StorageError, At
  <2>3. src[h] # NotFound /\ Lawful(src[h]) /\ Checked(h)
    BY <1>2, <2>2, HandlerFacts, TokenFields DEF Contents, HoldsLawful
  <2>4. src[h].issuer = req[h].issuer /\ src[h].client = req[h].client
    <3>1. pc[h] = "reuse" => req[h].op \in Exchanges
      BY <1>2 DEF Inductive, HandlersOK, HandlerOK
    <3> QED BY <2>2, <2>3, <3>1 DEF Checked, Own
  <2>5. Entitled(h, g)
    BY <2>2, <2>3, <2>4 DEF Entitled, Lawful
  <2>6. At(h, "reuse") => Verified(req[h], src[h])
    BY <1>2, <2>3 DEF At, Checked, Inductive, HandlersOK, HandlerOK
  <2> QED BY <2>2, <2>3, <2>5, <2>6
<1>3. Inductive /\ Contents /\ [Next]_vars => [A /\ B]_vars
  BY <1>1, <1>2
<1> QED BY <1>3, InductiveInvariant, ContentsInvariant, PTL DEF Spec, OnlyTheOwnerSpends

------------------------------------------------------------------------------
(* The outcome of exchanges. *)

(* Steps other than these four leave the outcome of exchanges alone. *)
Decides(h) == Respond(h) \/ Crash(h) \/ Consume(h) \/ ConsumeFails(h)

(* The exchanges that are won, seen from handler k. *)
SameWinner(k) == (Winning(k)' <=> Winning(k)) /\ (Winning(k) => req'[k] = req[k])

(* Steps that decide nothing: no token is marked, nobody wins or loses. *)
LEMMA UndecidedStep ==
    ASSUME Inductive, Next, \A h \in Procs : ~Decides(h)
    PROVE  /\ issued' = issued /\ disclosed' = disclosed
           /\ lost \subseteq lost'
           /\ \A v \in Values : <<v, "answer">> \in lost' => <<v, "answer">> \in lost
           /\ \A k \in Procs : SameWinner(k)
           /\ Drops(Values) \/ \E h \in Procs : Creates(h)
<1>1. /\ issued' = issued /\ disclosed' = disclosed
      /\ \/ lost' = lost
         \/ \E h \in Procs : Lose(h, "verdict")
         \/ \E v \in Values : lost' = lost \union {<<v, "part">>}
  <2>1. ASSUME NEW h \in Procs, Revoke(h) \/ RevokeReused(h)
        PROVE  issued' = issued /\ disclosed' = disclosed
    BY <2>1 DEF Revoke, RevokeReused
  <2>2. ASSUME NEW h \in Procs, ConsumeReused(h) \/ RevokeReused(h)
        PROVE  lost' = lost \/ Lose(h, "verdict")
    BY <2>2 DEF ConsumeReused, RevokeReused, history
  <2>3. ASSUME NEW h \in Procs, RevokePart(h)
        PROVE  lost' = lost \/ \E v \in Values : lost' = lost \union {<<v, "part">>}
    BY <2>3 DEF RevokePart
  <2> QED BY <2>1, <2>2, <2>3, HiddenStep DEF Decides
<1>2. ASSUME NEW h \in Procs, Arrive(h) \/ Step(h) \/ RevokePart(h)
      PROVE  SameWinner(h) /\ Only(h)
  <2>0. TypeOK /\ HandlerOK(h)
    BY DEF Inductive, HandlersOK
  <2>1. CASE Arrive(h)
    <3>1. Only(h) /\ pc[h] = "idle" /\ pc'[h] # "respond"
      BY <2>1, ArriveStep DEF Asks, StartsGrant
    <3> QED BY <3>1 DEF SameWinner, Winning, At
  <2>2. CASE RevokePart(h)
    BY <2>2 DEF RevokePart, handler, SameWinner, Only, Winning, At
  <2>3. CASE Store(h) \/ StoreRefresh(h)
    <3>1. PICK label \in PCs : /\ Goto(h, label) /\ pc[h] # "respond"
                               /\ label = "respond" => req[h].op \notin Exchanges
      BY <2>3 DEF Store, StoreRefresh, AfterStore, At, PCs
    <3> QED BY <2>0, <3>1, GotoStep DEF SameWinner, Winning, At
  <2>4. CASE Step(h) /\ ~Store(h) /\ ~StoreRefresh(h)
    <3>1. pc[h] # "respond"
      BY <2>4 DEF Decides, Step, LoadFinds, LoadRefuses, Answer, Revoke, CheckReuse,
           CheckPasses, CheckRefuses, Mint, MintFails, StoreFails, ConsumeReused,
           RevokeReused, Discard, DiscardRefresh, At
    <3>2. Only(h) /\ (\/ Idles(h) \/ Stays(h) \/ Loads(h) \/ Checks(h) \/ Mints(h)
                      \/ Moves(h) \/ Rereads(h))
      BY <2>4, OwnStep
    <3>3. pc'[h] = "respond" => Moves(h)
      BY <3>1, <3>2 DEF Idles, Stays, Loads, AfterLoad, Checks, Mints, Rereads
    <3>4. ASSUME Moves(h), pc'[h] = "respond" PROVE FALSE
      <4>1. pc[h] \in {"store", "store_refresh", "consume"}
        BY <3>4 DEF Moves
      <4>2. StoreFails(h) \/ ConsumeReused(h)
        BY <2>4, <4>1 DEF Decides, Step, LoadFinds, LoadRefuses, Answer, Revoke,
             CheckReuse, CheckPasses, CheckRefuses, Mint, MintFails, RevokeReused,
             Discard, DiscardRefresh, At
      <4>3. ~ConsumeReused(h)
        BY <2>0, <3>4 DEF ConsumeReused, TypeOK
      <4> QED BY <2>0, <3>4, <4>2, <4>3, FailMoves DEF StoreFails, Idles
    <3> QED BY <3>1, <3>2, <3>3, <3>4 DEF SameWinner, Winning, At
  <2> QED BY <1>2, <2>1, <2>2, <2>3, <2>4
<1>3. ASSUME NEW k \in Procs PROVE SameWinner(k)
  <2>1. ASSUME NEW h \in Procs, h # k, Only(h) PROVE SameWinner(k)
    BY <2>1 DEF Only, SameWinner, Winning, At
  <2>2. CASE SetClient \/ Tick \/ Collect
    BY <2>2 DEF SetClient, Tick, Collect, handler, SameWinner, Winning, At
  <2> QED BY <1>2, <2>1, <2>2 DEF Next, Decides
<1>4. Drops(Values) \/ \E h \in Procs : Creates(h)
  BY StoreStep DEF Decides
<1> QED BY <1>1, <1>3, <1>4 DEF Lose

(* No decision: nothing changes for the exchanges. *)
LEMMA UndecidedOutcomes ==
    ASSUME Inductive, Contents, Outcomes, Next, \A h \in Procs : ~Decides(h)
    PROVE  Outcomes'
<1>1. /\ issued' = issued /\ disclosed' = disclosed /\ lost \subseteq lost'
      /\ \A v \in Values : <<v, "answer">> \in lost' => <<v, "answer">> \in lost
      /\ \A k \in Procs : SameWinner(k)
      /\ Drops(Values) \/ \E h \in Procs : Creates(h)
  BY UndecidedStep
<1>2. ASSUME NEW v \in Values, tokens'[v] # NotFound, tokens'[v].consumed
      PROVE  tokens'[v] = tokens[v]
  <2>1. CASE Drops(Values)
    BY <1>2, <2>1 DEF Drops
  <2>2. ASSUME NEW h \in Procs, Creates(h) PROVE tokens'[v] = tokens[v]
    <3>1. PICK w \in MintedValues(h), t \in Token :
            /\ \/ w = out[h].main /\ t = out[h].at
               \/ w = out[h].refresh /\ t = out[h].rt
            /\ tokens'[w] = t
            /\ Drops(Values \ {w})
      BY <2>2, CreatesFacts
    <3>2. ~t.consumed
      BY <3>1 DEF Contents, HoldsLawful, MintedValues
    <3> QED BY <1>2, <3>1, <3>2 DEF Drops
  <2> QED BY <1>1, <2>1, <2>2
<1>3. ConsumedMeansExchanged'
  BY <1>1, <1>2 DEF Outcomes, ConsumedMeansExchanged, Has, SameWinner
<1>4. ASSUME NEW v \in Values, <<v, "answer">> \in lost', tokens'[v] # NotFound
      PROVE  tokens'[v].consumed
  <2>1. v \in disclosed /\ (tokens[v] # NotFound => tokens[v].consumed)
    BY <1>1, <1>4 DEF Outcomes, LostExchangesFailClosed, Has
  <2>2. [tokens[v] EXCEPT !.consumed = TRUE].consumed \/ tokens[v] \notin Token
    BY DEF Token
  <2> QED BY <1>4, <2>1, <2>2, DisclosedStep
<1>5. LostExchangesFailClosed'
  BY <1>1, <1>4 DEF Outcomes, LostExchangesFailClosed, Has, SameWinner
<1> QED BY <1>1, <1>3, <1>5 DEF Outcomes

(* ConsumeToken picks the winner. *)
LEMMA ConsumeOutcomes ==
    ASSUME Inductive, Outcomes, NEW h \in Procs, Consume(h)
    PROVE  Outcomes'
<1> DEFINE v == req[h].value
<1>0. TypeOK /\ HandlerOK(h)
  BY DEF Inductive, HandlersOK
<1>1. /\ pc[h] = "consume" /\ Has(tokens, v) /\ ~tokens[v].consumed /\ Marks(h)
      /\ issued' = issued /\ disclosed' = disclosed /\ lost' = lost
      /\ Goto(h, "respond")
  BY DEF Consume, Marks, At, history
<1>2. /\ v \in Values /\ req[h].op \in Exchanges
      /\ \A w \in Values \ {v} : tokens'[w] = tokens[w]
  BY <1>1, MarksFacts
<1>3. /\ pc'[h] = "respond" /\ req'[h] = req[h]
      /\ \A k \in Procs \ {h} : pc'[k] = pc[k] /\ req'[k] = req[k]
  BY <1>0, <1>1, GotoStep DEF Only, PCs
<1>4. <<v, "answer">> \notin lost
  BY <1>1, <1>2 DEF Outcomes, LostExchangesFailClosed
<1>5. ASSUME NEW w \in Values, Has(tokens, w)', tokens'[w].consumed
      PROVE  \/ \E x \in issued : x.used = w
             \/ \E k \in Procs : Winning(k)' /\ req'[k].value = w
             \/ <<w, "answer">> \in lost
  <2>1. CASE w = v
    BY <1>2, <1>3, <2>1 DEF Winning, At
  <2>2. CASE w # v
    <3>1. Has(tokens, w) /\ tokens[w].consumed
      BY <1>2, <1>5, <2>2 DEF Has
    <3>2. \/ \E x \in issued : x.used = w
          \/ \E k \in Procs : Winning(k) /\ req[k].value = w
          \/ <<w, "answer">> \in lost
      BY <3>1 DEF Outcomes, ConsumedMeansExchanged
    <3> QED BY <1>1, <1>3, <3>2 DEF Winning, At
  <2> QED BY <2>1, <2>2
<1>6. ConsumedMeansExchanged'
  BY <1>1, <1>5 DEF ConsumedMeansExchanged
<1>7. ASSUME NEW w \in Values, <<w, "answer">> \in lost
      PROVE  /\ \A x \in issued : x.used # w
             /\ \A k \in Procs : Winning(k)' => req'[k].value # w
             /\ Has(tokens, w)' => tokens'[w].consumed
  <2>1. w # v
    BY <1>4, <1>7
  <2>2. /\ \A x \in issued : x.used # w
        /\ \A k \in Procs : Winning(k) => req[k].value # w
        /\ Has(tokens, w) => tokens[w].consumed
    BY <1>7 DEF Outcomes, LostExchangesFailClosed
  <2> QED BY <1>2, <1>3, <2>1, <2>2 DEF Winning, At, Has
<1>8. LostExchangesFailClosed'
  BY <1>1, <1>7 DEF LostExchangesFailClosed
<1> QED BY <1>1, <1>6, <1>8 DEF Outcomes

(* Response: the winner's exchange becomes an issued one. *)
LEMMA RespondOutcomes ==
    ASSUME Inductive, Outcomes, NEW h \in Procs, Respond(h)
    PROVE  Outcomes'
<1>0. TypeOK
  BY DEF Inductive
<1>1. /\ pc[h] = "respond" /\ tokens' = tokens /\ lost' = lost /\ disclosed \subseteq disclosed'
      /\ Finish(h)
  BY DEF Respond, At, store
<1>2. /\ ~Winning(h)'
      /\ \A k \in Procs \ {h} : pc'[k] = pc[k] /\ req'[k] = req[k]
  BY <1>0, <1>1, FinishIdles DEF Only, Idles, Winning, At
<1>3. /\ issued \subseteq issued'
      /\ Winning(h) => \E x \in issued' : x.used = req[h].value
      /\ \A x \in issued' : x \in issued \/ (Winning(h) /\ x.used = req[h].value)
  <2> DEFINE y == [used |-> req[h].value, access |-> out[h].main,
                   grant |-> src[h].grant, expiresAt |-> src[h].expiresAt]
  <2>1. IF Winning(h) THEN issued' = issued \union {y} ELSE issued' = issued
    BY <1>1 DEF Respond, Winning, At
  <2>2. y.used = req[h].value
    OBVIOUS
  <2> HIDE DEF y
  <2> QED BY <2>1, <2>2
<1>4. ConsumedMeansExchanged'
  BY <1>1, <1>2, <1>3 DEF Outcomes, ConsumedMeansExchanged, Winning, At
<1>5. LostExchangesFailClosed'
  BY <1>1, <1>2, <1>3 DEF Outcomes, LostExchangesFailClosed, Winning, At
<1> QED BY <1>1, <1>4, <1>5 DEF Outcomes

(* A handler that stops: the winner's answer is lost. *)
LEMMA CrashOutcomes ==
    ASSUME Inductive, Outcomes, NEW h \in Procs, Crash(h)
    PROVE  Outcomes'
<1>0. TypeOK /\ HandlerOK(h)
  BY DEF Inductive, HandlersOK
<1>1. tokens' = tokens /\ issued' = issued /\ disclosed' = disclosed /\ Finish(h)
  BY DEF Crash, store
<1>2. /\ ~Winning(h)'
      /\ \A k \in Procs \ {h} : pc'[k] = pc[k] /\ req'[k] = req[k]
  BY <1>0, <1>1, FinishIdles DEF Only, Idles, Winning, At
<1>3. /\ lost \subseteq lost'
      /\ Winning(h) => <<req[h].value, "answer">> \in lost'
      /\ \A v \in Values : <<v, "answer">> \in lost' =>
            <<v, "answer">> \in lost \/ (Winning(h) /\ v = req[h].value)
  BY DEF Crash, Lose, Winning, At
<1>4. Winning(h) => /\ req[h].value \in disclosed
                    /\ \A x \in issued : x.used # req[h].value
                    /\ \A k \in Procs \ {h} : Winning(k) => req[k].value # req[h].value
                    /\ Has(tokens, req[h].value) => tokens[req[h].value].consumed
  BY <1>0 DEF HandlerOK, Lookups, Winning, At, Inductive, Safe, AtMostOneExchange, UsedOK
<1>5. ConsumedMeansExchanged'
  BY <1>1, <1>2, <1>3 DEF Outcomes, ConsumedMeansExchanged, Winning, At
<1>6. LostExchangesFailClosed'
  BY <1>1, <1>2, <1>3, <1>4 DEF Outcomes, LostExchangesFailClosed, Winning, At
<1>7. \A v \in Values : <<v, "answer">> \in lost' => v \in disclosed
  BY <1>3, <1>4 DEF Outcomes
<1> QED BY <1>1, <1>5, <1>6, <1>7 DEF Outcomes

(* ConsumeToken reports an error: the exchange is decided or not. *)
LEMMA ConsumeFailsOutcomes ==
    ASSUME Inductive, Outcomes, NEW h \in Procs, ConsumeFails(h)
    PROVE  Outcomes'
<1> DEFINE v == req[h].value
           won == Has(tokens, v) /\ ~tokens[v].consumed
<1>0. TypeOK /\ HandlerOK(h)
  BY DEF Inductive, HandlersOK
<1>1. /\ pc[h] = "consume" /\ issued' = issued /\ disclosed' = disclosed /\ Fail(h)
  BY DEF ConsumeFails, At
<1>2. v \in Values /\ v \in disclosed
  BY <1>0, <1>1 DEF HandlerOK, Lookups, TypeOK
<1>3. \A k \in Procs : SameWinner(k)
  BY <1>0, <1>1, FailMoves DEF SameWinner, Only, Idles, Winning, At
<1>4. \/ /\ tokens' = tokens
         /\ lost' = lost \/ lost' = lost \union {<<v, "verdict">>}
      \/ /\ Marks(h) /\ Has(tokens, v)
         /\ lost' = lost \union {<<v, IF tokens[v].consumed THEN "verdict" ELSE "answer">>}
  BY DEF ConsumeFails, StorageError, store, Marks, Lose
<1>5. Marks(h) => /\ \A w \in Values \ {v} : tokens'[w] = tokens[w]
                  /\ Has(tokens, v) /\ tokens'[v].consumed
  BY <1>2, MarksFacts DEF Marks, Token
<1>6. /\ lost \subseteq lost'
      /\ \A w \in Values : <<w, "answer">> \in lost' =>
            <<w, "answer">> \in lost \/ (won /\ w = v)
      /\ Marks(h) /\ won /\ tokens' # tokens => <<v, "answer">> \in lost'
  BY <1>4
<1>7. won => /\ \A x \in issued : x.used # v
             /\ \A k \in Procs : Winning(k) => req[k].value # v
  BY DEF Inductive, Safe, UsedOK
<1>8. \A w \in Values : <<w, "answer">> \in lost' => w \in disclosed
  BY <1>2, <1>6 DEF Outcomes
<1>9. ASSUME NEW w \in Values, Has(tokens, w)', tokens'[w].consumed
      PROVE  \/ \E x \in issued : x.used = w
             \/ \E k \in Procs : Winning(k)' /\ req'[k].value = w
             \/ <<w, "answer">> \in lost'
  <2>1. (Has(tokens, w) /\ tokens[w].consumed) \/ <<w, "answer">> \in lost'
    BY <1>4, <1>5, <1>9 DEF Has
  <2>2. (Has(tokens, w) /\ tokens[w].consumed) =>
          \/ \E x \in issued : x.used = w
          \/ \E k \in Procs : Winning(k) /\ req[k].value = w
          \/ <<w, "answer">> \in lost
    BY DEF Outcomes, ConsumedMeansExchanged
  <2> QED BY <1>3, <1>6, <2>1, <2>2 DEF SameWinner
<1>10. ConsumedMeansExchanged'
  BY <1>1, <1>9 DEF ConsumedMeansExchanged
<1>11. ASSUME NEW w \in Values, <<w, "answer">> \in lost'
       PROVE  /\ \A x \in issued : x.used # w
              /\ \A k \in Procs : Winning(k)' => req'[k].value # w
              /\ Has(tokens, w)' => tokens'[w].consumed
  <2>1. /\ \A x \in issued : x.used # w
        /\ \A k \in Procs : Winning(k) => req[k].value # w
    BY <1>6, <1>7, <1>11 DEF Outcomes, LostExchangesFailClosed
  <2>2. Has(tokens, w)' => tokens'[w].consumed
    <3>1. CASE <<w, "answer">> \in lost
      BY <1>4, <1>5, <3>1 DEF Outcomes, LostExchangesFailClosed, Has
    <3>2. CASE <<w, "answer">> \notin lost
      BY <1>4, <1>5, <1>11, <3>2
    <3> QED BY <3>1, <3>2
  <2> QED BY <1>3, <2>1, <2>2 DEF SameWinner
<1>12. LostExchangesFailClosed'
  BY <1>1, <1>11 DEF LostExchangesFailClosed
<1> QED BY <1>1, <1>8, <1>10, <1>12 DEF Outcomes

(* The outcome of every exchange is accounted for. *)
LEMMA OutcomesInvariant == Spec => []Outcomes
<1>1. Init => Outcomes
  BY DEF Init, Outcomes, ConsumedMeansExchanged, LostExchangesFailClosed, Has,
         NoTokensStored
<1>2. Inductive /\ Contents /\ Outcomes /\ [Next]_vars => Outcomes'
  <2> SUFFICES ASSUME Inductive, Contents, Outcomes, [Next]_vars PROVE Outcomes'
    OBVIOUS
  <2>1. CASE UNCHANGED vars
    BY <2>1 DEF vars, store, handler, history, Outcomes, ConsumedMeansExchanged,
                LostExchangesFailClosed, Has, Winning, At
  <2>2. CASE Next
    <3>1. CASE \E h \in Procs : Decides(h)
      BY <3>1, RespondOutcomes, CrashOutcomes, ConsumeOutcomes, ConsumeFailsOutcomes
         DEF Decides
    <3> QED BY <2>2, <3>1, UndecidedOutcomes
  <2> QED BY <2>1, <2>2
<1> QED BY <1>1, <1>2, InductiveInvariant, ContentsInvariant, PTL DEF Spec

(***************************************************************************)
(* Whatever fails before ConsumeToken leaves the code or refresh token     *)
(* usable: a stored token is marked only if its exchange was answered, is  *)
(* about to be, or its answer was lost (storeAndConsume).                  *)
(***************************************************************************)
THEOREM FailuresLeaveTokensUsable == Spec => []ConsumedMeansExchanged
  BY OutcomesInvariant, PTL DEF Outcomes

(***************************************************************************)
(* An exchange whose answer got lost is never answered to anyone else, and *)
(* its token stays marked for the next attempt (consume, checkUnused).     *)
(***************************************************************************)
THEOREM LostAnswersFailClosed == Spec => []LostExchangesFailClosed
  BY OutcomesInvariant, PTL DEF Outcomes

------------------------------------------------------------------------------
(* Replays. *)

(* What is lost or revoked stays so. *)
LEMMA HistoryGrows ==
    ASSUME Next
    PROVE  lost \subseteq lost' /\ revoked \subseteq revoked'
<1>1. ASSUME NEW h \in Procs, \/ ConsumeReused(h) \/ ConsumeFails(h)
                              \/ RevokeReused(h) \/ RevokePart(h) \/ Crash(h)
      PROVE  lost \subseteq lost'
  BY <1>1 DEF ConsumeReused, ConsumeFails, RevokeReused, RevokePart, Crash, Lose, history
<1>2. ASSUME NEW h \in Procs, Respond(h) \/ Revoke(h) \/ RevokeReused(h)
      PROVE  revoked \subseteq revoked'
  BY <1>2 DEF Respond, Revoke, RevokeReused, RevokeGrant, StorageError
<1> QED BY <1>1, <1>2, HiddenStep

(* How the record of a used token may leave the store: collectLocked,      *)
(* RevokeGrant, or a RevokeGrant that is not atomic.  RevokeToken never    *)
(* takes it: it is for access tokens and for what no client has seen.      *)
LEMMA UsedTokenGoes ==
    ASSUME Inductive, Contents, Next, NEW v \in disclosed,
           Has(tokens, v), tokens[v].consumed, tokens'[v] = NotFound
    PROVE  \/ now > tokens[v].expiresAt
           \/ <<v, "part">> \in lost'
           \/ tokens[v].grant \in revoked'
<1>0. TypeOK /\ v \in Values /\ tokens[v] \in Token /\ tokens' # tokens
  BY DEF Inductive, TypeOK, TokenMaps, Has
<1>1. tokens[v].kind # "access_token"
  BY <1>0 DEF Contents, Lawful
<1>2. collectLocked.tokens[v] = NotFound => now > tokens[v].expiresAt
  BY <1>0 DEF collectLocked, Collected, Expired, Has
<1>3. ASSUME NEW h \in Procs, Creates(h) PROVE now > tokens[v].expiresAt
  <2>1. PICK w \in MintedValues(h), t \in Token : w \in Values /\ CreateToken(w, t)
    BY <1>0, <1>3, MintedFields
       DEF Creates, At, MintedValues, Inductive, HandlersOK, HandlerOK, Holds, TypeOK
  <2>2. w # v
    BY <1>0, <2>1 DEF Inductive, Safe, ValuesOK
  <2>3. collectLocked.tokens \in TokenMaps
    BY <1>0, CollectedKeeps DEF collectLocked, TypeOK
  <2>4. tokens'[v] = collectLocked.tokens[v]
    BY <1>0, <2>1, <2>2, <2>3 DEF CreateToken, WithToken, TokenMaps
  <2> QED BY <1>2, <2>4
<1>4. ASSUME NEW h \in Procs, Marks(h) PROVE FALSE
  <2>1. [tokens[v] EXCEPT !.consumed = TRUE] \in Token
    BY <1>0 DEF Token
  <2>2. tokens'[v] = tokens[v] \/ tokens'[v] = [tokens[v] EXCEPT !.consumed = TRUE]
    BY <1>0, <1>4, MarksFacts
  <2> QED BY <1>0, <2>1, <2>2, TokenFields
<1>5. ASSUME NEW h \in Procs, RevokeGrant(src[h].grant) PROVE tokens[v].grant \in revoked'
  BY <1>0, <1>5 DEF RevokeGrant, WithoutGrant, Has
<1>6. ASSUME NEW w \in Values, RevokeToken(w) PROVE w = v
  BY <1>0, <1>6 DEF RevokeToken, WithoutToken, TypeOK, TokenMaps, Has
<1>7. ASSUME NEW h \in Procs, Revoke(h) \/ RevokeReused(h)
      PROVE  tokens[v].grant \in revoked'
  <2>1. \/ RevokeGrant(src[h].grant)
        \/ /\ pc[h] = "act" /\ src[h].kind # "refresh_token"
           /\ RevokeToken(req[h].value)
    BY <1>0, <1>7 DEF Revoke, RevokeReused, StorageError, store, At
  <2>2. ASSUME pc[h] = "act", src[h].kind # "refresh_token", RevokeToken(req[h].value)
        PROVE  FALSE
    <3>1. req[h].op \in Lookups /\ req[h].value \in Values /\ src[h] \in Token
      BY <2>2, HandlerFacts DEF Inductive, HandlersOK, HandlerOK, Lookups
    <3>2. req[h].value = v
      BY <1>6, <2>2, <3>1
    <3>3. src[h].kind = tokens[v].kind
      BY <2>2, <3>1, <3>2 DEF Contents, CopyOK, Copy
    <3>4. src[h].kind = "access_token"
      BY <2>2, <3>1 DEF Contents, Checked, Token, Kinds
    <3> QED BY <1>1, <3>3, <3>4
  <2> QED BY <1>5, <2>1, <2>2
<1>8. ASSUME NEW h \in Procs, Discard(h) \/ DiscardRefresh(h) PROVE FALSE
  <2>1. PICK w \in MintedValues(h) : w \in Values /\ RevokeToken(w)
    BY <1>0, <1>8, MintedFields
       DEF Discard, DiscardRefresh, StorageError, store, At, MintedValues, Inductive,
           HandlersOK, HandlerOK, Holds, TypeOK
  <2> QED BY <1>6, <2>1 DEF Inductive, Safe, ValuesOK
<1>9. ASSUME NEW h \in Procs, RevokePart(h) PROVE <<v, "part">> \in lost'
  BY <1>6, <1>9 DEF RevokePart
<1>10. Collect => now > tokens[v].expiresAt
  BY <1>2 DEF Collect
<1>11. ASSUME NEW h \in Procs, Arrive(h) \/ Step(h) \/ RevokePart(h) \/ Crash(h)
       PROVE  \/ Creates(h) \/ Marks(h) \/ Revoke(h) \/ RevokeReused(h)
              \/ Discard(h) \/ DiscardRefresh(h) \/ RevokePart(h)
  <2>1. ~Arrive(h)
    BY <1>0 DEF Arrive, BeginCodeExchange, BeginRefresh, BeginDirect, BeginApprove,
                BeginRevocation, BeginRead, store
  <2>2. ~(\/ LoadFinds(h) \/ LoadRefuses(h) \/ Answer(h) \/ CheckReuse(h)
          \/ CheckPasses(h) \/ CheckRefuses(h) \/ Mint(h) \/ MintFails(h)
          \/ ConsumeReused(h) \/ Respond(h) \/ Crash(h))
    BY <1>0 DEF LoadFinds, LoadRefuses, Answer, CheckReuse, CheckPasses, CheckRefuses,
                Mint, MintFails, ConsumeReused, Respond, Crash, store
  <2>3. Store(h) \/ StoreRefresh(h) \/ StoreFails(h) => Creates(h)
    BY <1>0 DEF Store, StoreRefresh, StoreFails, StorageError, store, Creates
  <2>4. Consume(h) \/ ConsumeFails(h) => Marks(h)
    BY <1>0 DEF Consume, ConsumeFails, StorageError, store, Marks
  <2> QED BY <1>11, <2>1, <2>2, <2>3, <2>4 DEF Step
<1>12. ~SetClient /\ ~Tick
  BY <1>0 DEF SetClient, Tick, store
<1> QED BY <1>3, <1>4, <1>7, <1>8, <1>9, <1>10, <1>11, <1>12 DEF Next

(* The trace of a used token stays. *)
LEMMA KeptStays ==
    ASSUME Inductive, Contents, Next,
           NEW v \in disclosed, NEW g, NEW e \in Nat, Kept(v, g, e),
           Has(tokens, v) => /\ tokens[v].consumed
                             /\ tokens[v].grant = g /\ tokens[v].expiresAt = e
    PROVE  Kept(v, g, e)'
<1>1. now \in Int /\ now' \in Int /\ now' >= now
  BY ClockStep
<1>2. lost \subseteq lost' /\ revoked \subseteq revoked'
  BY HistoryGrows
<1>3. CASE Has(tokens, v) /\ tokens'[v] = NotFound
  <2>1. now > e \/ <<v, "part">> \in lost' \/ g \in revoked'
    BY <1>3, UsedTokenGoes
  <2> QED BY <1>1, <2>1 DEF Kept
<1>4. CASE Has(tokens, v) /\ tokens'[v] # NotFound
  BY <1>4 DEF Kept, Has
<1>5. CASE ~Has(tokens, v)
  BY <1>1, <1>2, <1>5 DEF Kept
<1> QED BY <1>3, <1>4, <1>5

(* The winner of an exchange: a disclosed token, marked while it is in the *)
(* store, where it has the grant and the expiry of the copy.               *)
LEMMA WinnerFacts ==
    ASSUME Inductive, Contents, NEW h \in Procs, Winning(h)
    PROVE  /\ req[h].value \in disclosed /\ req[h].value \in Values
           /\ src[h] \in Token /\ src[h].expiresAt \in Nat
           /\ Has(tokens, req[h].value) =>
                /\ tokens[req[h].value].consumed
                /\ tokens[req[h].value].grant = src[h].grant
                /\ tokens[req[h].value].expiresAt = src[h].expiresAt
<1>1. pc[h] = "respond" /\ req[h].op \in Exchanges /\ req[h].op \in Lookups
  BY DEF Winning, At, Lookups
<1>2. src[h] \in Token /\ req[h].value \in disclosed /\ req[h].value \in Values
  BY <1>1, HandlerFacts
<1>3. Has(tokens, req[h].value) => tokens[req[h].value].consumed
  BY DEF Inductive, Safe, UsedOK
<1>4. Has(tokens, req[h].value) => /\ tokens[req[h].value].grant = src[h].grant
                                   /\ tokens[req[h].value].expiresAt = src[h].expiresAt
  BY <1>1 DEF Inductive, Safe, SourceOK, Contents, CopyOK, Copy
<1> QED BY <1>2, <1>3, <1>4 DEF Token

(* Who wins after a step won before it, or ConsumeToken just marked its    *)
(* token.                                                                  *)
LEMMA WinnerStep ==
    ASSUME Inductive, Next, NEW k \in Procs, Winning(k)'
    PROVE  \/ Winning(k) /\ Stays(k)
           \/ req'[k].value \in Values /\ tokens'[req'[k].value] # NotFound
<1>0. TypeOK /\ pc'[k] = "respond" /\ req'[k].op \in Exchanges
  BY DEF Inductive, Winning, At
<1>1. CASE Winning(k)
  BY <1>0, <1>1, HandlerStep
     DEF Winning, At, Stays, Idles, Loads, Checks, Mints, Moves, Rereads, Asks, StartsGrant
<1>2. ASSUME NEW h \in Procs, Decides(h), ~Winning(k)
      PROVE  h = k /\ Consume(k)
  <2>1. Only(h)
    BY <1>2, OwnStep DEF Decides, Step
  <2>2. h = k
    BY <1>0, <1>2, <2>1 DEF Only, Winning, At
  <2>3. ~Respond(h) /\ ~Crash(h)
    BY <1>0, <2>2, FinishIdles DEF Respond, Crash, Idles
  <2>4. ~ConsumeFails(h)
    BY <1>0, <2>2, FailMoves DEF ConsumeFails, Idles
  <2> QED BY <1>2, <2>2, <2>3, <2>4 DEF Decides
<1>3. ASSUME Consume(k)
      PROVE  req'[k].value \in Values /\ tokens'[req'[k].value] # NotFound
  <2> DEFINE t == tokens[req[k].value]
  <2>1. Marks(k) /\ req'[k] = req[k]
    BY <1>0, <1>3, GotoStep DEF Consume, Marks, PCs
  <2>2. /\ req[k].value \in Values /\ t \in Token
        /\ tokens'[req[k].value] = [t EXCEPT !.consumed = TRUE]
    BY <2>1, MarksFacts
  <2>3. [t EXCEPT !.consumed = TRUE] \in Token
    BY <2>2 DEF Token
  <2> HIDE DEF t
  <2> QED BY <2>1, <2>2, <2>3, TokenFields
<1>4. (\A h \in Procs : ~Decides(h)) => Winning(k)
  BY UndecidedStep DEF SameWinner
<1> QED BY <1>1, <1>2, <1>3, <1>4

(* Answered exchanges can always be traced. *)
LEMMA TraceableStep ==
    ASSUME Inductive, Contents, Traceable, Next
    PROVE  Traceable'
<1>1. ASSUME NEW x \in issued
      PROVE  /\ Kept(x.used, x.grant, x.expiresAt)'
             /\ Has(tokens, x.used)' => /\ tokens'[x.used].grant = x.grant
                                        /\ tokens'[x.used].expiresAt = x.expiresAt
  <2>1. x.used \in disclosed /\ x.expiresAt \in Nat
    BY DEF Inductive, Safe, UsedOK, TypeOK, Exchange
  <2>2. Has(tokens, x.used) => /\ tokens[x.used].consumed
                               /\ tokens[x.used].grant = x.grant
                               /\ tokens[x.used].expiresAt = x.expiresAt
    BY DEF Traceable, Inductive, Safe, UsedOK
  <2>3. Kept(x.used, x.grant, x.expiresAt)'
    BY <2>1, <2>2, KeptStays DEF Traceable
  <2>4. tokens[x.used] \in Token => tokens[x.used] # NotFound
    BY TokenFields
  <2>5. tokens[x.used] \in Token =>
          LET u == [tokens[x.used] EXCEPT !.consumed = TRUE] IN
          u.grant = tokens[x.used].grant /\ u.expiresAt = tokens[x.used].expiresAt
    BY DEF Token
  <2> QED BY <2>1, <2>2, <2>3, <2>4, <2>5, DisclosedStep DEF Has
<1>2. ASSUME NEW h \in Procs, Respond(h), NEW x \in issued', x \notin issued
      PROVE  /\ Kept(x.used, x.grant, x.expiresAt)'
             /\ Has(tokens, x.used)' => /\ tokens'[x.used].grant = x.grant
                                        /\ tokens'[x.used].expiresAt = x.expiresAt
  <2>1. Winning(h) /\ x.used = req[h].value /\ x.grant = src[h].grant
        /\ x.expiresAt = src[h].expiresAt
    BY <1>2 DEF Respond, Winning, At
  <2>2. tokens' = tokens /\ lost' = lost /\ revoked' = revoked /\ now' = now
    BY <1>2 DEF Respond, store, world
  <2>3. Kept(x.used, x.grant, x.expiresAt)
    BY <2>1 DEF Traceable
  <2> QED BY <2>1, <2>2, <2>3, WinnerFacts DEF Kept, Has
<1>3. ASSUME NEW x \in issued', x \notin issued PROVE \E h \in Procs : Respond(h)
  <2>1. ASSUME NEW h \in Procs, Revoke(h) \/ RevokeReused(h) PROVE issued' = issued
    BY <2>1 DEF Revoke, RevokeReused
  <2> QED BY <1>3, <2>1, HiddenStep
<1>4. ASSUME NEW k \in Procs, Winning(k)'
      PROVE  Kept(req[k].value, src[k].grant, src[k].expiresAt)'
  <2>1. CASE Winning(k) /\ Stays(k)
    <3>1. PICK v \in disclosed, g \in Grants, e \in Nat :
            v = req[k].value /\ g = src[k].grant /\ e = src[k].expiresAt
      BY <2>1, WinnerFacts, TokenFields
    <3>2. Kept(v, g, e)
      BY <2>1, <3>1 DEF Traceable
    <3>3. Kept(v, g, e)'
      BY <2>1, <3>1, <3>2, WinnerFacts, KeptStays
    <3>4. req'[k].value = v /\ src'[k].grant = g /\ src'[k].expiresAt = e
      BY <2>1, <3>1 DEF Stays
    <3> QED BY <3>3, <3>4 DEF Kept
  <2>2. CASE tokens'[req'[k].value] # NotFound
    BY <2>2 DEF Kept, Has
  <2> QED BY <1>4, <2>1, <2>2, WinnerStep
<1> QED BY <1>1, <1>2, <1>3, <1>4 DEF Traceable

(***************************************************************************)
(* As long as a client has a living token of a grant, the replay of a code *)
(* or refresh token that was exchanged in it is recognised until the used  *)
(* token expires, unless a RevokeGrant stopped half-way (checkUnused,      *)
(* collectLocked, serveRevocation, discardTokens).                         *)
(***************************************************************************)
THEOREM ReplaysAreDetected == Spec => []ReplayDetectableUntilExpiry
<1>1. Init => Traceable
  BY DEF Init, Traceable, Winning, At
<1>2. Inductive /\ Contents /\ Traceable /\ [Next]_vars => Traceable'
  <2>1. ASSUME Traceable, UNCHANGED vars PROVE Traceable'
    BY <2>1 DEF vars, store, handler, world, history, Traceable, Kept, Has, Winning, At
  <2> QED BY <2>1, TraceableStep
<1>3. Inductive /\ Traceable => ReplayDetectableUntilExpiry
  <2> SUFFICES ASSUME Inductive, Traceable, NEW x \in issued, NEW v \in disclosed,
                      Has(tokens, v), tokens[v].grant = x.grant
               PROVE  \/ /\ Has(tokens, x.used)
                         /\ tokens[x.used].consumed /\ tokens[x.used].grant = x.grant
                      \/ now > x.expiresAt
                      \/ <<x.used, "part">> \in lost
    BY DEF ReplayDetectableUntilExpiry
  <2>1. x.grant \notin revoked
    BY DEF Inductive, Safe, RevokedGrantStaysDead
  <2>2. Has(tokens, x.used) => tokens[x.used].consumed /\ tokens[x.used].grant = x.grant
    BY DEF Inductive, Safe, UsedOK, Traceable
  <2> QED BY <2>1, <2>2 DEF Traceable, Kept
<1> QED BY <1>1, <1>2, <1>3, InductiveInvariant, ContentsInvariant, PTL DEF Spec

------------------------------------------------------------------------------
(* Clean-up. *)

Stored == {v \in Values : Has(tokens, v)}

(* What a step of handler h does to the values it minted: they stay with   *)
(* the handler, are sent, are given up, or are not in the store.           *)
Accounts(h) ==
    /\ Only(h)
    /\ nextValue' >= nextValue
    /\ Stored' \subseteq Stored \union MintedValues(h)
    /\ leaked \subseteq leaked' /\ leaked' \subseteq leaked \union MintedValues(h)
    /\ disclosed \subseteq disclosed' /\ disclosed' \subseteq disclosed \union MintedValues(h)
    /\ leaked' \intersect disclosed' = {}
    /\ \A v \in MintedValues(h) \intersect Stored' :
          v \in MintedValues(h)' \union leaked' \union disclosed'
    /\ \A v \in MintedValues(h)' : v \in MintedValues(h) \/ v >= nextValue
    /\ \A v \in MintedValues(h)' \intersect leaked' :
          pc'[h] = "discard_refresh" /\ v = out'[h].main
    /\ pc'[h] = "discard_refresh" => out'[h].main \notin Stored' \ leaked'

(* A step that accounts for its handler's values keeps the store clean. *)
LEMMA AccountsClean ==
    ASSUME Inductive, Inductive', CleanUp, NEW h \in Procs, Accounts(h)
    PROVE  CleanUp'
<1>0. TypeOK /\ TypeOK' /\ HandlersOK /\ ValuesOK
  BY DEF Inductive, Safe
<1>1. ASSUME NEW k \in Procs \ {h}
      PROVE  pc'[k] = pc[k] /\ out'[k] = out[k] /\ MintedValues(k)' = MintedValues(k)
  BY DEF Accounts, Only, MintedValues
<1>2. ASSUME NEW v \in Stored'
      PROVE  v \in disclosed' \union leaked' \union UNION {MintedValues(k)' : k \in Procs}
  <2>1. CASE v \in MintedValues(h)
    BY <1>2, <2>1 DEF Accounts
  <2>2. CASE v \notin MintedValues(h)
    <3>1. v \in Stored
      BY <1>2, <2>2 DEF Accounts
    <3>2. v \in disclosed \union leaked \union UNION {MintedValues(k) : k \in Procs}
      BY <3>1 DEF CleanUp, NoOrphans, Stored
    <3> QED BY <1>1, <2>2, <3>2 DEF Accounts
  <2> QED BY <2>1, <2>2
<1>3. NoOrphans'
  BY <1>2 DEF NoOrphans, Stored, Accounts
<1>4. \A v \in leaked' : v < nextValue'
  <2> SUFFICES ASSUME NEW v \in leaked' PROVE v < nextValue'
    OBVIOUS
  <2>1. v \in leaked \/ v \in MintedValues(h)
    BY DEF Accounts
  <2>2. v < nextValue
    BY <1>0, <2>1 DEF CleanUp, ValuesOK
  <2>3. v \in Int /\ nextValue \in Int /\ nextValue' \in Int
    BY <1>0 DEF TypeOK, Values
  <2> QED BY <2>2, <2>3 DEF Accounts
<1>5. ASSUME NEW k \in Procs, NEW v \in MintedValues(k)' \intersect leaked'
      PROVE  pc'[k] = "discard_refresh" /\ v = out'[k].main
  <2>1. CASE k = h
    BY <1>5, <2>1 DEF Accounts
  <2>2. CASE k # h
    <3>1. v \in MintedValues(k) /\ v \notin MintedValues(h)
      BY <1>0, <1>1, <2>2 DEF ValuesOK
    <3>2. v \in leaked
      BY <3>1 DEF Accounts
    <3> QED BY <1>1, <2>2, <3>1, <3>2 DEF CleanUp
  <2> QED BY <2>1, <2>2
<1>6. ASSUME NEW k \in Procs, pc'[k] = "discard_refresh"
      PROVE  out'[k].main \notin Stored' \ leaked'
  <2>1. CASE k = h
    BY <1>6, <2>1 DEF Accounts
  <2>2. CASE k # h
    <3>1. pc[k] = "discard_refresh" /\ out'[k].main = out[k].main
      BY <1>1, <1>6, <2>2
    <3>2. out[k].main \in MintedValues(k)
      BY <1>0, <3>1 DEF HandlersOK, HandlerOK, Holds, MintedValues
    <3>3. out[k].main \notin MintedValues(h)
      BY <1>0, <2>2, <3>2 DEF ValuesOK
    <3>4. out[k].main \notin Stored \ leaked
      BY <3>1 DEF CleanUp, Stored
    <3> QED BY <3>1, <3>3, <3>4 DEF Accounts
  <2> QED BY <2>1, <2>2
<1>7. \A k \in Procs : pc'[k] = "discard_refresh" =>
          ~Has(tokens', out'[k].main) \/ out'[k].main \in leaked'
  <2> SUFFICES ASSUME NEW k \in Procs, pc'[k] = "discard_refresh"
               PROVE  ~Has(tokens', out'[k].main) \/ out'[k].main \in leaked'
    OBVIOUS
  <2>1. out'[k].main \in Values
    BY MintedFields DEF Inductive, HandlersOK, HandlerOK, Holds, TypeOK, Minted
  <2> QED BY <1>6, <2>1 DEF Stored, Has
<1> QED BY <1>3, <1>4, <1>5, <1>7 DEF CleanUp, Has

(* Steps that send and give up nothing and keep what was minted. *)
LEMMA QuietAccounts ==
    ASSUME Inductive, CleanUp, NEW h \in Procs, Only(h),
           nextValue' >= nextValue,
           Stored' \subseteq Stored \union MintedValues(h),
           leaked' = leaked, disclosed' = disclosed,
           MintedValues(h) \subseteq MintedValues(h)',
           \A v \in MintedValues(h)' : v \in MintedValues(h) \/ v >= nextValue,
           pc[h] # "discard_refresh", pc'[h] # "discard_refresh"
    PROVE  Accounts(h)
<1>1. \A v \in MintedValues(h)' \intersect leaked' : FALSE
  <2> SUFFICES ASSUME NEW v \in MintedValues(h)', v \in leaked PROVE FALSE
    OBVIOUS
  <2>1. v < nextValue /\ v \in Int /\ nextValue \in Int
    BY DEF CleanUp, Inductive, TypeOK, Values
  <2> QED BY <2>1 DEF CleanUp
<1> QED BY <1>1 DEF Accounts, CleanUp, NoOrphans

(* Storing keeps to the values a handler minted. *)
LEMMA StoredStep ==
    ASSUME Inductive, NEW h \in Procs, Arrive(h) \/ Step(h) \/ RevokePart(h) \/ Crash(h)
    PROVE  Stored' \subseteq Stored \union MintedValues(h)
<1>1. ASSUME Creates(h) PROVE Stored' \subseteq Stored \union MintedValues(h)
  <2>1. PICK w \in MintedValues(h) : Drops(Values \ {w})
    BY <1>1, CreatesFacts
  <2> QED BY <2>1 DEF Drops, Stored, Has
<1>2. ASSUME Marks(h) PROVE Stored' \subseteq Stored
  BY <1>2, MarksFacts, TokenFields DEF Marks, Stored, Has
<1>3. Drops(Values) => Stored' \subseteq Stored
  BY DEF Drops, Stored, Has
<1> QED BY <1>1, <1>2, <1>3, OwnStore

(* A handler that minted nothing, and one that keeps what it minted. *)
LEMMA MintedSets ==
    ASSUME NEW h \in Procs
    PROVE  /\ out[h] = NoTokens => MintedValues(h) = {}
           /\ out'[h] = NoTokens => MintedValues(h)' = {}
           /\ out'[h] = out[h] => MintedValues(h)' = MintedValues(h)
  BY NoTokensType DEF MintedValues

(* Arrivals mint nothing, but for the code of Approve. *)
LEMMA ArriveAccounts ==
    ASSUME Inductive, CleanUp, NEW h \in Procs, Arrive(h)
    PROVE  Accounts(h)
<1>0. TypeOK /\ HandlerOK(h) /\ nextValue \in Int
  BY DEF Inductive, HandlersOK, TypeOK
<1>1. Only(h) /\ (Asks(h) \/ StartsGrant(h))
  BY ArriveStep
<1>2. leaked' = leaked /\ disclosed' = disclosed /\ nextValue' >= nextValue
  <2>1. leaked' = leaked /\ disclosed' = disclosed
    BY DEF Arrive, BeginCodeExchange, BeginRefresh, BeginDirect, BeginApprove,
           BeginRevocation, BeginRead, history
  <2>2. nextValue' \in {nextValue, nextValue + 1}
    BY DEF Arrive, BeginCodeExchange, BeginRefresh, BeginDirect, BeginApprove,
           BeginRevocation, BeginRead, supply
  <2> QED BY <1>0, <2>1, <2>2
<1>3. pc[h] = "idle" /\ pc'[h] # "discard_refresh" /\ out[h] = NoTokens
  BY <1>0, <1>1 DEF Asks, StartsGrant, HandlerOK, Fresh
<1>4. out'[h] = NoTokens \/ (out'[h].main = nextValue /\ out'[h].refresh = 0)
  BY <1>1 DEF Asks, StartsGrant
<1>5. \A v \in MintedValues(h)' : v >= nextValue
  BY <1>0, <1>4, MintedSets DEF MintedValues
<1>6. MintedValues(h) = {}
  BY <1>3, MintedSets
<1> QED BY <1>1, <1>2, <1>3, <1>5, <1>6, StoredStep, QuietAccounts

(* Steps up to minting, and the Storage calls after it. *)
LEMMA WorkAccounts ==
    ASSUME Inductive, CleanUp, NEW h \in Procs,
           \/ LoadFinds(h) \/ LoadRefuses(h) \/ Answer(h) \/ Revoke(h)
           \/ CheckReuse(h) \/ CheckPasses(h) \/ CheckRefuses(h)
           \/ Mint(h) \/ MintFails(h) \/ Store(h) \/ StoreRefresh(h)
           \/ Consume(h) \/ ConsumeReused(h) \/ ConsumeFails(h) \/ RevokeReused(h)
    PROVE  Accounts(h)
<1>0. TypeOK /\ HandlerOK(h) /\ nextValue \in Int /\ nextValue + 1 >= nextValue
      /\ nextValue + 2 >= nextValue
  BY DEF Inductive, HandlersOK, TypeOK
<1>1. /\ Only(h)
      /\ \/ Idles(h) \/ Stays(h) \/ Loads(h) \/ Checks(h) \/ Mints(h)
         \/ Moves(h) \/ Rereads(h)
  BY OwnStep DEF Step
<1>2. leaked' = leaked /\ disclosed' = disclosed
  BY DEF LoadFinds, LoadRefuses, Answer, Revoke, CheckReuse, CheckPasses, CheckRefuses,
         Mint, MintFails, Store, StoreRefresh, Consume, ConsumeReused, ConsumeFails,
         RevokeReused, history
<1>3. pc[h] \in {"load", "answer", "act", "check", "issue", "store", "store_refresh",
                 "consume", "reuse"}
  BY DEF LoadFinds, LoadRefuses, Answer, Revoke, CheckReuse, CheckPasses, CheckRefuses,
         Mint, MintFails, Store, StoreRefresh, Consume, ConsumeReused, ConsumeFails,
         RevokeReused, At
<1>4. pc'[h] # "discard_refresh"
  BY <1>1, <1>3 DEF Idles, Stays, Loads, AfterLoad, Checks, Mints, Moves, Rereads
<1>5. Stored' \subseteq Stored \union MintedValues(h)
  BY StoredStep DEF Step
<1>6. CASE Mint(h)
  <2>1. pc[h] = "issue" /\ nextValue' >= nextValue
    BY <1>0, <1>6 DEF Mint, At
  <2>2. out[h] = NoTokens
    BY <1>0, <2>1 DEF HandlerOK, Fresh
  <2>3. PICK s \in SUBSET Scopes, a \in SUBSET Audiences, rf \in BOOLEAN,
             al \in AccessLifetimes, rl \in RefreshLifetimes :
               out' = [out EXCEPT ![h] = minted(src[h], s, a, rf, al, rl)]
    BY <1>6, Zenon DEF Mint
  <2>4. out'[h].main = nextValue /\ out'[h].refresh \in {0, nextValue + 1}
    BY <1>0, <2>3 DEF TypeOK, minted
  <2>5. MintedValues(h) = {} /\ \A v \in MintedValues(h)' : v >= nextValue
    BY <1>0, <2>2, <2>4, MintedSets DEF MintedValues
  <2> QED BY <1>1, <1>2, <1>3, <1>4, <1>5, <2>1, <2>5, QuietAccounts
<1>7. CASE ~Mint(h)
  <2>1. nextValue' = nextValue
    BY <1>7 DEF LoadFinds, LoadRefuses, Answer, Revoke, CheckReuse, CheckPasses, CheckRefuses,
         MintFails, Store, StoreRefresh, Consume, ConsumeReused, ConsumeFails,
         RevokeReused, supply
  <2>2. Finish(h) => pc[h] \in Fresh \/ out[h].main = 0
    <3>1. CASE ConsumeFails(h) \/ RevokeReused(h)
      <4>1. Fail(h) /\ pc[h] \in {"consume", "reuse"}
        BY <3>1 DEF ConsumeFails, RevokeReused, At
      <4>2. req[h].op # "approve" /\ pc[h] # "idle"
        BY <1>0, <4>1 DEF HandlerOK, Exchanges
      <4>3. out[h].main # 0 => pc'[h] = "discard"
        BY <1>0, <4>1, <4>2 DEF Fail, Goto, TypeOK
      <4>4. Finish(h) => pc'[h] = "idle"
        BY <1>0, FinishIdles DEF Idles
      <4> QED BY <4>3, <4>4
    <3>2. CASE ~(ConsumeFails(h) \/ RevokeReused(h))
      <4>1. Finish(h) => pc'[h] = "idle"
        BY <1>0, FinishIdles DEF Idles
      <4>2. \/ pc[h] \in Fresh
            \/ Goto(h, "store_refresh") \/ Goto(h, "consume") \/ Goto(h, "respond")
            \/ pc' = [pc EXCEPT ![h] = "reuse"]
        BY <1>7, <3>2 DEF LoadFinds, LoadRefuses, Answer, Revoke, CheckReuse, CheckPasses,
             CheckRefuses, MintFails, Store, StoreRefresh, Consume, ConsumeReused,
             AfterStore, At, Fresh
      <4> QED BY <1>0, <4>1, <4>2 DEF Goto, TypeOK
    <3> QED BY <3>1, <3>2
  <2>3. out'[h] = out[h]
    <3>1. CASE Finish(h)
      BY <1>0, <2>2, <3>1, FinishIdles DEF Idles, HandlerOK
    <3>2. CASE UNCHANGED out
      BY <3>2
    <3>3. Finish(h) \/ UNCHANGED out
      BY <1>7 DEF LoadFinds, LoadRefuses, Answer, Revoke, CheckReuse, CheckPasses,
         CheckRefuses, MintFails, Store, StoreRefresh, Consume, ConsumeReused,
         ConsumeFails, RevokeReused, Fail, Goto
    <3> QED BY <3>1, <3>2, <3>3
  <2>4. MintedValues(h)' = MintedValues(h)
    BY <2>3, MintedSets
  <2> QED BY <1>0, <1>1, <1>2, <1>3, <1>4, <1>5, <2>1, <2>4, QuietAccounts
<1> QED BY <1>6, <1>7

(* CreateToken fails: discardTokens comes next, or the code is given up. *)
LEMMA StoreFailsAccounts ==
    ASSUME Inductive, CleanUp, NEW h \in Procs, StoreFails(h)
    PROVE  Accounts(h)
<1>0. TypeOK /\ HandlerOK(h) /\ ValuesOK /\ nextValue \in Int
  BY DEF Inductive, HandlersOK, TypeOK, Safe
<1>1. /\ pc[h] \in {"store", "store_refresh"} /\ Fail(h)
      /\ nextValue' = nextValue /\ disclosed' = disclosed
      /\ leaked' = IF req[h].op = "approve" THEN leaked \union MintedValues(h) ELSE leaked
  BY DEF StoreFails, At, supply
<1>2. out[h].main # 0
  BY <1>0, <1>1 DEF HandlerOK, Holds
<1>3. Stored' \subseteq Stored \union MintedValues(h)
  BY StoredStep DEF Step
<1>4. MintedValues(h) \intersect (leaked \union disclosed) = {}
  BY <1>0, <1>1 DEF CleanUp, ValuesOK
<1>5. CASE req[h].op = "approve"
  <2>1. Only(h) /\ pc'[h] = "idle" /\ MintedValues(h)' = {}
    BY <1>0, <1>1, <1>5, FailMoves, MintedSets DEF Idles
  <2> QED BY <1>0, <1>1, <1>3, <1>4, <1>5, <2>1 DEF Accounts, CleanUp, NoOrphans
<1>6. CASE req[h].op # "approve"
  <2>1. Only(h) /\ pc'[h] = "discard" /\ MintedValues(h)' = MintedValues(h)
    BY <1>0, <1>1, <1>2, <1>6, FailMoves, MintedSets
  <2> QED BY <1>0, <1>1, <1>3, <1>6, <2>1, QuietAccounts
<1> QED BY <1>5, <1>6

(* RevokeToken takes the token from the store. *)
LEMMA RevokeTokenStored ==
    ASSUME TypeOK, NEW v \in Values, RevokeToken(v)
    PROVE  Stored' = Stored \ {v}
  BY DEF RevokeToken, WithoutToken, Stored, Has, TypeOK, TokenMaps

(* discardTokens: the access token, then the refresh token. *)
LEMMA DiscardAccounts ==
    ASSUME Inductive, CleanUp, NEW h \in Procs, Discard(h) \/ DiscardRefresh(h)
    PROVE  Accounts(h)
<1>0. TypeOK /\ HandlerOK(h) /\ ValuesOK /\ nextValue \in Int /\ out[h] \in Minted
  BY DEF Inductive, HandlersOK, TypeOK, Safe
<1>1. /\ pc[h] \in {"discard", "discard_refresh"}
      /\ nextValue' = nextValue /\ disclosed' = disclosed
  BY DEF Discard, DiscardRefresh, At, supply
<1>2. /\ out[h].main \in MintedValues(h) /\ out[h].main \in Values
      /\ MintedValues(h) \intersect disclosed = {}
      /\ out[h].refresh # 0 => out[h].refresh \in MintedValues(h) /\ out[h].refresh \in Values
  BY <1>0, <1>1, MintedFields DEF HandlerOK, Holds, MintedValues, ValuesOK
<1>3. CASE Discard(h)
  <2>1. pc[h] = "discard" /\ MintedValues(h) \intersect leaked = {}
    BY <1>3 DEF Discard, At, CleanUp
  <2>2. \/ RevokeToken(out[h].main) /\ leaked' = leaked
        \/ Stored' = Stored /\ leaked' = leaked \union {out[h].main}
    BY <1>3 DEF Discard, StorageError, store, Stored, Has
  <2>3. /\ Stored' \subseteq Stored /\ out[h].main \notin Stored' \ leaked'
        /\ leaked \subseteq leaked' /\ leaked' \subseteq leaked \union {out[h].main}
    BY <1>0, <1>2, <2>2, RevokeTokenStored
  <2>4. CASE out[h].refresh # 0
    <3>1. Goto(h, "discard_refresh")
      BY <1>3, <2>4 DEF Discard
    <3>2. /\ Only(h) /\ pc'[h] = "discard_refresh" /\ out'[h] = out[h]
          /\ MintedValues(h)' = MintedValues(h)
      BY <1>0, <3>1, GotoStep, MintedSets DEF PCs
    <3> QED BY <1>0, <1>1, <1>2, <2>1, <2>3, <3>2 DEF Accounts, CleanUp, NoOrphans
  <2>5. CASE out[h].refresh = 0
    <3>1. Finish(h)
      BY <1>3, <2>5 DEF Discard
    <3>2. Only(h) /\ pc'[h] = "idle" /\ MintedValues(h)' = {}
      BY <1>0, <3>1, FinishIdles, MintedSets DEF Idles
    <3>3. MintedValues(h) = {out[h].main}
      BY <1>2, <2>5 DEF MintedValues
    <3> QED BY <1>0, <1>1, <1>2, <2>1, <2>3, <3>2, <3>3 DEF Accounts, CleanUp, NoOrphans
  <2> QED BY <2>4, <2>5
<1>4. CASE DiscardRefresh(h)
  <2>1. pc[h] = "discard_refresh" /\ out[h].refresh # 0
    BY <1>0, <1>4 DEF DiscardRefresh, At, HandlerOK
  <2>2. \/ RevokeToken(out[h].refresh) /\ leaked' = leaked
        \/ Stored' = Stored /\ leaked' = leaked \union {out[h].refresh}
    BY <1>4 DEF DiscardRefresh, StorageError, store, Stored, Has
  <2>3. /\ Stored' \subseteq Stored /\ out[h].refresh \notin Stored' \ leaked'
        /\ leaked \subseteq leaked' /\ leaked' \subseteq leaked \union {out[h].refresh}
    BY <1>0, <1>2, <2>1, <2>2, RevokeTokenStored
  <2>4. out[h].main \notin Stored \ leaked
    BY <2>1 DEF CleanUp, Stored
  <2>5. Only(h) /\ pc'[h] = "idle" /\ MintedValues(h)' = {}
    BY <1>0, <1>4, FinishIdles, MintedSets DEF DiscardRefresh, Idles
  <2>6. \A v \in MintedValues(h) : v = out[h].main \/ v = out[h].refresh
    BY DEF MintedValues
  <2> QED BY <1>0, <1>1, <1>2, <2>1, <2>3, <2>4, <2>5, <2>6 DEF Accounts, CleanUp, NoOrphans
<1> QED BY <1>3, <1>4

(* The response discloses what was minted; a handler that stops gives it up.*)
LEMMA EndAccounts ==
    ASSUME Inductive, CleanUp, NEW h \in Procs, Respond(h) \/ Crash(h)
    PROVE  Accounts(h)
<1>0. TypeOK /\ ValuesOK /\ nextValue \in Int
  BY DEF Inductive, TypeOK, Safe
<1>1. /\ nextValue' = nextValue /\ Stored' = Stored /\ Finish(h)
  BY DEF Respond, Crash, supply, store, Stored, Has
<1>2. Only(h) /\ pc'[h] = "idle" /\ MintedValues(h)' = {}
  BY <1>0, <1>1, FinishIdles, MintedSets DEF Idles
<1>3. MintedValues(h) \intersect disclosed = {}
  BY <1>0 DEF ValuesOK
<1>4. Respond(h) => /\ disclosed' = disclosed \union MintedValues(h) /\ leaked' = leaked
                    /\ MintedValues(h) \intersect leaked = {}
  BY DEF Respond, At, CleanUp
<1>5. Crash(h) => leaked' = leaked \union MintedValues(h) /\ disclosed' = disclosed
  BY DEF Crash
<1> QED BY <1>0, <1>1, <1>2, <1>3, <1>4, <1>5 DEF Accounts, CleanUp, NoOrphans

(* RevokeGrant of another store, half-way. *)
LEMMA PartAccounts ==
    ASSUME Inductive, CleanUp, NEW h \in Procs, RevokePart(h)
    PROVE  Accounts(h)
<1>1. /\ Only(h) /\ nextValue' = nextValue /\ leaked' = leaked /\ disclosed' = disclosed
      /\ MintedValues(h)' = MintedValues(h) /\ pc'[h] = pc[h] /\ pc[h] \in {"reuse", "act"}
  BY DEF RevokePart, handler, supply, history, Only, At, MintedValues
<1>2. nextValue \in Int
  BY DEF Inductive, TypeOK
<1> QED BY <1>1, <1>2, StoredStep, QuietAccounts

(* What failures leave in the store is known. *)
LEMMA CleanUpInvariant == Spec => []CleanUp
<1>1. Init => CleanUp
  BY NoTokensType DEF Init, CleanUp, NoOrphans, Has, NoTokensStored, MintedValues
<1>2. Inductive /\ Inductive' /\ CleanUp /\ [Next]_vars => CleanUp'
  <2> SUFFICES ASSUME Inductive, Inductive', CleanUp, [Next]_vars PROVE CleanUp'
    OBVIOUS
  <2>1. CASE UNCHANGED vars
    BY <2>1 DEF vars, store, handler, supply, history, CleanUp, NoOrphans, Has, MintedValues
  <2>2. CASE SetClient \/ Tick
    BY <2>2 DEF SetClient, Tick, store, handler, supply, history, CleanUp, NoOrphans, Has,
                MintedValues
  <2>3. CASE Collect
    <3>1. /\ pc' = pc /\ out' = out /\ leaked' = leaked /\ disclosed' = disclosed
          /\ nextValue' = nextValue
      BY <2>3 DEF Collect, handler, history, supply
    <3>2. \A v \in Values : tokens'[v] = NotFound \/ tokens'[v] = tokens[v]
      BY <2>3, CollectDrops DEF Collect, Inductive, Drops
    <3>3. NoOrphans'
      BY <3>1, <3>2 DEF CleanUp, NoOrphans, Has, MintedValues
    <3>4. \A h \in Procs : pc[h] = "discard_refresh" => out[h].main \in Values
      BY MintedFields DEF Inductive, HandlersOK, HandlerOK, Holds, TypeOK
    <3> QED BY <3>1, <3>2, <3>3, <3>4 DEF CleanUp, Has, MintedValues
  <2>4. ASSUME NEW h \in Procs, Arrive(h) \/ Step(h) \/ RevokePart(h) \/ Crash(h)
        PROVE  CleanUp'
    <3>1. Accounts(h)
      BY <2>4, ArriveAccounts, WorkAccounts, StoreFailsAccounts, DiscardAccounts,
         EndAccounts, PartAccounts DEF Step
    <3> QED BY <3>1, AccountsClean
  <2> QED BY <2>1, <2>2, <2>3, <2>4 DEF Next
<1> QED BY <1>1, <1>2, InductiveInvariant, PTL DEF Spec

(***************************************************************************)
(* discardTokens leaves nothing behind that it does not know of: a token   *)
(* in the store was sent to a client, is held by a running handler, or its *)
(* clean-up failed, and then no client has it (storeAndConsume,            *)
(* discardTokens).                                                         *)
(***************************************************************************)
THEOREM NothingIsOrphaned == Spec => []NoOrphans
  BY CleanUpInvariant, PTL DEF CleanUp

------------------------------------------------------------------------------
(* TokenEndpoint implements GrantLife. *)

(* The values of the refinement mapping, before and after a step. *)
LEMMA HeldType ==
    ASSUME TypeOK, TypeOK'
    PROVE  /\ heldBar \in [Values -> Grants \union {None, NotFound}]
           /\ heldBar' \in [Values -> Grants \union {None, NotFound}]
           /\ \A v \in disclosed : heldBar[v] # None
<1>1. heldBar \in [Values -> Grants \union {None, NotFound}]
  BY TokenFields DEF heldBar, TypeOK, TokenMaps, Has
<1>2. heldBar' \in [Values -> Grants \union {None, NotFound}]
  BY TokenFields DEF heldBar, TypeOK, TokenMaps, Has
<1>3. \A v \in disclosed : heldBar[v] # None
  BY TokenFields, LifeAssumption DEF heldBar, TypeOK, TokenMaps, Has
<1> QED BY <1>1, <1>2, <1>3

(* A step that clients cannot see, but for tokens that disappear. *)
LEMMA HiddenDrops ==
    ASSUME Inductive, Inductive', Next,
           disclosed' = disclosed, issued' = issued, revoked' = revoked
    PROVE  Life!Drop
<1>1. /\ heldBar \in [Values -> Grants \union {None, NotFound}]
      /\ heldBar' \in [Values -> Grants \union {None, NotFound}]
  BY HeldType DEF Inductive
<1>2. ASSUME NEW v \in Values, heldBar'[v] # heldBar[v]
      PROVE  heldBar[v] # None /\ heldBar'[v] = NotFound
  <2>1. v \in disclosed
    BY <1>2 DEF heldBar
  <2>2. heldBar[v] # None
    BY <2>1, HeldType DEF Inductive
  <2>3. tokens[v] \in Token => [tokens[v] EXCEPT !.consumed = TRUE].grant = tokens[v].grant
    BY DEF Token
  <2>4. heldBar[v] = IF tokens[v] # NotFound THEN tokens[v].grant ELSE NotFound
    BY <2>1 DEF heldBar, Has
  <2>5. heldBar'[v] = IF tokens'[v] # NotFound THEN tokens'[v].grant ELSE NotFound
    BY <2>1 DEF heldBar, Has
  <2> QED BY <1>2, <2>1, <2>2, <2>3, <2>4, <2>5, DisclosedStep, TokenFields
<1>3. usedBar' = usedBar
  BY DEF usedBar
<1> QED BY <1>1, <1>2, <1>3 DEF Life!Drop

(* RevokeGrant ends a grant. *)
LEMMA RevokeEnds ==
    ASSUME Inductive, NEW h \in Procs, Revoke(h) \/ RevokeReused(h),
           revoked' # revoked
    PROVE  \E g \in Grants : Life!End(g)
<1>0. TypeOK /\ HandlerOK(h)
  BY DEF Inductive, HandlersOK
<1> DEFINE g == src[h].grant
<1>1. RevokeGrant(g) /\ pc[h] \in {"act", "reuse"}
  BY DEF Revoke, RevokeReused, StorageError, At
<1>2. g \in Grants
  BY <1>0, <1>1, TokenFields DEF HandlerOK
<1>3. disclosed' = disclosed /\ issued' = issued
  BY DEF Revoke, RevokeReused
<1> HIDE DEF g
<1>4. heldBar' = [v \in Values |-> IF heldBar[v] = g THEN NotFound ELSE heldBar[v]]
  <2>1. ASSUME NEW v \in Values
        PROVE  heldBar'[v] = IF heldBar[v] = g THEN NotFound ELSE heldBar[v]
    BY <1>0, <1>1, <1>2, <1>3, LifeAssumption
       DEF heldBar, RevokeGrant, WithoutGrant, Has, TypeOK, TokenMaps
  <2> QED BY <2>1 DEF heldBar
<1>5. usedBar' = usedBar
  BY <1>3 DEF usedBar
<1> QED BY <1>1, <1>2, <1>4, <1>5 DEF Life!End, RevokeGrant

(* A response starts a grant or answers an exchange. *)
LEMMA RespondDiscloses ==
    ASSUME Inductive, Inductive', NEW h \in Procs, Respond(h)
    PROVE  /\ Life!Disclose(src[h].grant) /\ src[h].grant \in Grants
           /\ req[h].op \in Starts => Life!Start(src[h].grant)
           /\ req[h].op \in Exchanges => Life!Exchange(req[h].value, src[h].grant)
<1> DEFINE g == src[h].grant
           w == req[h].value
<1>0. TypeOK /\ HandlerOK(h) /\ RecordsOK(h) /\ RespondOK(h) /\ SourceOK(h) /\ PrivateOK(h)
      /\ AtMostOneExchange /\ ValuesOK
  BY DEF Inductive, HandlersOK, Safe
<1>1. /\ pc[h] = "respond" /\ tokens' = tokens /\ revoked' = revoked
      /\ disclosed' = disclosed \union MintedValues(h)
  BY DEF Respond, At, store
<1>2. g \in Grants
  BY <1>0, <1>1, TokenFields DEF HandlerOK
<1>3. /\ heldBar \in [Values -> Grants \union {None, NotFound}]
      /\ heldBar' \in [Values -> Grants \union {None, NotFound}]
  BY HeldType DEF Inductive
<1>4. ASSUME NEW v \in Values
      PROVE  \/ heldBar'[v] = heldBar[v]
             \/ heldBar[v] = None /\ heldBar'[v] = NotFound
             \/ heldBar[v] = None /\ heldBar'[v] = g /\ g \notin revoked
  <2>1. CASE v \in MintedValues(h)
    <3>1. v \notin disclosed /\ v \in disclosed'
      BY <1>0, <1>1, <2>1 DEF ValuesOK
    <3>2. heldBar[v] = None
      BY <3>1 DEF heldBar
    <3>3. heldBar'[v] = IF Has(tokens, v) THEN tokens[v].grant ELSE NotFound
      BY <1>1, <3>1 DEF heldBar
    <3>4. Has(tokens, v) => tokens[v].grant = g /\ g \notin revoked
      BY <1>0, <1>1, <2>1 DEF RecordsOK, RespondOK, At
    <3> QED BY <3>2, <3>3, <3>4
  <2>2. CASE v \notin MintedValues(h)
    BY <1>1, <2>2 DEF heldBar
  <2> QED BY <2>1, <2>2
<1> HIDE DEF g
<1>5. Life!Disclose(g)
  BY <1>1, <1>3, <1>4 DEF Life!Disclose
<1>6. ASSUME req[h].op \in Starts PROVE Life!Start(g)
  <2>1. /\ g \notin revoked
        /\ \A v \in disclosed : Has(tokens, v) => tokens[v].grant # g
    BY <1>0, <1>1, <1>6 DEF PrivateOK, g
  <2>2. \A v \in Values : heldBar[v] # g
    BY <1>2, <2>1, LifeAssumption DEF heldBar
  <2>3. usedBar' = usedBar
    BY <1>6 DEF Respond, Starts, Direct, Exchanges, usedBar
  <2> QED BY <1>5, <2>1, <2>2, <2>3 DEF Life!Start
<1>7. ASSUME req[h].op \in Exchanges PROVE Life!Exchange(w, g)
  <2>1. Winning(h) /\ w \in disclosed /\ w \in Values
    BY <1>0, <1>1, <1>7 DEF Winning, At, HandlerOK, Lookups, TypeOK
  <2>2. w \notin usedBar
    BY <1>0, <2>1 DEF AtMostOneExchange, usedBar
  <2>3. usedBar' = usedBar \union {w}
    <3> DEFINE x == [used |-> w, access |-> out[h].main,
                     grant |-> src[h].grant, expiresAt |-> src[h].expiresAt]
    <3>1. issued' = issued \union {x}
      BY <1>7 DEF Respond
    <3>2. x.used = w
      OBVIOUS
    <3> HIDE DEF x
    <3> QED BY <3>1, <3>2 DEF usedBar
  <2>4. Has(tokens, w) => tokens[w].grant = g
    BY <1>0, <1>1, <1>7 DEF SourceOK, Lookups, g
  <2>5. heldBar[w] \in {g, NotFound}
    BY <2>1, <2>4 DEF heldBar
  <2> QED BY <1>5, <2>2, <2>3, <2>5 DEF Life!Exchange
<1> QED BY <1>2, <1>5, <1>6, <1>7 DEF g

(***************************************************************************)
(* The handlers of token.go, revoke.go and approve.go implement GrantLife, *)
(* with any number of handlers, clients and tokens and through every       *)
(* failure: a code or refresh token is exchanged once, for tokens of its   *)
(* own grant, what is gone never comes back, and nothing is valid in a     *)
(* grant that ended.                                                       *)
(***************************************************************************)
THEOREM GrantLifeRefined == Spec => ImplementsGrantLife
<1>1. Init => Life!Init
  BY DEF Init, Life!Init, heldBar, usedBar
<1>2. Inductive /\ Inductive' /\ [Next]_vars => [Life!Next]_(Life!life)
  <2> SUFFICES ASSUME Inductive, Inductive', [Next]_vars
               PROVE  Life!Next \/ UNCHANGED Life!life
    OBVIOUS
  <2>1. CASE UNCHANGED vars
    BY <2>1 DEF vars, store, history, Life!life, heldBar, usedBar, Has
  <2>2. ASSUME Next, NEW h \in Procs, Respond(h) PROVE Life!Next
    <3>1. req[h].op \in Exchanges \union Starts /\
          (req[h].op \in Exchanges => req[h].value \in Values)
      BY <2>2 DEF Respond, At, Inductive, HandlersOK, HandlerOK, Holds, Lookups, TypeOK
    <3> QED BY <2>2, <3>1, RespondDiscloses DEF Life!Next
  <2>3. ASSUME Next, NEW h \in Procs, Revoke(h) \/ RevokeReused(h) PROVE Life!Next
    <3>1. CASE revoked' # revoked
      BY <2>3, <3>1, RevokeEnds DEF Life!Next
    <3>2. CASE revoked' = revoked
      <4>1. disclosed' = disclosed /\ issued' = issued
        BY <2>3 DEF Revoke, RevokeReused
      <4> QED BY <2>3, <3>2, <4>1, HiddenDrops DEF Life!Next
    <3> QED BY <3>1, <3>2
  <2> QED BY <2>1, <2>2, <2>3, HiddenStep, HiddenDrops DEF Life!Next
<1> QED BY <1>1, <1>2, InductiveInvariant, PTL DEF Spec, ImplementsGrantLife, Life!Spec
-----------------------------------------------------------------------------
(* A bound on the steps that are left to a handler at each position: the   *)
(* longest way from there to the end of serveToken.                        *)
StepsLeft(label) ==
    CASE label = "load"            -> 9
      [] label = "check"           -> 8
      [] label = "issue"           -> 7
      [] label = "store"           -> 6
      [] label = "store_refresh"   -> 5
      [] label = "consume"         -> 4
      [] label = "reuse"           -> 3
      [] label = "discard"         -> 2
      [] label = "discard_refresh" -> 1
      [] label = "respond"         -> 1
      [] label = "act"             -> 1
      [] label = "answer"          -> 1
      [] OTHER                     -> 0

(* No step of a handler, whatever the storage answers and whatever other   *)
(* handlers do, leads back to a position it has been at.                   *)
NoWayBack ==
    \A h \in Procs :
        \/ pc'[h] = pc[h]
        \/ At(h, "idle")
        \/ StepsLeft(pc'[h]) < StepsLeft(pc[h])

(* Every step of a handler, error paths included, uses up one of the steps *)
(* that were left to it, and moves no other handler.                       *)
LEMMA StepDescends ==
    ASSUME TypeOK, NEW h \in Procs, Step(h)
    PROVE  /\ StepsLeft(pc'[h]) < StepsLeft(pc[h])
           /\ \A k \in Procs \ {h} : pc'[k] = pc[k]
<1> USE DEF At, Goto, Finish
<1>0. pc \in [Procs -> PCs]
  BY DEF TypeOK
<1>1. PICK label \in {"idle", "check", "reuse", "issue", "store", "store_refresh",
                      "consume", "respond", "discard", "discard_refresh", "act", "answer"} :
        pc' = [pc EXCEPT ![h] = label]
  BY DEF Step, LoadFinds, AfterLoad, LoadRefuses, Answer, Revoke, CheckReuse, CheckPasses,
         CheckRefuses, Mint, MintFails, Store, StoreRefresh, AfterStore, StoreFails, Fail,
         Consume, ConsumeReused, ConsumeFails, RevokeReused, Discard, DiscardRefresh, Respond
<1>2. pc'[h] = label /\ \A k \in Procs \ {h} : pc'[k] = pc[k]
  BY <1>0, <1>1
<1>3. CASE LoadFinds(h) \/ LoadRefuses(h) \/ Answer(h) \/ Revoke(h)
  BY <1>0, <1>2, <1>3 DEF LoadFinds, AfterLoad, LoadRefuses, Answer, Revoke, StepsLeft
<1>4. CASE CheckReuse(h) \/ CheckPasses(h) \/ CheckRefuses(h) \/ Mint(h) \/ MintFails(h)
  BY <1>0, <1>2, <1>4 DEF CheckReuse, CheckPasses, CheckRefuses, Mint, MintFails, StepsLeft
<1>5. CASE Store(h) \/ StoreRefresh(h) \/ StoreFails(h)
  BY <1>0, <1>2, <1>5 DEF Store, StoreRefresh, AfterStore, StoreFails, Fail, StepsLeft
<1>6. CASE Consume(h) \/ ConsumeReused(h) \/ ConsumeFails(h) \/ RevokeReused(h)
  BY <1>0, <1>2, <1>6 DEF Consume, ConsumeReused, ConsumeFails, RevokeReused, Fail, StepsLeft
<1>7. CASE Discard(h) \/ DiscardRefresh(h) \/ Respond(h)
  BY <1>0, <1>2, <1>7 DEF Discard, DiscardRefresh, Respond, StepsLeft
<1> QED  BY <1>2, <1>3, <1>4, <1>5, <1>6, <1>7 DEF Step

(***************************************************************************)
(* No error path of exchangeAuthorizationCode, exchangeRefreshToken,       *)
(* storeAndConsume or discardTokens goes in a circle: a request is over    *)
(* after at most nine steps, with any number of other requests under way.  *)
(***************************************************************************)
THEOREM HandlersDescend == Spec => [][NoWayBack]_vars
<1>1. TypeOK /\ [Next]_vars => [NoWayBack]_vars
  <2> SUFFICES ASSUME TypeOK, Next, NEW h \in Procs
               PROVE  pc'[h] = pc[h] \/ At(h, "idle") \/ StepsLeft(pc'[h]) < StepsLeft(pc[h])
    BY DEF NoWayBack
  <2>0. pc \in [Procs -> PCs]
    BY DEF TypeOK
  <2>1. ASSUME NEW k \in Procs, Arrive(k)  PROVE At(k, "idle") /\ (h # k => pc'[h] = pc[h])
    <3> DEFINE BeginsAt(label) == At(k, "idle") /\ pc' = [pc EXCEPT ![k] = label]
    <3>1. BeginCodeExchange(k) \/ BeginRefresh(k) \/ BeginRevocation(k) \/ BeginRead(k)
          => BeginsAt("load")
      BY DEF BeginCodeExchange, BeginRefresh, BeginRevocation, BeginRead, Begin
    <3>2. BeginDirect(k) => BeginsAt("issue")
      BY DEF BeginDirect, StartDirect, Begin
    <3>3. BeginApprove(k) => BeginsAt("store")
      BY DEF BeginApprove, StartApprove, Begin
    <3>4. PICK label : BeginsAt(label)
      BY <2>1, <3>1, <3>2, <3>3 DEF Arrive
    <3> QED  BY <2>0, <3>4
  <2>2. ASSUME NEW k \in Procs, Crash(k)
        PROVE  /\ h # k => pc'[h] = pc[h]
               /\ h = k => StepsLeft(pc'[h]) < StepsLeft(pc[h])
    BY <2>0, <2>2 DEF Crash, Finish, At, PCs, StepsLeft
  <2>3. ASSUME NEW k \in Procs, RevokePart(k)  PROVE pc' = pc
    BY <2>3 DEF RevokePart, handler
  <2>4. SetClient \/ Tick \/ Collect => pc' = pc
    BY DEF SetClient, Tick, Collect, handler
  <2> QED  BY <2>1, <2>2, <2>3, <2>4, StepDescends DEF Next
<1> QED  BY <1>1, TypeCorrect, PTL DEF Spec

==============================================================================
