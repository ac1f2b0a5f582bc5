-------------------------- MODULE TokenEndpointProofs --------------------------
(* Theorems about TokenEndpoint, for every value of its constants. *)
EXTENDS TokenEndpointInvariant, TokenMapTheorems

------------------------------------------------------------------------------
(* Facts about the records. *)

(* derive yields a token of the same grant that is not consumed. *)
LEMMA DeriveType ==
    ASSUME NEW t \in Token, NEW k \in Kinds, NEW s \in SUBSET Scopes,
           NEW a \in SUBSET Audiences, NEW e \in Nat
    PROVE  derive(t, k, s, a, e) \in Token /\ derive(t, k, s, a, e).grant = t.grant
  BY DEF derive, Token

(* The fields of a token that the proofs use. *)
LEMMA TokenFields ==
    ASSUME NEW t \in Token
    PROVE  /\ t.grant \in Grants /\ t.grant \in Nat /\ t # NotFound
           /\ t.scopes \in SUBSET Scopes /\ t.audience \in SUBSET Audiences
  BY NotFoundAssumption DEF Token, Grants

(* mintTokens yields an access token and perhaps a refresh token of a grant.*)
LEMMA MintedType ==
    ASSUME TypeOK, NEW t \in Token, NEW s \in SUBSET Scopes,
           NEW a \in SUBSET Audiences, NEW rf \in BOOLEAN,
           NEW al \in AccessLifetimes, NEW rl \in RefreshLifetimes,
           nextValue + (IF rf THEN 1 ELSE 0) <= MaxValues
    PROVE  LET o == minted(t, s, a, rf, al, rl) IN
           /\ o \in Minted /\ o.main = nextValue /\ o.main # 0
           /\ o.at \in Token /\ o.at.grant = t.grant
           /\ o.refresh = IF rf THEN nextValue + 1 ELSE 0
           /\ o.refresh # 0 => /\ o.rt \in Token /\ o.rt.grant = t.grant
                               /\ o.refresh # o.main
<1>1. now + al \in Nat /\ now + rl \in Nat /\ nextValue \in Nat /\ nextValue # 0
  BY ConstantsAssumption DEF TypeOK
<1>2. /\ nextValue \in Values
      /\ rf => nextValue + 1 \in Values
  BY <1>1, BoundsAssumption DEF TypeOK, Values
<1> DEFINE at == derive(t, "access_token", s, a, now + al)
           rt == derive(t, "refresh_token", t.scopes, t.audience, now + rl)
<1>3. at \in Token /\ at.grant = t.grant
  BY <1>1, DeriveType DEF Kinds
<1>4. rt \in Token /\ rt.grant = t.grant
  BY <1>1, TokenFields, DeriveType DEF Kinds
<1>5. minted(t, s, a, rf, al, rl) =
        [main |-> nextValue, at |-> at, refresh |-> IF rf THEN nextValue + 1 ELSE 0,
         rt |-> IF rf THEN rt ELSE NotFound]
  BY DEF minted
<1> HIDE DEF at, rt
<1> QED BY <1>1, <1>2, <1>3, <1>4, <1>5 DEF Minted

(* What a request copies from the state is well-typed. *)
LEMMA ArrivalFacts ==
    ASSUME TypeOK
    PROVE  /\ \A i \in Issuers, c \in ClientIDs : clients[<<i, c>>] \in Registration
           /\ \A v \in Values : Spent(v) \in BOOLEAN
           /\ NoProof \in Proof
<1>1. ASSUME NEW i \in Issuers, NEW c \in ClientIDs
      PROVE  clients[<<i, c>>] \in Registration
  BY ConstantsAssumption DEF TypeOK
<1>2. ASSUME NEW v \in Values PROVE Spent(v) \in BOOLEAN
  <2>1. tokens[v] \in Token \union {NotFound}
    BY DEF TypeOK, TokenMaps
  <2>2. tokens[v] \in Token => tokens[v].consumed \in BOOLEAN
    BY DEF Token
  <2> QED BY <2>1, <2>2 DEF Spent, Has
<1>3. NoProof \in Proof
  BY DEF NoProof, Proof
<1> QED BY <1>1, <1>2, <1>3

(* The fields of what a handler minted. *)
LEMMA MintedFields ==
    ASSUME NEW o \in Minted
    PROVE  /\ o.main \in Values \union {0} /\ o.refresh \in Values \union {0}
           /\ o.at \in Token \union {NotFound} /\ o.rt \in Token \union {NotFound}
  BY DEF Minted

(* A handler that minted nothing. *)
LEMMA NoTokensType == NoTokens \in Minted /\ NoTokens.main = 0 /\ NoTokens.refresh = 0
  BY DEF NoTokens, Minted

------------------------------------------------------------------------------
(* Type correctness, together with what a handler's position implies. *)

Only(h) ==
    \A k \in Procs \ {h} :
        pc'[k] = pc[k] /\ req'[k] = req[k] /\ src'[k] = src[k] /\ out'[k] = out[k]

HandlerTypes ==
    /\ pc \in [Procs -> PCs]
    /\ req \in [Procs -> Request \union {None}]
    /\ src \in [Procs -> Token \union {NotFound}]
    /\ out \in [Procs -> Minted]

(* The types of the handlers are part of the type invariant. *)
LEMMA HandlerTypesFold == TypeOK => HandlerTypes
  BY DEF TypeOK, HandlerTypes

(* Ending a handler keeps the types and leaves it idle. *)
LEMMA FinishStep ==
    ASSUME TypeOK, NEW h \in Procs, Finish(h)
    PROVE  HandlerTypes' /\ Only(h) /\ HandlerOK(h)'
  BY NoTokensType DEF TypeOK, Finish, HandlerTypes, Only, HandlerOK, PCs, Fresh, Holds

(* Moving a handler on keeps the types and its records. *)
LEMMA GotoStep ==
    ASSUME TypeOK, NEW h \in Procs, NEW label \in PCs, Goto(h, label)
    PROVE  /\ HandlerTypes' /\ Only(h)
           /\ pc'[h] = label /\ req'[h] = req[h] /\ src'[h] = src[h] /\ out'[h] = out[h]
  BY DEF TypeOK, Goto, HandlerTypes, Only

(* A handler that did not move keeps its position invariant. *)
LEMMA HandlerFrame ==
    ASSUME NEW h \in Procs, HandlersOK, Only(h), HandlerOK(h)',
           disclosed \subseteq disclosed'
    PROVE  HandlersOK'
<1> SUFFICES ASSUME NEW k \in Procs \ {h} PROVE HandlerOK(k)'
  BY DEF HandlersOK
<1> QED BY DEF HandlersOK, Only, HandlerOK

(* CreateToken yields a map of tokens that has the new one. *)
LEMMA CreateTokenStep ==
    ASSUME TypeOK, NEW v \in Values, NEW t \in Token, CreateToken(v, t)
    PROVE  /\ tokens' \in TokenMaps /\ lastCollection' \in Int
           /\ tokens'[v] = t
           /\ \A w \in Values \ {v} :
                \/ tokens'[w] = NotFound
                \/ tokens'[w] = tokens[w]
<1>1. now \in Nat /\ tokens \in TokenMaps /\ lastCollection \in Int
  BY DEF TypeOK
<1>2. collectLocked.tokens \in TokenMaps /\ collectLocked.last \in Int
  BY <1>1, CollectedKeeps DEF collectLocked
<1>3. \A w \in Values : \/ collectLocked.tokens[w] = NotFound
                        \/ collectLocked.tokens[w] = tokens[w]
  BY <1>1 DEF collectLocked, Collected, TokenMaps
<1> QED
  BY <1>2, <1>3, WithTokenType DEF CreateToken

(* The types that do not concern handlers, for an action that leaves them. *)
LEMMA TypeFrame ==
    ASSUME TypeOK, HandlerTypes', UNCHANGED <<store, supply, world, history>>
    PROVE  TypeOK'
  BY DEF TypeOK, HandlerTypes, store, supply, world, history

(* The history of grants keeps its type. *)
LEMMA RememberType ==
    ASSUME NEW op \in {"approve"} \union Direct, NEW t \in Token, Remember(op, t),
           granted \in [Grants -> GrantInfo \union {None}]
    PROVE  granted' \in [Grants -> GrantInfo \union {None}]
<1>1. [op |-> op, issuer |-> t.issuer, client |-> t.client,
       subject |-> t.subject, scopes |-> t.scopes, audience |-> t.audience]
         \in GrantInfo
  BY DEF GrantInfo, Token
<1> QED BY <1>1 DEF Remember

(* Every action of a handler keeps types and positions: arrivals. *)
LEMMA ArriveTypes ==
    ASSUME TypeOK, HandlersOK, NEW h \in Procs, Arrive(h)
    PROVE  TypeOK' /\ HandlersOK'
<1> USE NoTokensType, ArrivalFacts
<1>1. CASE BeginCodeExchange(h)
  <2>1. PICK i \in Issuers, c \in ClientIDs, v \in disclosed, pf \in Proofs :
           Begin(h, "load",
                 Arrival("authorization_code", i, c, v, pf, NoScopeParam, FALSE),
                 NotFound, NoTokens)
    BY <1>1 DEF BeginCodeExchange
  <2>2. v \in Values /\ pf \in Proof
    BY ConstantsAssumption DEF TypeOK
  <2> DEFINE r == Arrival("authorization_code", i, c, v, pf, NoScopeParam, FALSE)
  <2>3. r \in Request /\ r.op = "authorization_code" /\ r.value = v
    BY <2>2 DEF Arrival, Request, Ops, Exchanges
  <2> HIDE DEF r
  <2>4. /\ HandlerTypes' /\ Only(h) /\ pc'[h] = "load" /\ req'[h] = r
        /\ src'[h] = NotFound /\ out'[h] = NoTokens
    BY <2>1, <2>3, HandlerTypesFold DEF Begin, r, PCs, HandlerTypes, Only
  <2>5. HandlerOK(h)'
    BY <2>3, <2>4, <1>1 DEF HandlerOK, Fresh, Holds, Lookups, Exchanges,
       BeginCodeExchange, history
  <2> QED BY <1>1, <2>4, <2>5, TypeFrame, HandlerFrame DEF BeginCodeExchange, history
<1>2. CASE BeginRefresh(h)
  <2>1. PICK i \in Issuers, c \in ClientIDs, v \in disclosed,
             s \in {NoScopeParam} \union SUBSET Scopes :
           Begin(h, "load", Arrival("refresh_token", i, c, v, NoProof, s, FALSE),
                 NotFound, NoTokens)
    BY <1>2 DEF BeginRefresh
  <2>2. v \in Values /\ NoProof \in Proof
    BY DEF TypeOK, NoProof, Proof
  <2> DEFINE r == Arrival("refresh_token", i, c, v, NoProof, s, FALSE)
  <2>3. r \in Request /\ r.op = "refresh_token" /\ r.value = v
    BY <2>2 DEF Arrival, Request, Ops, Exchanges
  <2> HIDE DEF r
  <2>4. /\ HandlerTypes' /\ Only(h) /\ pc'[h] = "load" /\ req'[h] = r
        /\ src'[h] = NotFound /\ out'[h] = NoTokens
    BY <2>1, <2>3, HandlerTypesFold DEF Begin, r, PCs, HandlerTypes, Only
  <2>5. HandlerOK(h)'
    BY <2>3, <2>4, <1>2 DEF HandlerOK, Fresh, Holds, Lookups, Exchanges,
       BeginRefresh, history
  <2> QED BY <1>2, <2>4, <2>5, TypeFrame, HandlerFrame DEF BeginRefresh, history
<1>3. CASE BeginRevocation(h)
  <2>1. PICK i \in Issuers, c \in ClientIDs, v \in disclosed :
           Begin(h, "load",
                 Arrival("revoke", i, c, v, NoProof, NoScopeParam, FALSE),
                 NotFound, NoTokens)
    BY <1>3 DEF BeginRevocation
  <2>2. v \in Values /\ NoProof \in Proof
    BY DEF TypeOK, NoProof, Proof
  <2> DEFINE r == Arrival("revoke", i, c, v, NoProof, NoScopeParam, FALSE)
  <2>3. r \in Request /\ r.op = "revoke" /\ r.value = v
    BY <2>2 DEF Arrival, Request, Ops, Exchanges
  <2> HIDE DEF r
  <2>4. /\ HandlerTypes' /\ Only(h) /\ pc'[h] = "load" /\ req'[h] = r
        /\ src'[h] = NotFound /\ out'[h] = NoTokens
    BY <2>1, <2>3, HandlerTypesFold DEF Begin, r, PCs, HandlerTypes, Only
  <2>5. HandlerOK(h)'
    BY <2>3, <2>4, <1>3 DEF HandlerOK, Fresh, Holds, Lookups, Exchanges,
       BeginRevocation, history
  <2> QED BY <1>3, <2>4, <2>5, TypeFrame, HandlerFrame DEF BeginRevocation, history
<1>4. CASE BeginRead(h)
  <2>1. PICK op \in Reads, i \in Issuers, c \in ClientIDs, v \in disclosed :
           Begin(h, "load", Arrival(op, i, c, v, NoProof, NoScopeParam, FALSE),
                 NotFound, NoTokens)
    BY <1>4 DEF BeginRead
  <2>2. v \in Values /\ NoProof \in Proof
    BY DEF TypeOK, NoProof, Proof
  <2> DEFINE r == Arrival(op, i, c, v, NoProof, NoScopeParam, FALSE)
  <2>3. r \in Request /\ r.op = op /\ r.value = v
    BY <2>2 DEF Arrival, Request, Ops
  <2> HIDE DEF r
  <2>4. /\ HandlerTypes' /\ Only(h) /\ pc'[h] = "load" /\ req'[h] = r
        /\ src'[h] = NotFound /\ out'[h] = NoTokens
    BY <2>1, <2>3, HandlerTypesFold DEF Begin, r, PCs, HandlerTypes, Only
  <2>5. HandlerOK(h)'
    BY <2>3, <2>4, <1>4 DEF HandlerOK, Fresh, Holds, Lookups, BeginRead, history
  <2> QED BY <1>4, <2>4, <2>5, TypeFrame, HandlerFrame DEF BeginRead, history
<1>5. CASE BeginDirect(h)
  <2>0. PICK op \in Direct \intersect Endpoints, i \in Issuers, c \in ClientIDs,
             subject \in BOOLEAN, s \in SUBSET Scopes, a \in SUBSET Audiences,
             rf \in BOOLEAN : StartDirect(h, op, i, c, subject, s, a, rf)
    BY <1>5, Zenon DEF BeginDirect
  <2>1. /\ Begin(h, "issue", Arrival(op, i, c, 0, NoProof, NoScopeParam, rf),
                 directGrant(i, c, subject, s, a), NoTokens)
        /\ Remember(op, directGrant(i, c, subject, s, a))
    BY <2>0, Zenon DEF StartDirect
  <2>2. nextGrant \in Grants
    BY <1>5 DEF TypeOK, BeginDirect, Grants
  <2> DEFINE r == Arrival(op, i, c, 0, NoProof, NoScopeParam, rf)
             t == directGrant(i, c, subject, s, a)
  <2>3. r \in Request /\ r.op = op
    BY DEF Arrival, Request, Ops
  <2>4. t \in Token /\ t.grant = nextGrant
    BY <2>2 DEF directGrant, Token, Kinds, TypeOK
  <2> HIDE DEF r, t
  <2>5. granted' \in [Grants -> GrantInfo \union {None}]
    BY <2>1, <2>4, RememberType DEF t, TypeOK
  <2>6. /\ HandlerTypes' /\ Only(h) /\ pc'[h] = "issue" /\ req'[h] = r
        /\ src'[h] = t /\ out'[h] = NoTokens
    BY <2>1, <2>3, <2>4, HandlerTypesFold DEF Begin, r, t, PCs, HandlerTypes, Only
  <2>7. HandlerOK(h)'
    BY <2>3, <2>4, <2>6 DEF HandlerOK, Fresh, Holds, Lookups, Starts, Exchanges,
       Direct, Reads
  <2>8. TypeOK'
    BY <1>5, <2>5, <2>6, BoundsAssumption DEF BeginDirect, TypeOK, HandlerTypes, store, world, Grants
  <2> QED BY <1>5, <2>6, <2>7, <2>8, HandlerFrame DEF BeginDirect
<1>6. CASE BeginApprove(h)
  <2>0. PICK i \in Issuers, c \in ClientIDs, shape \in CodeShapes,
             s \in SUBSET Scopes, a \in SUBSET Audiences :
               StartApprove(h, i, c, shape, s, a)
    BY <1>6, Zenon DEF BeginApprove
  <2>1. /\ Begin(h, "store",
                 Arrival("approve", i, c, 0, NoProof, NoScopeParam, FALSE),
                 newCode(i, c, shape, s, a), codeOnly(newCode(i, c, shape, s, a)))
        /\ Remember("approve", newCode(i, c, shape, s, a))
    BY <2>0, Zenon DEF StartApprove
  <2>2. nextGrant \in Grants /\ nextValue \in Values /\ shape \in Shapes
    BY <1>6, ConstantsAssumption DEF TypeOK, BeginApprove, Grants, Values
  <2> DEFINE r == Arrival("approve", i, c, 0, NoProof, NoScopeParam, FALSE)
             t == newCode(i, c, shape, s, a)
             o == codeOnly(t)
  <2>3. r \in Request /\ r.op = "approve"
    BY DEF Arrival, Request, Ops
  <2>4. t \in Token /\ t.grant = nextGrant
    BY <2>2, ConstantsAssumption DEF newCode, Token, Kinds, TypeOK, Shapes
  <2> HIDE DEF t
  <2>5. o \in Minted /\ o.main = nextValue /\ o.at = t /\ o.refresh = 0
    BY <2>2, <2>4 DEF codeOnly, NoTokens, Minted
  <2> HIDE DEF r, o
  <2>6. granted' \in [Grants -> GrantInfo \union {None}]
    BY <2>1, <2>4, RememberType DEF t, TypeOK
  <2>7. /\ HandlerTypes' /\ Only(h) /\ pc'[h] = "store" /\ req'[h] = r
        /\ src'[h] = t /\ out'[h] = o
    BY <2>1, <2>3, <2>4, <2>5, HandlerTypesFold
       DEF Begin, r, t, o, PCs, HandlerTypes, Only
  <2>8. HandlerOK(h)'
    BY <2>2, <2>3, <2>4, <2>5, <2>7 DEF HandlerOK, Fresh, Holds, Lookups, Starts,
       Exchanges, Direct, Reads, Values
  <2>9. TypeOK'
    BY <1>6, <2>6, <2>7, BoundsAssumption
       DEF BeginApprove, TypeOK, HandlerTypes, store, world
  <2> QED BY <1>6, <2>7, <2>8, <2>9, HandlerFrame DEF BeginApprove
<1> QED BY <1>1, <1>2, <1>3, <1>4, <1>5, <1>6 DEF Arrive

(* A failing handler ends or goes on to discard what it minted. *)
LEMMA FailStep ==
    ASSUME TypeOK, NEW h \in Procs, HandlerOK(h), pc[h] # "idle",
           pc[h] # "load", req[h].op \in Exchanges \union Starts,
           disclosed' = disclosed, Fail(h)
    PROVE  HandlerTypes' /\ Only(h) /\ HandlerOK(h)'
<1>1. CASE Finish(h)
  BY <1>1, FinishStep
<1>2. CASE Goto(h, "discard") /\ out[h].main # 0
  <2>1. /\ HandlerTypes' /\ Only(h) /\ pc'[h] = "discard" /\ req'[h] = req[h]
        /\ src'[h] = src[h] /\ out'[h] = out[h]
    BY <1>2, GotoStep DEF PCs
  <2> QED
    BY <1>2, <2>1 DEF HandlerOK, Fresh, Holds
<1> QED BY <1>1, <1>2 DEF Fail

(* The history of lost outcomes keeps its type. *)
LEMMA LoseType ==
    ASSUME TypeOK, NEW h \in Procs, req[h].value \in Values,
           \/ UNCHANGED lost
           \/ \E what \in {"answer", "verdict"} : Lose(h, what)
    PROVE  lost' \subseteq Losses
  BY DEF Lose, Losses, TypeOK

(* Every action of a handler keeps types and positions: its Storage calls. *)
LEMMA StepTypes ==
    ASSUME TypeOK, HandlersOK, NEW h \in Procs, Step(h)
    PROVE  TypeOK' /\ HandlersOK'
<1>0. HandlerOK(h) /\ HandlerTypes /\ out[h] \in Minted
  BY HandlerTypesFold DEF HandlersOK, HandlerTypes
<1>a. ASSUME HandlerTypes', Only(h), HandlerOK(h)',
             UNCHANGED <<store, supply, world, history>>
      PROVE  TypeOK' /\ HandlersOK'
  BY <1>a, TypeFrame, HandlerFrame DEF history
<1>b. ASSUME HandlerTypes', Only(h), HandlerOK(h)',
             tokens' \in TokenMaps, lastCollection' \in Int, revoked' \subseteq Grants,
             leaked' \subseteq Values, lost' \subseteq Losses,
             UNCHANGED <<supply, world, disclosed, issued, granted>>
      PROVE  TypeOK' /\ HandlersOK'
  <2>1. HandlersOK'
    BY <1>b, HandlerFrame
  <2>2. TypeOK'
    BY <1>b DEF TypeOK, HandlerTypes, supply, world
  <2> QED BY <2>1, <2>2
<1>c. /\ tokens \in TokenMaps /\ lastCollection \in Int /\ revoked \subseteq Grants
      /\ leaked \subseteq Values /\ disclosed \subseteq Values
      /\ MintedValues(h) \subseteq Values /\ lost \subseteq Losses
  BY <1>0, MintedFields DEF TypeOK, MintedValues
<1>1. CASE LoadFinds(h)
  <2>1. /\ req[h] \in Request /\ req[h].value \in Values
        /\ req[h].op \in Lookups /\ req[h].value \in disclosed
    BY <1>0, <1>1, <1>c DEF LoadFinds, At, HandlerOK
  <2>2. tokens[req[h].value] \in Token
    BY <1>1, <1>c, <2>1 DEF LoadFinds, Has, TokenMaps
  <2>3. /\ AfterLoad(req[h]) \in PCs
        /\ AfterLoad(req[h]) = "check" => req[h].op \in Exchanges
        /\ AfterLoad(req[h]) # "check" => req[h].op \in Lookups \ Exchanges
        /\ AfterLoad(req[h]) \in {"check", "act", "answer"}
    BY <2>1 DEF AfterLoad, PCs, Lookups, Exchanges, Reads
  <2>4. /\ HandlerTypes' /\ Only(h)
        /\ pc'[h] = AfterLoad(req[h]) /\ req'[h] = req[h]
        /\ src'[h] = tokens[req[h].value] /\ out'[h] = out[h]
    BY <1>0, <1>1, <2>2, <2>3 DEF LoadFinds, HandlerTypes, Only
  <2>5. HandlerOK(h)'
    BY <1>0, <1>1, <2>1, <2>2, <2>3, <2>4
       DEF HandlerOK, Fresh, Holds, LoadFinds, At, history
  <2> QED BY <1>1, <1>a, <2>4, <2>5 DEF LoadFinds
<1>2. CASE LoadRefuses(h) \/ Answer(h) \/ CheckRefuses(h) \/ MintFails(h)
  BY <1>2, <1>a, FinishStep DEF LoadRefuses, Answer, CheckRefuses, MintFails
<1>3. CASE Revoke(h)
  <2>1. src[h] \in Token /\ req[h].value \in Values
    BY <1>0, <1>3, <1>c DEF Revoke, At, HandlerOK
  <2>2. /\ tokens' \in TokenMaps /\ lastCollection' \in Int
        /\ revoked' \subseteq Grants
    BY <1>3, <1>c, <2>1, TokenFields, WithoutGrantKeeps, WithoutTokenKeeps
       DEF Revoke, RevokeGrant, RevokeToken, StorageError, store
  <2> QED BY <1>3, <1>b, <1>c, <2>2, FinishStep DEF Revoke
<1>4. CASE CheckReuse(h) \/ CheckPasses(h)
  <2>1. PICK label \in {"reuse", "issue"} : Goto(h, label)
    BY <1>4 DEF CheckReuse, CheckPasses
  <2>2. /\ HandlerTypes' /\ Only(h) /\ pc'[h] = label /\ req'[h] = req[h]
        /\ src'[h] = src[h] /\ out'[h] = out[h]
    BY <2>1, GotoStep DEF PCs
  <2>3. HandlerOK(h)'
    BY <1>0, <1>4, <2>2
       DEF HandlerOK, Fresh, Holds, CheckReuse, CheckPasses, At, history
  <2> QED BY <1>4, <1>a, <2>2, <2>3 DEF CheckReuse, CheckPasses
<1>5. CASE Mint(h)
  <2>1. PICK s \in SUBSET Scopes, a \in SUBSET Audiences, rf \in BOOLEAN,
             al \in AccessLifetimes, rl \in RefreshLifetimes :
          /\ nextValue + (IF rf THEN 1 ELSE 0) <= MaxValues
          /\ out' = [out EXCEPT ![h] = minted(src[h], s, a, rf, al, rl)]
          /\ nextValue' = nextValue + (IF rf THEN 2 ELSE 1)
    BY <1>5, Zenon DEF Mint
  <2>2. src[h] \in Token /\ req[h] \in Request
        /\ req[h].op \in Exchanges \union Starts
    BY <1>0, <1>5 DEF Mint, At, HandlerOK
  <2> DEFINE o == minted(src[h], s, a, rf, al, rl)
  <2>3. /\ o \in Minted /\ o.main = nextValue /\ o.main # 0 /\ o.at \in Token
        /\ o.refresh # 0 => o.rt \in Token /\ o.refresh # o.main
    BY <2>1, <2>2, MintedType
  <2> HIDE DEF o
  <2>4. /\ HandlerTypes' /\ Only(h) /\ pc'[h] = "store" /\ req'[h] = req[h]
        /\ src'[h] = src[h] /\ out'[h] = o
    BY <1>0, <1>5, <2>1, <2>3 DEF Mint, HandlerTypes, Only, PCs, o
  <2>5. HandlerOK(h)'
    BY <1>0, <1>5, <2>2, <2>3, <2>4
       DEF HandlerOK, Fresh, Holds, Mint, At, history
  <2>6. nextValue' \in 1 .. MaxValues + 1
    BY <2>1, BoundsAssumption DEF TypeOK
  <2>7. TypeOK'
    BY <1>5, <2>4, <2>6 DEF Mint, TypeOK, HandlerTypes, store, world, history
  <2> QED BY <1>5, <2>4, <2>5, <2>7, HandlerFrame DEF Mint, history
<1>6. CASE Store(h) \/ StoreRefresh(h)
  <2>1. PICK label \in {"store_refresh", "consume", "respond"} :
          /\ Goto(h, label)
          /\ label = "store_refresh" => out[h].refresh # 0
          /\ label = "consume" => req[h].op \in Exchanges
    BY <1>6 DEF Store, StoreRefresh, AfterStore
  <2>2. /\ HandlerTypes' /\ Only(h) /\ pc'[h] = label /\ req'[h] = req[h]
        /\ src'[h] = src[h] /\ out'[h] = out[h]
    BY <2>1, GotoStep DEF PCs
  <2>3. HandlerOK(h)'
    BY <1>0, <1>6, <2>1, <2>2
       DEF HandlerOK, Fresh, Holds, Store, StoreRefresh, At, history
  <2>4. tokens' \in TokenMaps /\ lastCollection' \in Int
    BY <1>0, <1>6, CreateTokenStep, MintedFields
       DEF Store, StoreRefresh, HandlerOK, Holds, At
  <2> QED BY <1>6, <1>b, <1>c, <2>2, <2>3, <2>4 DEF Store, StoreRefresh, history
<1>7. CASE StoreFails(h)
  <2>1. HandlerTypes' /\ Only(h) /\ HandlerOK(h)'
    BY <1>0, <1>7, FailStep DEF StoreFails, HandlerOK, Holds, At
  <2>2. tokens' \in TokenMaps /\ lastCollection' \in Int
    BY <1>0, <1>7, <1>c, CreateTokenStep, MintedFields
       DEF StoreFails, StorageError, HandlerOK, Holds, At, store
  <2> QED BY <1>7, <1>b, <1>c, <2>1, <2>2 DEF StoreFails
<1>8. CASE Consume(h)
  <2>1. /\ HandlerTypes' /\ Only(h) /\ pc'[h] = "respond" /\ req'[h] = req[h]
        /\ src'[h] = src[h] /\ out'[h] = out[h]
    BY <1>8, GotoStep DEF Consume, PCs
  <2>2. HandlerOK(h)'
    BY <1>0, <1>8, <2>1 DEF HandlerOK, Fresh, Holds, Consume, At, history
  <2>3. req[h].value \in Values
    BY <1>0, <1>8, <1>c DEF Consume, At, HandlerOK, Lookups
  <2>4. tokens' \in TokenMaps
    BY <1>8, <1>c, <2>3, WithConsumedKeeps DEF Consume, Has
  <2> QED BY <1>8, <1>b, <1>c, <2>1, <2>2, <2>4 DEF Consume, history
<1>9. CASE ConsumeReused(h)
  <2>1. req[h].value \in Values
    BY <1>0, <1>9, <1>c DEF ConsumeReused, At, HandlerOK, Lookups
  <2>2. tokens[req[h].value] \in Token
    BY <1>9, <1>c, <2>1 DEF ConsumeReused, Has, TokenMaps
  <2>3. /\ HandlerTypes' /\ Only(h) /\ pc'[h] = "reuse" /\ req'[h] = req[h]
        /\ src'[h] = tokens[req[h].value] /\ out'[h] = out[h]
    BY <1>0, <1>9, <2>2 DEF ConsumeReused, HandlerTypes, Only, PCs
  <2>4. HandlerOK(h)'
    BY <1>0, <1>9, <2>2, <2>3 DEF HandlerOK, Fresh, Holds, ConsumeReused, At, history
  <2> QED BY <1>9, <1>a, <2>3, <2>4 DEF ConsumeReused
<1>10. CASE ConsumeFails(h)
  <2>1. HandlerTypes' /\ Only(h) /\ HandlerOK(h)'
    BY <1>0, <1>10, FailStep DEF ConsumeFails, HandlerOK, At, history
  <2>2. req[h].value \in Values
    BY <1>0, <1>10, <1>c DEF ConsumeFails, At, HandlerOK, Lookups
  <2>3. tokens' \in TokenMaps /\ lastCollection' \in Int
    BY <1>10, <1>c, <2>2, WithConsumedKeeps DEF ConsumeFails, StorageError, store, Has
  <2>4. \/ UNCHANGED lost
        \/ \E what \in {"answer", "verdict"} : Lose(h, what)
    BY <1>10 DEF ConsumeFails
  <2> QED BY <1>10, <1>b, <1>c, <2>1, <2>2, <2>3, <2>4, LoseType DEF ConsumeFails
<1>11. CASE RevokeReused(h)
  <2>1. HandlerTypes' /\ Only(h) /\ HandlerOK(h)'
    BY <1>0, <1>11, FailStep DEF RevokeReused, HandlerOK, At
  <2>2. src[h] \in Token /\ req[h].value \in Values
    BY <1>0, <1>11, <1>c DEF RevokeReused, At, HandlerOK, Lookups
  <2>3. tokens' \in TokenMaps /\ lastCollection' \in Int /\ revoked' \subseteq Grants
    BY <1>11, <1>c, <2>2, TokenFields, WithoutGrantKeeps
       DEF RevokeReused, RevokeGrant, StorageError, store
  <2> QED BY <1>11, <1>b, <1>c, <2>1, <2>2, <2>3, LoseType DEF RevokeReused
<1>12. CASE Discard(h) \/ DiscardRefresh(h)
  <2>1. /\ At(h, "discard") => out[h].main \in Values
        /\ At(h, "discard_refresh") => out[h].refresh \in Values
    BY <1>0, MintedFields DEF HandlerOK, Holds, At
  <2>2. /\ tokens' \in TokenMaps /\ lastCollection' \in Int
        /\ revoked' \subseteq Grants /\ leaked' \subseteq Values
    BY <1>12, <1>c, <2>1, WithoutTokenKeeps
       DEF Discard, DiscardRefresh, RevokeToken, StorageError, store
  <2>3. HandlerTypes' /\ Only(h) /\ HandlerOK(h)'
    <3>1. CASE Finish(h)
      BY <3>1, FinishStep
    <3>2. CASE Goto(h, "discard_refresh") /\ out[h].refresh # 0 /\ At(h, "discard")
      <4>1. /\ HandlerTypes' /\ Only(h) /\ pc'[h] = "discard_refresh"
            /\ req'[h] = req[h] /\ src'[h] = src[h] /\ out'[h] = out[h]
        BY <3>2, GotoStep DEF PCs
      <4> QED
        BY <1>0, <1>12, <3>2, <4>1
           DEF HandlerOK, Fresh, Holds, At, Discard, DiscardRefresh
    <3> QED BY <1>12, <3>1, <3>2 DEF Discard, DiscardRefresh
  <2> QED BY <1>12, <1>b, <1>c, <2>2, <2>3 DEF Discard, DiscardRefresh
<1>13. CASE Respond(h)
  <2>1. HandlerTypes' /\ Only(h) /\ HandlerOK(h)'
    BY <1>13, FinishStep DEF Respond
  <2>2. /\ src[h] \in Token /\ req[h] \in Request
        /\ out[h].main \in Values \union {0}
    BY <1>0, <1>13, MintedFields DEF Respond, At, HandlerOK
  <2>3. req[h].value \in Values \union {0}
    BY <2>2 DEF Request
  <2>4. issued' \subseteq Exchange
    <3> DEFINE x == [used |-> req[h].value, access |-> out[h].main,
                     grant |-> src[h].grant, expiresAt |-> src[h].expiresAt]
    <3>1. src[h].grant \in Grants /\ src[h].expiresAt \in Nat
      BY <2>2 DEF Token
    <3>2. x \in Exchange
      BY <2>2, <2>3, <3>1 DEF Exchange
    <3> HIDE DEF x
    <3>3. issued' \subseteq issued \union {x}
      BY <1>13 DEF Respond, x
    <3> QED BY <3>2, <3>3 DEF TypeOK
  <2>5. disclosed \subseteq disclosed' /\ disclosed' \subseteq Values
    BY <1>13, <1>c DEF Respond
  <2>6. TypeOK'
    BY <1>13, <2>1, <2>4, <2>5 DEF Respond, TypeOK, HandlerTypes, store, supply, world
  <2> QED BY <2>1, <2>5, <2>6, HandlerFrame
<1> QED BY <1>1, <1>2, <1>3, <1>4, <1>5, <1>6, <1>7, <1>8, <1>9, <1>10, <1>11,
           <1>12, <1>13 DEF Step

(* Crashes and the environment keep types and positions. *)
LEMMA OtherTypes ==
    ASSUME TypeOK, HandlersOK,
           (\E h \in Procs : RevokePart(h) \/ Crash(h)) \/ SetClient \/ Tick \/ Collect
    PROVE  TypeOK' /\ HandlersOK'
<1>1. CASE \E h \in Procs : Crash(h)
  <2>1. PICK h \in Procs : Crash(h)
    BY <1>1
  <2>2. HandlerTypes' /\ Only(h) /\ HandlerOK(h)'
    BY <2>1, FinishStep DEF Crash
  <2>3. MintedValues(h) \subseteq Values
    BY MintedFields DEF TypeOK, MintedValues
  <2>4. lost' \subseteq Losses
    <3>1. CASE UNCHANGED lost
      BY <3>1 DEF TypeOK
    <3>2. CASE Winning(h) \/ At(h, "consume") \/ At(h, "reuse")
      <4>1. req[h].value \in Values
        BY <3>2 DEF Winning, At, HandlersOK, HandlerOK, Lookups, TypeOK
      <4> QED BY <2>1, <4>1, LoseType DEF Crash
    <3> QED BY <2>1, <3>1, <3>2 DEF Crash
  <2>5. TypeOK'
    BY <2>1, <2>2, <2>3, <2>4 DEF Crash, TypeOK, HandlerTypes, store, supply, world
  <2> QED BY <2>1, <2>2, <2>5, HandlerFrame DEF Crash
<1>2. CASE SetClient \/ Tick \/ Collect
  <2>1. HandlersOK'
    BY <1>2 DEF SetClient, Tick, Collect, handler, history, HandlersOK, HandlerOK
  <2>2. collectLocked.tokens \in TokenMaps /\ collectLocked.last \in Int
    BY CollectedKeeps DEF collectLocked, TypeOK
  <2> USE DEF handler, store, supply, world, history
  <2>3. CASE SetClient
    <3>1. clients' \in [Issuers \X ClientIDs -> Registrations]
      BY <2>3 DEF SetClient, TypeOK
    <3> QED BY <2>1, <2>3, <3>1 DEF SetClient, TypeOK
  <2>4. CASE Tick
    BY <2>1, <2>4, ConstantsAssumption DEF Tick, TypeOK
  <2>5. CASE Collect
    BY <2>1, <2>2, <2>5 DEF Collect, TypeOK
  <2> QED BY <1>2, <2>3, <2>4, <2>5
<1>3. ASSUME NEW h \in Procs, RevokePart(h) PROVE TypeOK' /\ HandlersOK'
  <2>1. tokens' \in TokenMaps
    BY <1>3, WithoutTokenKeeps DEF RevokePart, RevokeToken, TypeOK
  <2>2. lost' \subseteq Losses
    BY <1>3 DEF RevokePart, TypeOK, Losses
  <2> QED BY <1>3, <2>1, <2>2
         DEF RevokePart, RevokeToken, TypeOK, HandlersOK, HandlerOK, handler,
             supply, world
<1> QED BY <1>1, <1>2, <1>3

------------------------------------------------------------------------------
(* The safety invariant.  Steps fall into a few classes by what they do to *)
(* the store and to the handler that takes them.                           *)

Idles(h) ==
    pc'[h] = "idle" /\ src'[h] = NotFound /\ out'[h] = NoTokens

Proceeds(h) ==
    /\ pc[h] \notin {"idle", "load"} /\ pc'[h] \notin {"idle", "load", "respond"}
    /\ req'[h] = req[h] /\ src'[h] = src[h] /\ out'[h] = out[h]

Stays(h) ==
    pc'[h] = pc[h] /\ req'[h] = req[h] /\ src'[h] = src[h] /\ out'[h] = out[h]

(* RevokeGrant of a grant that no request is just starting. *)
Revokes(g) ==
    /\ revoked' = revoked \union {g}
    /\ g < nextGrant
    /\ \A v \in Values : tokens'[v] # NotFound => tokens'[v].grant # g
    /\ \A k \in Procs : pc[k] # "idle" /\ req[k].op \in Starts => src[k].grant # g

(* Ending a handler idles it. *)
LEMMA FinishIdles ==
    ASSUME TypeOK, NEW h \in Procs, Finish(h) PROVE Idles(h) /\ Only(h)
  BY DEF Finish, Idles, Only, TypeOK

(* A handler that holds nothing minted nothing. *)
LEMMA IdleValues == ASSUME NEW h \in Procs, out[h] = NoTokens
                    PROVE  MintedValues(h) = {}
  BY DEF MintedValues, NoTokens

(* Steps that only remove or mark tokens and end or advance handlers. *)
LEMMA QuietStep ==
    ASSUME TypeOK, TypeOK', HandlersOK, HandlersOK', Safe,
           \A k \in Procs : Idles(k) \/ Proceeds(k) \/ Stays(k),
           Keeps(tokens, tokens'),
           revoked' = revoked \/ (\E g \in Grants : Revokes(g)),
           UNCHANGED <<disclosed, issued, supply>>
    PROVE  Safe'
<1> USE DEF supply
<1>1. \A k \in Procs : MintedValues(k)' \subseteq MintedValues(k)
  BY DEF Idles, Proceeds, Stays, MintedValues, NoTokens
<1>2. \A v \in Values : tokens'[v] # NotFound =>
          /\ tokens[v] # NotFound /\ tokens'[v].grant = tokens[v].grant
          /\ tokens[v].consumed => tokens'[v].consumed
  BY DEF Keeps
<1>3. \A k \in Procs : pc'[k] # "idle" =>
          /\ pc[k] # "idle" /\ req'[k] = req[k] /\ src'[k] = src[k]
          /\ out'[k] = out[k] /\ (pc'[k] = "load" <=> pc[k] = "load")
          /\ pc'[k] = "respond" => pc[k] = "respond"
  BY DEF Idles, Proceeds, Stays
<1>4. \A k \in Procs : pc'[k] = "idle" => src'[k] = NotFound /\ out'[k] = NoTokens
  BY NoTokensType DEF HandlersOK, HandlerOK, Fresh
<1>5. \A k \in Procs : MintedValues(k) \subseteq Values
  BY MintedFields DEF TypeOK, MintedValues
<1>6. ValuesOK'
  BY <1>1, <1>2 DEF Safe, ValuesOK, Has
<1>7. GrantsOK'
  BY <1>2, <1>3, <1>4 DEF Safe, GrantsOK, Has, Revokes
<1>8. ASSUME NEW k \in Procs PROVE RecordsOK(k)'
  <2>1. CASE pc'[k] = "idle"
    BY <1>4, <2>1, NoTokensType DEF RecordsOK, MintedValues
  <2>2. CASE pc'[k] # "idle"
    BY <1>1, <1>2, <1>3, <1>5, <2>2 DEF Safe, RecordsOK, Has, MintedValues
  <2> QED BY <2>1, <2>2
<1>9. ASSUME NEW k \in Procs PROVE SourceOK(k)'
  <2> SUFFICES ASSUME pc'[k] \notin {"idle", "load"}, req'[k].op \in Lookups,
                      tokens'[req'[k].value] # NotFound
               PROVE  tokens'[req'[k].value].grant = src'[k].grant
    BY DEF SourceOK, Has
  <2>1. req[k].value \in Values /\ SourceOK(k)
    BY <1>3 DEF HandlersOK, HandlerOK, TypeOK, Safe
  <2> QED BY <1>2, <1>3, <2>1 DEF SourceOK, Has
<1>10. ASSUME NEW k \in Procs PROVE PrivateOK(k)'
  <2> SUFFICES ASSUME pc'[k] # "idle", req'[k].op \in Starts
               PROVE  /\ src'[k].grant \notin revoked'
                      /\ \A v \in disclosed : tokens'[v] # NotFound =>
                                                tokens'[v].grant # src'[k].grant
                      /\ \A j \in Procs \ {k} : src'[j] # NotFound =>
                                                  src'[j].grant # src'[k].grant
    BY DEF PrivateOK, Has
  <2>1. PrivateOK(k) /\ pc[k] # "idle" /\ req[k].op \in Starts /\ src'[k] = src[k]
    BY <1>3 DEF Safe
  <2>2. disclosed \subseteq Values
    BY DEF TypeOK
  <2>3. \A j \in Procs : src'[j] # NotFound => src'[j] = src[j]
    BY <1>3, <1>4
  <2>4. src'[k].grant \notin revoked'
    BY <2>1 DEF PrivateOK, Revokes
  <2> QED BY <1>2, <2>1, <2>2, <2>3, <2>4 DEF PrivateOK, Has
<1>11. ASSUME NEW k \in Procs PROVE RespondOK(k)'
  <2> SUFFICES ASSUME pc'[k] = "respond", NEW v \in MintedValues(k)',
                      tokens'[v] # NotFound
               PROVE  src'[k].grant \notin revoked'
    BY DEF RespondOK, At, Has
  <2>1. /\ pc[k] = "respond" /\ v \in MintedValues(k) /\ v \in Values
        /\ tokens[v] # NotFound /\ tokens'[v].grant = tokens[v].grant
        /\ src'[k] = src[k]
    BY <1>1, <1>2, <1>3, <1>5
  <2>2. tokens[v].grant = src[k].grant /\ src[k].grant \notin revoked
    BY <2>1 DEF Safe, RecordsOK, RespondOK, At, Has
  <2> QED BY <2>1, <2>2 DEF Revokes
<1>12. RevokedGrantStaysDead'
  BY <1>2 DEF Safe, RevokedGrantStaysDead, Has, TypeOK, Revokes
<1>13. UsedOK'
  <2>1. \A x \in issued : x.used \in disclosed /\ x.used \in Values
    BY DEF Safe, UsedOK, TypeOK
  <2>2. \A k \in Procs : Winning(k)' =>
           Winning(k) /\ req'[k] = req[k] /\ req[k].value \in Values
    BY <1>3 DEF Winning, At, HandlersOK, HandlerOK, Lookups, TypeOK
  <2> QED BY <1>2, <2>1, <2>2 DEF Safe, UsedOK, Has
<1>14. AtMostOneExchange'
  <2>1. \A k \in Procs : Winning(k)' => Winning(k) /\ req'[k] = req[k]
    BY <1>3 DEF Winning, At
  <2> QED BY <2>1 DEF Safe, AtMostOneExchange
<1> QED BY <1>6, <1>7, <1>8, <1>9, <1>10, <1>11, <1>12, <1>13, <1>14 DEF Safe

(* Storage.Token and ConsumeToken hand a handler the record of a token     *)
(* that was sent in a response.                                            *)
LEMMA ReadStep ==
    ASSUME TypeOK, TypeOK', HandlersOK, HandlersOK', Safe,
           NEW h \in Procs, LoadFinds(h) \/ ConsumeReused(h)
    PROVE  Safe'
<1> DEFINE v == req[h].value
<1>1. /\ v \in disclosed /\ v \in Values /\ tokens[v] # NotFound
      /\ req[h].op \in Lookups /\ pc[h] # "idle"
      /\ pc[h] = "load" => out[h] = NoTokens
  BY DEF LoadFinds, ConsumeReused, HandlersOK, HandlerOK, At, Has, TypeOK, Lookups, Fresh
<1>2. /\ \A k \in Procs \ {h} : Stays(k)
      /\ req' = req /\ out' = out /\ src'[h] = tokens[v]
      /\ pc'[h] \notin {"idle", "load", "respond"}
      /\ UNCHANGED <<tokens, nextValue, nextGrant, disclosed, issued, revoked>>
  BY DEF LoadFinds, ConsumeReused, AfterLoad, Stays, TypeOK, store, supply, history
<1>3. pc[h] = "load" \/ src'[h].grant = src[h].grant
  BY <1>1, <1>2 DEF LoadFinds, ConsumeReused, Safe, SourceOK, Has, At
<1>4. ValuesOK'
  BY <1>2 DEF Safe, ValuesOK, Has, MintedValues
<1>5. GrantsOK'
  BY <1>1, <1>2 DEF Safe, GrantsOK, Has, Stays
<1>6. ASSUME NEW k \in Procs PROVE RecordsOK(k)'
  BY <1>1, <1>2, <1>3, IdleValues, NoTokensType
     DEF Safe, RecordsOK, Has, Stays, MintedValues
<1>7. ASSUME NEW k \in Procs PROVE SourceOK(k)'
  BY <1>2 DEF Safe, SourceOK, Has, Stays
<1>8. ASSUME NEW k \in Procs PROVE PrivateOK(k)'
  <2>1. CASE k = h
    BY <1>1, <1>2, <2>1 DEF PrivateOK, Starts, Lookups, Exchanges, Reads, Direct
  <2>2. CASE k # h
    BY <1>1, <1>2, <2>2 DEF Safe, PrivateOK, Stays, Has
  <2> QED BY <2>1, <2>2
<1>9. ASSUME NEW k \in Procs PROVE RespondOK(k)'
  BY <1>2 DEF Safe, RespondOK, Has, Stays, At, MintedValues
<1>10. RevokedGrantStaysDead'
  BY <1>2 DEF Safe, RevokedGrantStaysDead, Has
<1>11. \A k \in Procs : Winning(k)' => Winning(k)
  BY <1>2 DEF Winning, At, Stays
<1>12. UsedOK' /\ AtMostOneExchange'
  BY <1>2, <1>11 DEF Safe, UsedOK, AtMostOneExchange, Has
<1> QED BY <1>4, <1>5, <1>6, <1>7, <1>8, <1>9, <1>10, <1>12 DEF Safe

(* CreateToken of a minted token: nobody else can know its value.  A       *)
(* request that starts a grant may answer next.                            *)
LEMMA CreateStep ==
    ASSUME TypeOK, TypeOK', HandlersOK, HandlersOK', Safe,
           NEW h \in Procs, NEW v \in MintedValues(h), NEW t \in Token,
           t.grant = src[h].grant, src[h] \in Token, CreateToken(v, t),
           \A k \in Procs \ {h} : Stays(k),
           \/ Idles(h)
           \/ Proceeds(h)
           \/ Goto(h, "respond") /\ req[h].op \in Starts /\ pc[h] # "idle",
           UNCHANGED <<nextValue, nextGrant, disclosed, issued, revoked>>
    PROVE  Safe'
<1>1. v \in Values
  BY MintedFields DEF TypeOK, MintedValues
<1>2. /\ tokens'[v] = t
      /\ \A w \in Values \ {v} : tokens'[w] = NotFound \/ tokens'[w] = tokens[w]
  BY <1>1, CreateTokenStep
<1>3. \A k \in Procs : pc'[k] # "idle" =>
          /\ pc[k] # "idle" /\ req'[k] = req[k] /\ src'[k] = src[k]
          /\ out'[k] = out[k] /\ (pc'[k] = "load" => pc[k] = "load")
          /\ pc'[k] = "respond" =>
                pc[k] = "respond" \/ (k = h /\ req[h].op \in Starts)
          /\ pc[k] = "load" => pc'[k] = "load"
  <2>1. Goto(h, "respond") => pc'[h] = "respond" /\ UNCHANGED <<req, src, out>>
    BY DEF Goto, TypeOK
  <2>2. pc[h] = "load" => MintedValues(h) = {}
    BY IdleValues DEF HandlersOK, HandlerOK, Fresh
  <2> QED BY <2>1, <2>2 DEF Idles, Proceeds, Stays
<1>4. \A k \in Procs : pc'[k] = "idle" => src'[k] = NotFound /\ out'[k] = NoTokens
  BY NoTokensType DEF HandlersOK, HandlerOK, Fresh
<1>5. \A k \in Procs : MintedValues(k)' \subseteq MintedValues(k)
  BY <1>3, <1>4 DEF MintedValues, NoTokens
<1>6. \A k \in Procs : MintedValues(k) \subseteq Values
  BY MintedFields DEF TypeOK, MintedValues
<1>7. v \notin disclosed /\ v < nextValue /\ disclosed \subseteq Values
      /\ \A k \in Procs \ {h} : v \notin MintedValues(k)
  BY DEF Safe, ValuesOK, TypeOK
<1>8. t # NotFound /\ src[h] # NotFound /\ src[h].grant < nextGrant
  BY NotFoundAssumption DEF Safe, GrantsOK
<1>9. ValuesOK'
  <2>1. \A w \in Values : w >= nextValue => w # v
    BY <1>1, <1>7 DEF Values, TypeOK
  <2>2. \A w \in Values : w >= nextValue => w \notin disclosed /\ tokens'[w] = NotFound
    BY <1>2, <2>1 DEF Safe, ValuesOK, Has
  <2>3. \A k \in Procs : \A w \in MintedValues(k)' :
           w < nextValue /\ w \notin disclosed
    BY <1>5 DEF Safe, ValuesOK
  <2>4. \A j, k \in Procs : j # k =>
           MintedValues(j)' \intersect MintedValues(k)' = {}
    BY <1>5 DEF Safe, ValuesOK
  <2> QED BY <2>2, <2>3, <2>4 DEF ValuesOK, Has
<1>10. GrantsOK'
  BY <1>2, <1>3, <1>4, <1>8 DEF Safe, GrantsOK, Has
<1>11. ASSUME NEW k \in Procs PROVE RecordsOK(k)'
  <2>1. CASE pc'[k] = "idle"
    BY <1>4, <2>1, NoTokensType DEF RecordsOK, MintedValues
  <2>2. CASE pc'[k] # "idle"
    <3>1. \A w \in MintedValues(k)' :
             tokens'[w] # NotFound => tokens'[w].grant = src'[k].grant
      BY <1>2, <1>3, <1>5, <1>6, <1>7, <2>2 DEF Safe, RecordsOK, Has
    <3> QED BY <1>3, <2>2, <3>1 DEF Safe, RecordsOK, Has
  <2> QED BY <2>1, <2>2
<1>12. ASSUME NEW k \in Procs PROVE SourceOK(k)'
  <2> SUFFICES ASSUME pc'[k] \notin {"idle", "load"}, req'[k].op \in Lookups,
                      tokens'[req'[k].value] # NotFound
               PROVE  tokens'[req'[k].value].grant = src'[k].grant
    BY DEF SourceOK, Has
  <2>1. req[k].value \in disclosed /\ SourceOK(k)
    BY <1>3 DEF HandlersOK, HandlerOK, Safe
  <2> QED BY <1>2, <1>3, <1>7, <2>1 DEF SourceOK, Has
<1>13. ASSUME NEW k \in Procs PROVE PrivateOK(k)'
  <2>1. \A j \in Procs : src'[j] # NotFound => src'[j] = src[j]
    BY <1>3, <1>4
  <2> QED BY <1>2, <1>3, <1>7, <2>1 DEF Safe, PrivateOK, Has
<1>14. ASSUME NEW k \in Procs PROVE RespondOK(k)'
  <2> SUFFICES ASSUME pc'[k] = "respond", NEW w \in MintedValues(k)',
                      tokens'[w] # NotFound
               PROVE  src'[k].grant \notin revoked
    BY DEF RespondOK, At, Has
  <2>1. CASE pc[k] = "respond" /\ k # h
    BY <1>2, <1>3, <1>5, <1>6, <1>7, <2>1 DEF Safe, RespondOK, At, Has
  <2>2. CASE k = h /\ req[h].op \in Starts
    BY <1>3, <2>2 DEF Safe, PrivateOK
  <2>3. pc'[h] = "respond" => req[h].op \in Starts
    BY DEF Goto, Idles, Proceeds
  <2> QED BY <1>3, <2>1, <2>2, <2>3
<1>15. RevokedGrantStaysDead'
  BY <1>2, <1>7 DEF Safe, RevokedGrantStaysDead, Has
<1>16. \A k \in Procs : Winning(k)' =>
          Winning(k) /\ req'[k] = req[k] /\ req[k].value \in disclosed
  <2>1. ASSUME NEW k \in Procs, pc'[k] = "respond", req'[k].op \in Exchanges
        PROVE  pc[k] = "respond" /\ req'[k] = req[k]
    BY <1>3, <2>1 DEF Starts, Exchanges, Direct
  <2>2. ASSUME NEW k \in Procs, pc[k] = "respond", req[k].op \in Exchanges
        PROVE  req[k].value \in disclosed
    BY <2>2 DEF HandlersOK, HandlerOK, Lookups
  <2> QED BY <2>1, <2>2 DEF Winning, At
<1>17. UsedOK' /\ AtMostOneExchange'
  <2>1. UsedOK'
    BY <1>2, <1>7, <1>16 DEF Safe, UsedOK, Has
  <2>2. AtMostOneExchange'
    BY <1>16 DEF Safe, AtMostOneExchange
  <2> QED BY <2>1, <2>2
<1> QED BY <1>9, <1>10, <1>11, <1>12, <1>13, <1>14, <1>15, <1>17 DEF Safe

(* mintTokens takes values nobody has seen. *)
LEMMA MintStep ==
    ASSUME TypeOK, TypeOK', HandlersOK, HandlersOK', Safe, NEW h \in Procs, Mint(h)
    PROVE  Safe'
<1>1. PICK s \in SUBSET Scopes, a \in SUBSET Audiences, rf \in BOOLEAN,
           al \in AccessLifetimes, rl \in RefreshLifetimes :
        /\ nextValue + (IF rf THEN 1 ELSE 0) <= MaxValues
        /\ out' = [out EXCEPT ![h] = minted(src[h], s, a, rf, al, rl)]
        /\ nextValue' = nextValue + (IF rf THEN 2 ELSE 1)
  BY Zenon DEF Mint
<1>2. src[h] \in Token /\ pc[h] = "issue"
  BY DEF Mint, At, HandlersOK, HandlerOK
<1> DEFINE o == minted(src[h], s, a, rf, al, rl)
<1>3. /\ o.main = nextValue /\ o.at.grant = src[h].grant
      /\ o.refresh = IF rf THEN nextValue + 1 ELSE 0
      /\ o.refresh # 0 => o.rt.grant = src[h].grant
  BY <1>1, <1>2, MintedType
<1>4. out'[h] = o /\ \A k \in Procs \ {h} : out'[k] = out[k]
  BY <1>1 DEF TypeOK
<1> HIDE DEF o
<1>5. /\ nextValue \in Nat /\ nextValue' \in Nat /\ nextValue' > nextValue
      /\ \A v \in MintedValues(h)' : v \in Nat /\ v >= nextValue /\ v < nextValue'
      /\ MintedValues(h)' \subseteq Values
  <2>1. nextValue \in Nat /\ nextValue >= 1
    BY DEF TypeOK
  <2>2. MintedValues(h)' = {nextValue} \union (IF rf THEN {nextValue + 1} ELSE {})
    BY <1>3, <1>4, <2>1 DEF MintedValues
  <2> QED BY <1>1, <2>1, <2>2, BoundsAssumption DEF Values
<1>6. /\ \A k \in Procs \ {h} : MintedValues(k)' = MintedValues(k)
      /\ \A k \in Procs : MintedValues(k) \subseteq Values
  BY <1>4, MintedFields DEF MintedValues, TypeOK
<1>7. UNCHANGED <<req, src, tokens, nextGrant, disclosed, issued, revoked>>
      /\ pc' = [pc EXCEPT ![h] = "store"]
  BY DEF Mint, store, history
<1>8. pc'[h] = "store" /\ \A k \in Procs \ {h} : pc'[k] = pc[k]
  BY <1>7 DEF TypeOK
<1>9. ValuesOK'
  <2>1. \A v \in Values : v >= nextValue' => v \notin disclosed /\ ~Has(tokens, v)
    BY <1>5 DEF Safe, ValuesOK, Values
  <2>2. \A v \in MintedValues(h)' : v < nextValue' /\ v \notin disclosed
    BY <1>5 DEF Safe, ValuesOK
  <2>3. \A k \in Procs \ {h} : \A v \in MintedValues(k)' :
           v \in Nat /\ v < nextValue /\ v < nextValue' /\ v \notin disclosed
    BY <1>5, <1>6 DEF Safe, ValuesOK, Values
  <2>4. \A k \in Procs \ {h} : MintedValues(k)' \intersect MintedValues(h)' = {}
    BY <1>5, <2>3
  <2>5. \A j, k \in Procs : j # k =>
           MintedValues(j)' \intersect MintedValues(k)' = {}
    BY <1>6, <2>4 DEF Safe, ValuesOK
  <2> QED BY <1>7, <2>1, <2>2, <2>3, <2>5 DEF ValuesOK, Has
<1>10. GrantsOK'
  BY <1>7 DEF Safe, GrantsOK, Has
<1>11. ASSUME NEW k \in Procs PROVE RecordsOK(k)'
  <2>1. CASE k = h
    <3>1. \A v \in MintedValues(h)' : tokens[v] = NotFound
      BY <1>5 DEF Safe, ValuesOK, Has
    <3> QED BY <1>3, <1>4, <1>7, <2>1, <3>1 DEF RecordsOK, Has
  <2>2. CASE k # h
    BY <1>4, <1>6, <1>7, <2>2 DEF Safe, RecordsOK, Has
  <2> QED BY <2>1, <2>2
<1>12. ASSUME NEW k \in Procs PROVE SourceOK(k)'
  BY <1>2, <1>7, <1>8 DEF Safe, SourceOK, Has
<1>13. ASSUME NEW k \in Procs PROVE PrivateOK(k)'
  BY <1>2, <1>7, <1>8 DEF Safe, PrivateOK, Has
<1>14. ASSUME NEW k \in Procs PROVE RespondOK(k)'
  BY <1>6, <1>7, <1>8 DEF Safe, RespondOK, Has, At
<1>15. RevokedGrantStaysDead'
  BY <1>7 DEF Safe, RevokedGrantStaysDead, Has
<1>16. \A k \in Procs : Winning(k)' => Winning(k)
  BY <1>7, <1>8 DEF Winning, At
<1>17. UsedOK' /\ AtMostOneExchange'
  BY <1>7, <1>16 DEF Safe, UsedOK, AtMostOneExchange, Has
<1> QED BY <1>9, <1>10, <1>11, <1>12, <1>13, <1>14, <1>15, <1>17 DEF Safe

(* ConsumeToken picks the winner of an exchange: the source token is still *)
(* there, so its grant is not revoked, and nobody else used it.            *)
LEMMA ConsumeStep ==
    ASSUME TypeOK, TypeOK', HandlersOK, HandlersOK', Safe,
           NEW h \in Procs, Consume(h)
    PROVE  Safe'
<1> DEFINE v == req[h].value
<1>1. /\ pc[h] = "consume" /\ v \in disclosed /\ v \in Values
      /\ tokens[v] # NotFound /\ ~tokens[v].consumed
      /\ req[h].op \in Exchanges /\ req[h].op \in Lookups
  BY DEF Consume, HandlersOK, HandlerOK, At, Has, TypeOK, Lookups
<1>2. /\ Keeps(tokens, tokens') /\ tokens'[v].consumed
      /\ \A w \in Values \ {v} : tokens'[w] = tokens[w]
  BY <1>1, WithConsumedKeeps DEF Consume, TypeOK
<1>3. /\ \A k \in Procs \ {h} : pc'[k] = pc[k]
      /\ pc'[h] = "respond"
      /\ UNCHANGED <<req, src, out, nextValue, nextGrant, disclosed, issued, revoked>>
  BY DEF Consume, Goto, TypeOK, supply, history
<1>4. \A w \in Values : tokens'[w] # NotFound =>
          /\ tokens[w] # NotFound /\ tokens'[w].grant = tokens[w].grant
          /\ tokens[w].consumed => tokens'[w].consumed
  BY <1>2 DEF Keeps
<1>5. /\ \A k \in Procs : MintedValues(k)' = MintedValues(k)
      /\ \A k \in Procs : MintedValues(k) \subseteq Values
      /\ disclosed \subseteq Values
  BY <1>3, MintedFields DEF MintedValues, TypeOK
<1>6. src[h].grant \notin revoked
  BY <1>1 DEF Safe, SourceOK, RevokedGrantStaysDead, Has
<1>7. ValuesOK'
  BY <1>3, <1>4, <1>5 DEF Safe, ValuesOK, Has
<1>8. GrantsOK'
  BY <1>3, <1>4 DEF Safe, GrantsOK, Has
<1>9. ASSUME NEW k \in Procs PROVE RecordsOK(k)'
  BY <1>3, <1>4, <1>5 DEF Safe, RecordsOK, Has
<1>10. ASSUME NEW k \in Procs PROVE SourceOK(k)'
  <2>1. pc[k] # "idle" /\ req[k].op \in Lookups => req[k].value \in Values
    BY <1>5 DEF HandlersOK, HandlerOK
  <2> QED BY <1>1, <1>3, <1>4, <2>1 DEF Safe, SourceOK, Has
<1>11. ASSUME NEW k \in Procs PROVE PrivateOK(k)'
  BY <1>1, <1>3, <1>4, <1>5 DEF Safe, PrivateOK, Has
<1>12. ASSUME NEW k \in Procs PROVE RespondOK(k)'
  BY <1>3, <1>4, <1>5, <1>6 DEF Safe, RespondOK, Has, At
<1>13. RevokedGrantStaysDead'
  BY <1>3, <1>4, <1>5 DEF Safe, RevokedGrantStaysDead, Has
<1>14. \A k \in Procs : Winning(k)' => k = h \/ Winning(k)
  BY <1>3 DEF Winning, At
<1>15. \A k \in Procs : Winning(k) => req[k].value \in Values
  BY <1>5 DEF Winning, At, HandlersOK, HandlerOK, Lookups
<1>16. /\ \A x \in issued : x.used # v
       /\ \A k \in Procs : Winning(k) => req[k].value # v
  BY <1>1 DEF Safe, UsedOK, Has
<1>17. UsedOK'
  <2>1. \A x \in issued : x.used \in Values
    BY <1>5 DEF Safe, UsedOK
  <2> QED BY <1>2, <1>3, <1>4, <1>14, <1>15, <2>1 DEF Safe, UsedOK, Has
<1>18. AtMostOneExchange'
  BY <1>3, <1>14, <1>16 DEF Safe, AtMostOneExchange
<1> QED BY <1>7, <1>8, <1>9, <1>10, <1>11, <1>12, <1>13, <1>17, <1>18 DEF Safe

(* The response discloses what the handler minted and stored. *)
LEMMA RespondStep ==
    ASSUME TypeOK, TypeOK', HandlersOK, HandlersOK', Safe,
           NEW h \in Procs, Respond(h)
    PROVE  Safe'
<1>1. /\ Idles(h) /\ Only(h)
      /\ disclosed' = disclosed \union MintedValues(h)
      /\ UNCHANGED <<tokens, nextValue, nextGrant, revoked>>
      /\ pc[h] = "respond" /\ src[h] \in Token
  BY FinishIdles DEF Respond, At, HandlersOK, HandlerOK, store, supply
<1>2. /\ MintedValues(h)' = {}
      /\ \A k \in Procs \ {h} : MintedValues(k)' = MintedValues(k)
      /\ \A k \in Procs : MintedValues(k) \subseteq Values
  BY <1>1, MintedFields DEF Idles, Only, MintedValues, NoTokens, TypeOK
<1>3. src[h] # NotFound /\ out'[h] = NoTokens /\ src'[h] = NotFound /\ pc'[h] = "idle"
  BY <1>1, TokenFields DEF Idles
<1>4. \A v \in MintedValues(h) : Has(tokens, v) =>
         tokens[v].grant = src[h].grant /\ src[h].grant \notin revoked
  BY <1>1 DEF Safe, RecordsOK, RespondOK, At
<1>5. ValuesOK'
  <2>1. \A v \in Values : v >= nextValue => v \notin disclosed' /\ ~Has(tokens, v)
    <3>1. \A v \in MintedValues(h) : v \in Nat /\ v < nextValue /\ nextValue \in Nat
      BY <1>2 DEF Safe, ValuesOK, Values, TypeOK
    <3> QED BY <1>1, <3>1 DEF Safe, ValuesOK, Values
  <2>2. \A k \in Procs : \A v \in MintedValues(k)' :
           v < nextValue /\ v \notin disclosed'
    BY <1>1, <1>2 DEF Safe, ValuesOK
  <2>3. \A j, k \in Procs : j # k =>
           MintedValues(j)' \intersect MintedValues(k)' = {}
    BY <1>2 DEF Safe, ValuesOK
  <2> QED BY <1>1, <2>1, <2>2, <2>3 DEF ValuesOK, Has
<1>6. GrantsOK'
  BY <1>1, <1>3 DEF Safe, GrantsOK, Has, Only
<1>7. ASSUME NEW k \in Procs PROVE RecordsOK(k)'
  <2>1. CASE k = h
    BY <1>2, <1>3, <2>1, NoTokensType DEF RecordsOK
  <2>2. CASE k # h
    BY <1>1, <1>2, <2>2 DEF Safe, RecordsOK, Has, Only
  <2> QED BY <2>1, <2>2
<1>8. ASSUME NEW k \in Procs PROVE SourceOK(k)'
  BY <1>1, <1>3 DEF Safe, SourceOK, Has, Only
<1>9. ASSUME NEW k \in Procs PROVE PrivateOK(k)'
  <2> SUFFICES ASSUME k # h, pc[k] # "idle", req[k].op \in Starts
               PROVE  PrivateOK(k)'
    BY <1>1, <1>3 DEF PrivateOK, Only
  <2>1. /\ src'[k] = src[k] /\ PrivateOK(k)
        /\ src[h].grant # src[k].grant
    BY <1>1, <1>3 DEF Safe, PrivateOK, Only
  <2>2. \A j \in Procs : src'[j] # NotFound => src'[j] = src[j]
    BY <1>1, <1>3 DEF Only
  <2>3. \A v \in disclosed' : Has(tokens, v) => tokens[v].grant # src[k].grant
    BY <1>1, <1>4, <2>1 DEF PrivateOK
  <2> QED BY <1>1, <2>1, <2>2, <2>3 DEF PrivateOK, Has
<1>10. ASSUME NEW k \in Procs PROVE RespondOK(k)'
  BY <1>1, <1>2, <1>3 DEF Safe, RespondOK, Has, Only, At
<1>11. RevokedGrantStaysDead'
  BY <1>1, <1>4 DEF Safe, RevokedGrantStaysDead, Has
<1>12. \A k \in Procs : Winning(k)' => k # h /\ Winning(k) /\ req'[k] = req[k]
  BY <1>1, <1>3 DEF Winning, At, Only
<1>13. \A x \in issued' : x \in issued \/ (Winning(h) /\ x.used = req[h].value)
  BY <1>1 DEF Respond, Winning, At
<1>14. Winning(h) => req[h].value \in disclosed
  BY DEF Winning, At, HandlersOK, HandlerOK, Lookups
<1>15. UsedOK'
  BY <1>1, <1>12, <1>13, <1>14 DEF Safe, UsedOK, Has
<1>16. AtMostOneExchange'
  <2>1. \A x, y \in issued' : x.used = y.used => x = y
    BY <1>13, Zenon DEF Respond, Safe, AtMostOneExchange, Winning
  <2> QED BY <1>12, <1>13, <2>1 DEF Safe, AtMostOneExchange
<1> QED BY <1>5, <1>6, <1>7, <1>8, <1>9, <1>10, <1>11, <1>15, <1>16 DEF Safe

(* A request that brings a token knows nothing of it yet. *)
LEMMA LookupStep ==
    ASSUME TypeOK, TypeOK', HandlersOK, HandlersOK', Safe,
           NEW h \in Procs, Only(h), pc'[h] = "load",
           src'[h] = NotFound, out'[h] = NoTokens,
           UNCHANGED <<tokens, nextValue, nextGrant, disclosed, issued, revoked>>
    PROVE  Safe'
<1>1. /\ MintedValues(h)' = {}
      /\ \A k \in Procs \ {h} : MintedValues(k)' = MintedValues(k)
  BY DEF Only, MintedValues, NoTokens
<1>2. ValuesOK'
  BY <1>1 DEF Safe, ValuesOK, Has
<1>3. GrantsOK'
  BY DEF Safe, GrantsOK, Has, Only
<1>4. req'[h].op \in Lookups
  BY DEF HandlersOK, HandlerOK
<1>5. ASSUME NEW k \in Procs
      PROVE  RecordsOK(k)' /\ SourceOK(k)' /\ PrivateOK(k)' /\ RespondOK(k)'
  <2>1. CASE k = h
    BY <1>1, <1>4, <2>1, NoTokensType
       DEF RecordsOK, SourceOK, PrivateOK, RespondOK, At, Starts, Lookups,
           Exchanges, Reads, Direct
  <2>2. CASE k # h
    <3>1. RecordsOK(k)' /\ SourceOK(k)' /\ RespondOK(k)'
      BY <1>1, <2>2 DEF Safe, RecordsOK, SourceOK, RespondOK, At, Has, Only
    <3>2. PrivateOK(k)'
      BY <2>2 DEF Safe, PrivateOK, Has, Only
    <3> QED BY <3>1, <3>2
  <2> QED BY <2>1, <2>2
<1>6. RevokedGrantStaysDead'
  BY DEF Safe, RevokedGrantStaysDead, Has
<1>7. \A k \in Procs : Winning(k)' => Winning(k) /\ req'[k] = req[k]
  BY DEF Winning, At, Only
<1>8. UsedOK' /\ AtMostOneExchange'
  BY <1>7 DEF Safe, UsedOK, AtMostOneExchange, Has
<1> QED BY <1>2, <1>3, <1>5, <1>6, <1>8 DEF Safe

(* A request that starts a grant takes a grant ID that nobody has seen. *)
LEMMA StartStep ==
    ASSUME TypeOK, TypeOK', HandlersOK, HandlersOK', Safe,
           NEW h \in Procs, Only(h), pc'[h] \in {"issue", "store"},
           req'[h].op \in Starts, src'[h].grant = nextGrant,
           nextGrant' = nextGrant + 1,
           \/ out'[h] = NoTokens /\ nextValue' = nextValue
           \/ /\ out'[h].main = nextValue /\ out'[h].refresh = 0
              /\ out'[h].at.grant = nextGrant /\ nextValue' = nextValue + 1
              /\ nextValue \in Values,
           UNCHANGED <<tokens, disclosed, issued, revoked>>
    PROVE  Safe'
<1>1. /\ MintedValues(h)' \subseteq {nextValue}
      /\ MintedValues(h)' # {} => nextValue' = nextValue + 1 /\ nextValue \in Values
      /\ \A k \in Procs \ {h} : MintedValues(k)' = MintedValues(k)
  BY DEF Only, MintedValues, NoTokens
<1>2. /\ nextValue \in Nat /\ nextValue' \in Nat /\ nextValue' >= nextValue
      /\ nextGrant \in Nat /\ nextGrant' \in Nat
      /\ \A v \in Values : tokens[v] # NotFound => tokens[v].grant \in Nat
      /\ \A k \in Procs : src[k] # NotFound => src[k].grant \in Nat
      /\ revoked \subseteq Nat /\ disclosed \subseteq Values
  <2>1. \A v \in Values : tokens[v] # NotFound => tokens[v] \in Token
    BY DEF TypeOK, TokenMaps
  <2>2. \A k \in Procs : src[k] # NotFound => src[k] \in Token
    BY DEF TypeOK
  <2>3. \A g \in revoked : g \in Nat
    BY DEF TypeOK, Grants
  <2> QED BY <2>1, <2>2, <2>3, TokenFields DEF TypeOK
<1>3. ValuesOK'
  <2>1. \A v \in Values : v >= nextValue' => v \notin disclosed /\ ~Has(tokens, v)
    BY <1>2 DEF Safe, ValuesOK, Values
  <2>2. \A v \in MintedValues(h)' : v < nextValue' /\ v \notin disclosed
    BY <1>1, <1>2 DEF Safe, ValuesOK
  <2>3. \A k \in Procs \ {h} : \A v \in MintedValues(k)' :
           v \in Nat /\ v < nextValue /\ v < nextValue' /\ v \notin disclosed
    <3>1. \A k \in Procs : \A v \in MintedValues(k) : v \in Nat
      BY MintedFields DEF MintedValues, TypeOK, Values
    <3> QED BY <1>1, <1>2, <3>1 DEF Safe, ValuesOK
  <2>4. \A k \in Procs \ {h} : MintedValues(k)' \intersect MintedValues(h)' = {}
    BY <1>1, <1>2, <2>3
  <2>5. \A j, k \in Procs : j # k =>
           MintedValues(j)' \intersect MintedValues(k)' = {}
    BY <1>1, <2>4 DEF Safe, ValuesOK
  <2> QED BY <2>1, <2>2, <2>3, <2>5 DEF ValuesOK, Has
<1>4. GrantsOK'
  <2>1. \A v \in Values : Has(tokens, v) => tokens[v].grant < nextGrant'
    BY <1>2 DEF Safe, GrantsOK, Has
  <2>2. \A k \in Procs : src'[k] # NotFound => src'[k].grant < nextGrant'
    BY <1>2 DEF Safe, GrantsOK, Only
  <2>3. \A g \in revoked : g < nextGrant'
    BY <1>2 DEF Safe, GrantsOK
  <2> QED BY <2>1, <2>2, <2>3 DEF GrantsOK, Has
<1>5. /\ \A v \in Values : tokens[v] # NotFound => tokens[v].grant # nextGrant
      /\ \A k \in Procs : src[k] # NotFound => src[k].grant # nextGrant
      /\ nextGrant \notin revoked
  BY <1>2 DEF Safe, GrantsOK, Has
<1>6. ASSUME NEW k \in Procs PROVE RecordsOK(k)'
  <2>1. CASE k = h
    <3>1. \A v \in MintedValues(h)' : tokens[v] = NotFound
      BY <1>1, <1>2 DEF Safe, ValuesOK, Has
    <3> QED BY <2>1, <3>1, NoTokensType DEF RecordsOK, Has
  <2>2. CASE k # h
    BY <1>1, <2>2 DEF Safe, RecordsOK, Has, Only
  <2> QED BY <2>1, <2>2
<1>7. ASSUME NEW k \in Procs PROVE SourceOK(k)'
  BY DEF Safe, SourceOK, Has, Only, Starts, Lookups, Exchanges, Reads, Direct
<1>8. ASSUME NEW k \in Procs PROVE PrivateOK(k)'
  <2>1. CASE k = h
    BY <1>2, <1>5, <2>1 DEF PrivateOK, Has, Only
  <2>2. CASE k # h
    <3> SUFFICES ASSUME pc[k] # "idle", req[k].op \in Starts PROVE PrivateOK(k)'
      BY <2>2 DEF PrivateOK, Only
    <3>1. src[k] \in Token
      BY DEF HandlersOK, HandlerOK, Starts, Lookups, Exchanges, Reads, Direct
    <3>2. src[k] # NotFound /\ src[k].grant # nextGrant
      BY <1>5, <3>1, TokenFields
    <3> QED BY <2>2, <3>2 DEF Safe, PrivateOK, Has, Only
  <2> QED BY <2>1, <2>2
<1>9. ASSUME NEW k \in Procs PROVE RespondOK(k)'
  BY <1>1 DEF Safe, RespondOK, At, Has, Only
<1>10. RevokedGrantStaysDead'
  BY DEF Safe, RevokedGrantStaysDead, Has
<1>11. \A k \in Procs : Winning(k)' => Winning(k) /\ req'[k] = req[k]
  BY DEF Winning, At, Only
<1>12. UsedOK' /\ AtMostOneExchange'
  BY <1>11 DEF Safe, UsedOK, AtMostOneExchange, Has
<1> QED BY <1>3, <1>4, <1>6, <1>7, <1>8, <1>9, <1>10, <1>12 DEF Safe

(* Arrivals keep the safety invariant. *)
LEMMA ArriveSafe ==
    ASSUME TypeOK, TypeOK', HandlersOK, HandlersOK', Safe,
           NEW h \in Procs, Arrive(h)
    PROVE  Safe'
<1>1. CASE BeginCodeExchange(h) \/ BeginRefresh(h) \/ BeginRevocation(h) \/ BeginRead(h)
  <2>1. /\ Only(h) /\ pc'[h] = "load" /\ src'[h] = NotFound /\ out'[h] = NoTokens
        /\ UNCHANGED <<store, supply, history>>
    <3>1. CASE BeginCodeExchange(h)
      BY <3>1 DEF BeginCodeExchange, Begin, Only, TypeOK
    <3>2. CASE BeginRefresh(h)
      BY <3>2 DEF BeginRefresh, Begin, Only, TypeOK
    <3>3. CASE BeginRevocation(h) \/ BeginRead(h)
      BY <3>3 DEF BeginRevocation, BeginRead, Begin, Only, TypeOK
    <3> QED BY <1>1, <3>1, <3>2, <3>3
  <2> QED BY <2>1, LookupStep DEF store, supply, history
<1>2. CASE BeginDirect(h)
  <2>1. PICK op \in Direct \intersect Endpoints, i \in Issuers, c \in ClientIDs,
             subject \in BOOLEAN, s \in SUBSET Scopes, a \in SUBSET Audiences,
             rf \in BOOLEAN : StartDirect(h, op, i, c, subject, s, a, rf)
    BY <1>2, Zenon DEF BeginDirect
  <2> DEFINE r == Arrival(op, i, c, 0, NoProof, NoScopeParam, rf)
             t == directGrant(i, c, subject, s, a)
  <2>2. Begin(h, "issue", r, t, NoTokens)
    BY <2>1, Zenon DEF StartDirect
  <2>3. r.op = op /\ t.grant = nextGrant
    BY DEF Arrival, directGrant
  <2> HIDE DEF r, t
  <2>4. /\ Only(h) /\ pc'[h] = "issue" /\ src'[h] = t /\ out'[h] = NoTokens
        /\ req'[h] = r
    BY <2>2 DEF Begin, Only, TypeOK
  <2>5. /\ nextGrant' = nextGrant + 1 /\ nextValue' = nextValue
        /\ UNCHANGED <<tokens, disclosed, issued, revoked>>
    BY <1>2 DEF BeginDirect, store
  <2> QED BY <2>3, <2>4, <2>5, StartStep DEF Starts
<1>3. CASE BeginApprove(h)
  <2>1. PICK i \in Issuers, c \in ClientIDs, shape \in CodeShapes,
             s \in SUBSET Scopes, a \in SUBSET Audiences :
               StartApprove(h, i, c, shape, s, a)
    BY <1>3, Zenon DEF BeginApprove
  <2> DEFINE r == Arrival("approve", i, c, 0, NoProof, NoScopeParam, FALSE)
             t == newCode(i, c, shape, s, a)
             o == codeOnly(t)
  <2>2. Begin(h, "store", r, t, o)
    BY <2>1, Zenon DEF StartApprove
  <2>3. r.op = "approve" /\ t.grant = nextGrant
    BY DEF Arrival, newCode
  <2>4. o.main = nextValue /\ o.refresh = 0 /\ o.at = t
    BY DEF codeOnly, NoTokens
  <2> HIDE DEF r, t, o
  <2>5. /\ Only(h) /\ pc'[h] = "store" /\ src'[h] = t /\ out'[h] = o
        /\ req'[h] = r
    BY <2>2 DEF Begin, Only, TypeOK
  <2>6. /\ nextGrant' = nextGrant + 1 /\ nextValue' = nextValue + 1
        /\ nextValue \in Values
        /\ UNCHANGED <<tokens, disclosed, issued, revoked>>
    BY <1>3, BoundsAssumption DEF BeginApprove, store, TypeOK, Values
  <2> QED BY <2>3, <2>4, <2>5, <2>6, StartStep DEF Starts
<1> QED BY <1>1, <1>2, <1>3 DEF Arrive

(* A handler can revoke only a grant that nobody is starting. *)
LEMMA RevokeGrantRevokes ==
    ASSUME TypeOK, HandlersOK, Safe, NEW h \in Procs, src[h] \in Token,
           req[h].op \in Lookups, RevokeGrant(src[h].grant)
    PROVE  Keeps(tokens, tokens') /\ Revokes(src[h].grant) /\ src[h].grant \in Grants
<1>1. src[h] # NotFound /\ src[h].grant \in Grants
  BY TokenFields
<1>2. /\ Keeps(tokens, tokens')
      /\ \A v \in Values : tokens'[v] # NotFound => tokens'[v].grant # src[h].grant
  BY <1>1, WithoutGrantKeeps DEF RevokeGrant, TypeOK
<1>3. \A k \in Procs : pc[k] # "idle" /\ req[k].op \in Starts =>
                           src[k].grant # src[h].grant
  <2> SUFFICES ASSUME NEW k \in Procs, pc[k] # "idle", req[k].op \in Starts
               PROVE  src[k].grant # src[h].grant
    OBVIOUS
  <2>1. k # h
    BY DEF Starts, Lookups, Exchanges, Reads, Direct
  <2> QED BY <1>1, <2>1 DEF Safe, PrivateOK
<1> QED BY <1>1, <1>2, <1>3 DEF Revokes, RevokeGrant, Safe, GrantsOK

(* The Storage calls of a handler keep the safety invariant. *)
LEMMA StepSafe ==
    ASSUME TypeOK, TypeOK', HandlersOK, HandlersOK', Safe,
           NEW h \in Procs, Step(h)
    PROVE  Safe'
<1>0. /\ HandlerOK(h) /\ tokens \in TokenMaps /\ out[h] \in Minted
      /\ disclosed \subseteq Values /\ Keeps(tokens, tokens)
  BY KeepsSame DEF HandlersOK, TypeOK
<1>a. ASSUME Idles(h) \/ Proceeds(h), Only(h), Keeps(tokens, tokens'),
             revoked' = revoked \/ (\E g \in Grants : Revokes(g)),
             UNCHANGED <<disclosed, issued, supply>>
      PROVE  Safe'
  <2>1. \A k \in Procs : Idles(k) \/ Proceeds(k) \/ Stays(k)
    BY <1>a DEF Only, Stays
  <2> QED BY <1>a, <2>1, QuietStep
<1>b. ASSUME NEW label \in PCs, Goto(h, label)
      PROVE  /\ Only(h)
             /\ (/\ pc[h] \notin {"idle", "load"}
                 /\ label \notin {"idle", "load", "respond"}) => Proceeds(h)
  <2>1. /\ Only(h) /\ pc'[h] = label /\ req'[h] = req[h] /\ src'[h] = src[h]
        /\ out'[h] = out[h]
    BY <1>b, GotoStep
  <2> QED BY <2>1 DEF Proceeds
<1>c. ASSUME Fail(h), pc[h] \notin {"idle", "load"}
      PROVE  Only(h) /\ (Idles(h) \/ Proceeds(h))
  BY <1>b, <1>c, FinishIdles DEF Fail, PCs
<1>1. CASE LoadFinds(h) \/ ConsumeReused(h)
  BY <1>1, ReadStep
<1>2. CASE LoadRefuses(h) \/ Answer(h) \/ CheckRefuses(h) \/ MintFails(h)
  <2>1. Finish(h) /\ UNCHANGED <<store, supply, history>>
    BY <1>2 DEF LoadRefuses, Answer, CheckRefuses, MintFails
  <2> QED BY <1>0, <1>a, <2>1, FinishIdles DEF store, history
<1>3. CASE CheckReuse(h) \/ CheckPasses(h)
  <2>1. (Goto(h, "reuse") \/ Goto(h, "issue")) /\ UNCHANGED <<store, supply, history>>
        /\ pc[h] = "check"
    BY <1>3 DEF CheckReuse, CheckPasses, At
  <2>2. Only(h) /\ Proceeds(h)
    BY <1>b, <2>1 DEF PCs
  <2> QED BY <1>0, <1>a, <2>1, <2>2 DEF store, history
<1>4. CASE Revoke(h)
  <2>1. src[h] \in Token /\ req[h].op \in Lookups /\ req[h].value \in Values
    BY <1>0, <1>4 DEF Revoke, At, HandlerOK
  <2>2. Idles(h) /\ Only(h) /\ UNCHANGED <<disclosed, issued, supply>>
    BY <1>4, FinishIdles DEF Revoke
  <2>3. CASE RevokeGrant(src[h].grant)
    BY <1>a, <2>1, <2>2, <2>3, RevokeGrantRevokes
  <2>4. CASE RevokeToken(req[h].value) /\ UNCHANGED revoked
    BY <1>0, <1>a, <2>1, <2>2, <2>4, WithoutTokenKeeps DEF RevokeToken
  <2>5. CASE StorageError
    BY <1>0, <1>a, <2>2, <2>5 DEF StorageError, store
  <2> QED BY <1>4, <2>3, <2>4, <2>5 DEF Revoke
<1>5. CASE Mint(h)
  BY <1>5, MintStep
<1>d. ASSUME NEW v \in MintedValues(h), NEW t \in Token, t.grant = src[h].grant,
             CreateToken(v, t), pc[h] \notin {"idle", "load"}, Only(h),
             \/ Idles(h)
             \/ Proceeds(h)
             \/ Goto(h, "respond") /\ req[h].op \in Starts,
             UNCHANGED <<supply, disclosed, issued, revoked>>
      PROVE  Safe'
  <2>1. \A k \in Procs \ {h} : Stays(k)
    BY <1>d DEF Only, Stays
  <2>2. src[h] \in Token
    BY <1>0, <1>d DEF HandlerOK
  <2> QED BY <1>d, <2>1, <2>2, CreateStep DEF supply
<1>6. CASE Store(h) \/ StoreRefresh(h)
  <2>1. PICK v \in MintedValues(h), t \in Token :
          CreateToken(v, t) /\ t.grant = src[h].grant
    BY <1>0, <1>6 DEF Store, StoreRefresh, At, HandlerOK, Holds, MintedValues,
                      Safe, RecordsOK
  <2>2. /\ pc[h] \in {"store", "store_refresh"}
        /\ req[h].op \in Exchanges \union Starts
        /\ UNCHANGED <<supply, disclosed, issued, revoked>>
    BY <1>0, <1>6 DEF Store, StoreRefresh, At, HandlerOK, Holds, history
  <2>3. PICK label \in {"store_refresh", "consume", "respond"} :
          Goto(h, label) /\ (label = "respond" => req[h].op \in Starts)
    BY <1>6, <2>2 DEF Store, StoreRefresh, AfterStore
  <2>4. Only(h) /\ (label # "respond" => Proceeds(h))
    BY <1>b, <2>2, <2>3 DEF PCs
  <2> QED BY <1>d, <2>1, <2>2, <2>3, <2>4
<1>7. CASE StoreFails(h)
  <2>1. /\ pc[h] \in {"store", "store_refresh"} /\ Fail(h)
        /\ UNCHANGED <<supply, disclosed, issued, revoked>>
    BY <1>7 DEF StoreFails, At
  <2>2. Only(h) /\ (Idles(h) \/ Proceeds(h))
    BY <1>c, <2>1
  <2>3. CASE StorageError
    BY <1>0, <1>a, <2>1, <2>2, <2>3 DEF StorageError, store
  <2>4. CASE \/ pc[h] = "store" /\ CreateToken(out[h].main, out[h].at)
             \/ pc[h] = "store_refresh" /\ CreateToken(out[h].refresh, out[h].rt)
    <3>1. PICK v \in MintedValues(h), t \in Token :
            CreateToken(v, t) /\ t.grant = src[h].grant
      BY <1>0, <2>4 DEF HandlerOK, Holds, MintedValues, Safe, RecordsOK
    <3> QED BY <1>d, <2>1, <2>2, <3>1
  <2> QED BY <1>7, <2>3, <2>4 DEF StoreFails, At
<1>8. CASE Consume(h)
  BY <1>8, ConsumeStep
<1>9. CASE ConsumeFails(h)
  <2>1. /\ pc[h] = "consume" /\ Fail(h) /\ req[h].value \in Values
        /\ UNCHANGED <<supply, disclosed, issued, revoked>>
    BY <1>0, <1>9 DEF ConsumeFails, At, HandlerOK, Lookups, history
  <2>2. Only(h) /\ (Idles(h) \/ Proceeds(h))
    BY <1>c, <2>1
  <2>3. Keeps(tokens, tokens')
    BY <1>0, <1>9, <2>1, WithConsumedKeeps DEF ConsumeFails, StorageError, store, Has
  <2> QED BY <1>a, <2>1, <2>2, <2>3
<1>10. CASE RevokeReused(h)
  <2>1. /\ pc[h] = "reuse" /\ Fail(h) /\ req[h].op \in Lookups /\ src[h] \in Token
        /\ UNCHANGED <<supply, disclosed, issued>>
    BY <1>0, <1>10 DEF RevokeReused, At, HandlerOK, Lookups
  <2>2. Only(h) /\ (Idles(h) \/ Proceeds(h))
    BY <1>c, <2>1
  <2>3. CASE RevokeGrant(src[h].grant)
    BY <1>a, <2>1, <2>2, <2>3, RevokeGrantRevokes
  <2>4. CASE StorageError
    BY <1>0, <1>a, <2>1, <2>2, <2>4 DEF StorageError, store
  <2> QED BY <1>10, <2>3, <2>4 DEF RevokeReused
<1>11. CASE Discard(h) \/ DiscardRefresh(h)
  <2>1. /\ pc[h] \in {"discard", "discard_refresh"}
        /\ UNCHANGED <<supply, disclosed, issued, revoked>>
        /\ Finish(h) \/ Goto(h, "discard_refresh")
    BY <1>11 DEF Discard, DiscardRefresh, At, StorageError
  <2>2. Only(h) /\ (Idles(h) \/ Proceeds(h))
    BY <1>b, <2>1, FinishIdles DEF PCs
  <2>3. /\ pc[h] = "discard" => out[h].main \in Values
        /\ pc[h] = "discard_refresh" => out[h].refresh \in Values
    BY <1>0, MintedFields DEF HandlerOK, Holds
  <2>4. Keeps(tokens, tokens')
    BY <1>0, <1>11, <2>3, WithoutTokenKeeps
       DEF Discard, DiscardRefresh, At, RevokeToken, StorageError, store
  <2> QED BY <1>a, <2>1, <2>2, <2>4
<1>12. CASE Respond(h)
  BY <1>12, RespondStep
<1> QED BY <1>1, <1>2, <1>3, <1>4, <1>5, <1>6, <1>7, <1>8, <1>9, <1>10, <1>11,
           <1>12 DEF Step

(* Crashes, changes of a registration, time and collections keep the       *)
(* safety invariant.                                                       *)
LEMMA OtherSafe ==
    ASSUME TypeOK, TypeOK', HandlersOK, HandlersOK', Safe,
           (\E h \in Procs : RevokePart(h) \/ Crash(h)) \/ SetClient \/ Tick \/ Collect
    PROVE  Safe'
<1>0. tokens \in TokenMaps /\ now \in Nat /\ Keeps(tokens, tokens)
  BY KeepsSame DEF TypeOK
<1>1. CASE \E h \in Procs : Crash(h)
  <2>1. PICK h \in Procs : Crash(h)
    BY <1>1
  <2>2. Idles(h) /\ Only(h)
    BY <2>1, FinishIdles DEF Crash
  <2>3. \A k \in Procs : Idles(k) \/ Proceeds(k) \/ Stays(k)
    BY <2>2 DEF Only, Stays
  <2> QED BY <1>0, <2>1, <2>3, QuietStep DEF Crash, store
<1>2. CASE SetClient \/ Tick \/ Collect
  <2>1. \A k \in Procs : Stays(k)
    BY <1>2 DEF SetClient, Tick, Collect, handler, Stays
  <2>2. Keeps(tokens, tokens')
    BY <1>0, <1>2, CollectedKeeps DEF SetClient, Tick, Collect, store, collectLocked
  <2>3. UNCHANGED <<disclosed, issued, supply, revoked>>
    BY <1>2 DEF SetClient, Tick, Collect, history
  <2> QED BY <2>1, <2>2, <2>3, QuietStep
<1>3. ASSUME NEW h \in Procs, RevokePart(h) PROVE Safe'
  <2>1. \A k \in Procs : Stays(k)
    BY <1>3 DEF RevokePart, handler, Stays
  <2>2. Keeps(tokens, tokens')
    BY <1>0, <1>3, WithoutTokenKeeps DEF RevokePart, RevokeToken
  <2>3. UNCHANGED <<disclosed, issued, supply, revoked>>
    BY <1>3 DEF RevokePart, history
  <2> QED BY <2>1, <2>2, <2>3, QuietStep
<1> QED BY <1>1, <1>2, <1>3

------------------------------------------------------------------------------
(* The theorems. *)

(* The handlers and the store start idle and empty. *)
LEMMA InitInductive == Init => Inductive
<1> SUFFICES ASSUME Init PROVE Inductive
  OBVIOUS
<1>1. TypeOK /\ HandlersOK
  BY NoTokensType, BoundsAssumption, ConstantsAssumption
     DEF Init, TypeOK, HandlersOK, HandlerOK, NoTokensStored, TokenMaps, PCs,
         Fresh, Holds
<1>2. \A h \in Procs : MintedValues(h) = {} /\ pc[h] = "idle" /\ src[h] = NotFound
                        /\ out[h].main = 0 /\ out[h].refresh = 0
  BY IdleValues, NoTokensType DEF Init
<1>3. \A v \in Values : ~Has(tokens, v)
  BY DEF Init, NoTokensStored, Has
<1>4. ValuesOK /\ GrantsOK
  BY <1>2, <1>3 DEF Init, ValuesOK, GrantsOK
<1>5. \A h \in Procs : RecordsOK(h) /\ SourceOK(h) /\ PrivateOK(h) /\ RespondOK(h)
  BY <1>2 DEF RecordsOK, SourceOK, PrivateOK, RespondOK, At
<1>6. RevokedGrantStaysDead /\ UsedOK /\ AtMostOneExchange
  BY <1>2 DEF Init, RevokedGrantStaysDead, UsedOK, AtMostOneExchange, Winning, At
<1> QED BY <1>1, <1>4, <1>5, <1>6 DEF Inductive, Safe

(* Every action preserves the invariant. *)
LEMMA StepInductive == Inductive /\ [Next]_vars => Inductive'
<1> SUFFICES ASSUME TypeOK, HandlersOK, Safe, [Next]_vars PROVE Inductive'
  BY DEF Inductive
<1>1. ASSUME NEW h \in Procs, Arrive(h) PROVE Inductive'
  BY <1>1, ArriveTypes, ArriveSafe DEF Inductive
<1>2. ASSUME NEW h \in Procs, Step(h) PROVE Inductive'
  BY <1>2, StepTypes, StepSafe DEF Inductive
<1>3. ASSUME (\E h \in Procs : RevokePart(h) \/ Crash(h)) \/ SetClient \/ Tick \/ Collect
      PROVE  Inductive'
  BY <1>3, OtherTypes, OtherSafe DEF Inductive
<1>4. CASE UNCHANGED vars
  <2> USE <1>4 DEF vars, handler, store, supply, world, history
  <2>1. TypeOK' /\ HandlersOK'
    BY DEF TypeOK, HandlersOK, HandlerOK
  <2>2. ValuesOK' /\ GrantsOK'
    BY DEF Safe, ValuesOK, GrantsOK, MintedValues, Has
  <2>3. \A h \in Procs : RecordsOK(h)' /\ SourceOK(h)'
    BY DEF Safe, RecordsOK, SourceOK, MintedValues, Has
  <2>4. \A h \in Procs : PrivateOK(h)' /\ RespondOK(h)'
    BY DEF Safe, PrivateOK, RespondOK, MintedValues, Has, At
  <2>5. RevokedGrantStaysDead' /\ UsedOK' /\ AtMostOneExchange'
    BY DEF Safe, RevokedGrantStaysDead, UsedOK, AtMostOneExchange, Winning, Has, At
  <2> QED BY <2>1, <2>2, <2>3, <2>4, <2>5 DEF Inductive, Safe
<1> QED BY <1>1, <1>2, <1>3, <1>4 DEF Next

(* Inductive holds initially and every step of Next preserves it: whatever *)
(* the handlers, the store and the faults do, the facts on which an        *)
(* exchange relies between two Storage calls stay true.                    *)
THEOREM InductiveInvariant == Spec => []Inductive
<1> QED BY InitInductive, StepInductive, PTL DEF Spec

(* Every variable keeps its type, for every value of the constants.        *)
THEOREM TypeCorrect == Spec => []TypeOK
<1>1. Inductive => TypeOK
  BY DEF Inductive
<1> QED BY <1>1, InductiveInvariant, PTL

(* No token that a client holds survives the revocation of its grant,      *)
(* whatever exchanges of the grant are under way when RevokeGrant runs.    *)
THEOREM RevocationIsFinal == Spec => []RevokedGrantStaysDead
<1>1. Inductive => RevokedGrantStaysDead
  BY DEF Inductive, Safe
<1> QED BY <1>1, InductiveInvariant, PTL

(* One code or refresh token buys at most one response, for any number of  *)
(* concurrent exchanges, faults and crashes.                               *)
THEOREM SingleUse == Spec => []AtMostOneExchange
<1>1. Inductive => AtMostOneExchange
  BY DEF Inductive, Safe
<1> QED BY <1>1, InductiveInvariant, PTL

(* A step only removes or marks stored tokens, or it is CreateToken of a   *)
(* value that its handler minted.                                          *)
LEMMA StoreEffect ==
    ASSUME Inductive, Next
    PROVE  \/ Keeps(tokens, tokens')
           \/ \E h \in Procs : \E w \in MintedValues(h) :
                 \A v \in Values \ {w} :
                    tokens'[v] = NotFound \/ tokens'[v] = tokens[v]
<1>0. TypeOK /\ HandlersOK /\ tokens \in TokenMaps /\ now \in Nat
      /\ Keeps(tokens, tokens) /\ disclosed \subseteq Values
  BY KeepsSame DEF Inductive, TypeOK
<1>1. ASSUME NEW h \in Procs, Arrive(h) PROVE tokens' = tokens
  BY <1>1 DEF Arrive, BeginCodeExchange, BeginRefresh, BeginDirect, BeginApprove,
              BeginRevocation, BeginRead, store
<1>2. ASSUME NEW h \in Procs,
             \/ At(h, "store") /\ CreateToken(out[h].main, out[h].at)
             \/ At(h, "store_refresh") /\ CreateToken(out[h].refresh, out[h].rt)
      PROVE  \E w \in MintedValues(h) : \A v \in Values \ {w} :
                tokens'[v] = NotFound \/ tokens'[v] = tokens[v]
  <2>1. PICK w \in MintedValues(h), t \in Token : CreateToken(w, t)
    BY <1>0, <1>2 DEF At, HandlersOK, HandlerOK, Holds, MintedValues
  <2>2. w \in Values
    BY <1>0, MintedFields DEF MintedValues, TypeOK
  <2> QED BY <1>0, <2>1, <2>2, CreateTokenStep
<1>3. ASSUME NEW h \in Procs, Consume(h) \/ ConsumeFails(h)
      PROVE  Keeps(tokens, tokens')
  <2>1. req[h].value \in Values
    BY <1>0, <1>3 DEF Consume, ConsumeFails, At, HandlersOK, HandlerOK, Lookups
  <2> QED BY <1>0, <1>3, <2>1, WithConsumedKeeps
             DEF Consume, ConsumeFails, StorageError, store, Has
<1>4. ASSUME NEW h \in Procs, Revoke(h) \/ RevokeReused(h)
      PROVE  Keeps(tokens, tokens')
  <2>1. src[h].grant \in Grants /\ (At(h, "act") => req[h].value \in Values)
    BY <1>0, <1>4, TokenFields DEF Revoke, RevokeReused, At, HandlersOK, HandlerOK
  <2> QED BY <1>0, <1>4, <2>1, WithoutGrantKeeps, WithoutTokenKeeps
             DEF Revoke, RevokeReused, RevokeGrant, RevokeToken, StorageError, store
<1>5. ASSUME NEW h \in Procs, Discard(h) \/ DiscardRefresh(h)
      PROVE  Keeps(tokens, tokens')
  <2>1. /\ At(h, "discard") => out[h].main \in Values
        /\ At(h, "discard_refresh") => out[h].refresh \in Values
    BY <1>0, MintedFields DEF HandlersOK, HandlerOK, Holds, At, TypeOK
  <2> QED BY <1>0, <1>5, <2>1, WithoutTokenKeeps
             DEF Discard, DiscardRefresh, RevokeToken, StorageError, store
<1>6. ASSUME NEW h \in Procs,
             \/ LoadFinds(h) \/ LoadRefuses(h) \/ Answer(h) \/ CheckReuse(h)
             \/ CheckPasses(h) \/ CheckRefuses(h) \/ Mint(h) \/ MintFails(h)
             \/ ConsumeReused(h) \/ Respond(h) \/ Crash(h)
      PROVE  tokens' = tokens
  BY <1>6 DEF LoadFinds, LoadRefuses, Answer, CheckReuse, CheckPasses, CheckRefuses,
              Mint, MintFails, ConsumeReused, Respond, Crash, store
<1>7. ASSUME NEW h \in Procs, Store(h) \/ StoreRefresh(h) \/ StoreFails(h)
      PROVE  \/ tokens' = tokens
             \/ At(h, "store") /\ CreateToken(out[h].main, out[h].at)
             \/ At(h, "store_refresh") /\ CreateToken(out[h].refresh, out[h].rt)
  BY <1>7 DEF Store, StoreRefresh, StoreFails, StorageError, store
<1>8. ASSUME SetClient \/ Tick \/ Collect PROVE Keeps(tokens, tokens')
  BY <1>0, <1>8, CollectedKeeps DEF SetClient, Tick, Collect, store, collectLocked
<1>9. ASSUME NEW h \in Procs, RevokePart(h) PROVE Keeps(tokens, tokens')
  BY <1>0, <1>9, WithoutTokenKeeps DEF RevokePart, RevokeToken
<1>10. ASSUME NEW h \in Procs, Step(h)
      PROVE  \/ Keeps(tokens, tokens')
             \/ \E w \in MintedValues(h) : \A v \in Values \ {w} :
                   tokens'[v] = NotFound \/ tokens'[v] = tokens[v]
  BY <1>0, <1>2, <1>3, <1>4, <1>5, <1>6, <1>7, <1>10 DEF Step
<1> QED BY <1>0, <1>1, <1>6, <1>8, <1>9, <1>10 DEF Next

(* A token that left the store never returns to it: the only values that   *)
(* CreateToken can add are ones no client has seen.                        *)
THEOREM RevokedTokensStayAway == Spec => NoResurrection
<1>1. Inductive /\ [Next]_vars =>
        [\A v \in disclosed : ~Has(tokens, v) => tokens'[v] = NotFound]_vars
  <2> SUFFICES ASSUME Inductive, Next, NEW v \in disclosed, ~Has(tokens, v)
               PROVE  tokens'[v] = NotFound
    BY DEF vars
  <2>1. v \in Values /\ tokens[v] = NotFound
    BY DEF Inductive, TypeOK, Has
  <2>2. \A h \in Procs : v \notin MintedValues(h)
    BY DEF Inductive, Safe, ValuesOK
  <2> QED BY <2>1, <2>2, StoreEffect DEF Keeps
<1> QED BY <1>1, InductiveInvariant, PTL DEF Spec, NoResurrection
==============================================================================
