------------------------- MODULE AuthorizationProofs -------------------------
(***************************************************************************)
(* The inductive invariant of Authorization, its proof, and what follows   *)
(* from it: every request is answered at most once, by the user agent that *)
(* started it, within a registration in force and after a fresh login, and *)
(* is not lost without an answer; and Authorization implements RequestLife.*)
(***************************************************************************)
EXTENDS AuthorizationLife, FiniteSetTheorems, TLAPS

(* What a handler's position says about its call. *)
HandlerOK(h) ==
    LET k == call[h] IN
    /\ pc[h] # "idle" => k \in Call /\ (k.op # "push" => k.agent \in Agents)
    /\ pc[h] \notin {"idle", "load"} => held[h] \in Record
    /\ pc[h] \in {"held", "create"} => k.value = 0
    /\ pc[h] = "held" => k.op \in {"push", "choose"}
    /\ pc[h] = "check" => k.op \in {"push", "save", "approve", "deny"}
    /\ pc[h] = "create" => k.op \in {"push", "save"}
    /\ pc[h] \in {"load", "delete", "recheck"} =>
          k.value # 0 /\ k.op \in {"redeem", "approve", "deny"}
    /\ pc[h] = "recheck" => k.op = "redeem"
    /\ pc[h] = "code" => k.op = "approve"
    /\ (pc[h] # "idle" /\ k.value # 0) =>
          /\ k.op \in {"redeem", "approve", "deny"}
          /\ k.value \in disclosed /\ k.origin = 0
          /\ pc[h] # "load" => (k.value \in par <=> k.op = "redeem")

(* A handler past the checks of Approve. *)
LoginFresh(h) ==
    "openid" \in held[h].scopes =>
        /\ held[h].login \/ held[h].maxAge = 0 => call[h].auth >= Past(h).started
        /\ held[h].maxAge \notin {None, 0} =>
            call[h].auth + held[h].maxAge >= call[h].started

(* What a handler knows about the request it saves or completes. *)
WorkOK(h) ==
    LET k == call[h] IN
    /\ pc[h] # "idle" => k.started <= now
    /\ (pc[h] \notin {"idle", "load"} /\ k.value = 0) => k.started <= held[h].createdAt
    /\ (pc[h] \notin {"idle", "load"} /\ k.op \in {"save", "approve", "deny"}) =>
          /\ Past(h).started <= held[h].createdAt
          /\ held[h].pushed = (Past(h).origin # 0)
          /\ Binding => k.agent = Past(h).agent
    /\ (pc[h] = "create" /\ k.op = "save") => held[h].bound = Binding
    /\ (pc[h] = "create" /\ k.op = "push") => ~held[h].bound
    /\ (pc[h] = "check" /\ k.op = "approve") => Reg(h) \in seen[h]
    /\ (pc[h] \in {"delete", "code"} /\ k.op = "approve") =>
          LoginFresh(h) /\ \E reg \in seen[h] : Permits(reg, h)

(* IDs are handed out once; what the store has is what was put there. *)
StoreOK ==
    /\ \A v \in IDs : v >= nextID =>
          ~Has(v) /\ v \notin disclosed /\ v \notin par /\ answered[v] = 0
    /\ \A v \in IDs : v < nextID => lineage[v] \in Origin
    /\ \A v \in IDs : Has(v) =>
          /\ lineage[v].expire = requests[v].expiresAt
          /\ lineage[v].started <= requests[v].createdAt
          /\ v \notin par => /\ requests[v].bound = Binding
                             /\ requests[v].pushed = (lineage[v].origin # 0)
    /\ \A c \in cookies : c[2] < nextID /\ lineage[c[2]].agent = c[1]

(* The requests that only handler h can answer: it took them from the      *)
(* store.                                                                  *)
Carries(h) ==
    {v \in IDs :
        \/ pc[h] # "idle" /\ v = call[h].origin
        \/ pc[h] \in {"recheck", "code"} /\ v = call[h].value
        \/ pc[h] = "code" /\ call[h].value # 0 /\ v = lineage[call[h].value].origin}

(* The requests that are answered when saved request w is. *)
Kept(w) == {v \in IDs : v = w \/ v = lineage[w].origin}

(* The requests in the store that somebody can ask for. *)
Open == {w \in disclosed : Has(w)}

(* Every request has one place from where it can be answered. *)
OnePlace ==
    /\ \A h, k \in Procs : h # k => Carries(h) \intersect Carries(k) = {}
    /\ \A h \in Procs, w \in Open : Carries(h) \intersect Kept(w) = {}
    /\ \A u, w \in Open : u # w => Kept(u) \intersect Kept(w) = {}
    /\ \A h \in Procs : \A v \in Carries(h) :
          v \in disclosed /\ ~Has(v) /\ answered[v] = 0
    /\ \A w \in Open : \A v \in Kept(w) :
          v \in disclosed /\ (Has(v) => v = w) /\ answered[v] = 0
    /\ AtMostOneAnswer

Inductive ==
    /\ TypeOK
    /\ StoreOK
    /\ OnePlace
    /\ SavedRequestsAreAnswered
    /\ \A h \in Procs : HandlerOK(h) /\ WorkOK(h)

------------------------------------------------------------------------------
(* Steps of one handler, and what they leave alone. *)

HandlerTypes ==
    /\ pc \in [Procs -> PCs]
    /\ call \in [Procs -> Call \union {None}]
    /\ held \in [Procs -> Record \union {NotFound}]
    /\ seen \in [Procs -> SUBSET Registrations]

StoreTypes ==
    /\ now \in 0 .. MaxTime
    /\ clients \in [Issuers \X ClientIDs -> Registrations]
    /\ requests \in [IDs -> Record \union {NotFound}]
    /\ par \subseteq IDs
    /\ lastCollection \in Int
    /\ nextID \in 1 .. MaxRequests + 1
    /\ disclosed \subseteq IDs
    /\ cookies \subseteq Agents \X IDs
    /\ lineage \in [IDs -> Origin \union {None}]
    /\ answered \in [IDs -> Nat]
    /\ lost \subseteq IDs

(* Handlers other than h do not move. *)
Only(h) ==
    \A k \in Procs \ {h} : /\ pc'[k] = pc[k] /\ call'[k] = call[k]
                           /\ held'[k] = held[k] /\ seen'[k] = seen[k]

(* What every step but SetClient leaves to the handlers. *)
Frame ==
    /\ disclosed \subseteq disclosed' /\ nextID' >= nextID /\ now' >= now
    /\ clients' = clients
    /\ \A v \in IDs : v < nextID => lineage'[v] = lineage[v] /\ (v \in par' <=> v \in par)

(* The type invariant in two parts. *)
LEMMA TypeParts == TypeOK <=> HandlerTypes /\ StoreTypes
  BY DEF TypeOK, HandlerTypes, StoreTypes

(* The same after a step. *)
LEMMA TypeJoin == ASSUME HandlerTypes', StoreTypes' PROVE TypeOK'
  BY DEF TypeOK, HandlerTypes, StoreTypes

(* The fields of calls and records. *)
LEMMA Fields ==
    /\ \A k \in Call : /\ k.value \in IDs \union {0} /\ k.origin \in IDs \union {0}
                       /\ k.started \in Nat /\ k.auth \in Nat /\ k.issuer \in Issuers
                       /\ k.agent \in Agents \union {None}
    /\ \A r \in Record : /\ r.createdAt \in Nat /\ r.expiresAt \in Nat
                         /\ r.client \in ClientIDs /\ r.maxAge \in Nat \union {None}
    /\ \A o \in Origin : /\ o.started \in Nat /\ o.expire \in Nat
                         /\ o.origin \in IDs \union {0} /\ o.agent \in Agents \union {None}
  BY DEF Call, Record, Origin

(* IDs are positive. *)
LEMMA IDFacts == IDs \subseteq Nat /\ 0 \notin IDs
  BY ConstantsAssumption DEF IDs

(* A handler that ends. *)
LEMMA FinishStep ==
    ASSUME HandlerTypes, NEW h \in Procs, Finish(h)
    PROVE  Only(h) /\ pc'[h] = "idle" /\ HandlerTypes'
  BY DEF HandlerTypes, Finish, Only, PCs

(* Nothing is asked of an idle handler. *)
LEMMA IdleOK ==
    ASSUME NEW h \in Procs, pc'[h] = "idle"
    PROVE  HandlerOK(h)' /\ WorkOK(h)' /\ Carries(h)' = {}
  BY DEF HandlerOK, WorkOK, Carries

(* The value that a handler works on was handed out. *)
LEMMA ValueFacts ==
    ASSUME Inductive, NEW h \in Procs, pc[h] # "idle"
    PROVE  /\ call[h] \in Call /\ now \in Nat /\ nextID \in Nat
           /\ call[h].value # 0 =>
                /\ call[h].value \in disclosed /\ call[h].value \in IDs
                /\ call[h].value < nextID /\ lineage[call[h].value] \in Origin
           /\ call[h].origin # 0 => /\ call[h].origin \in disclosed
                                    /\ call[h].origin \in IDs
<1>1. TypeOK /\ HandlerOK(h) /\ StoreOK /\ OnePlace
  BY DEF Inductive
<1>2. call[h] \in Call /\ now \in Nat /\ nextID \in Nat
  BY <1>1 DEF HandlerOK, TypeOK
<1>3. ASSUME NEW v \in disclosed PROVE v \in IDs /\ v < nextID
  <2>1. v \in IDs
    BY <1>1 DEF TypeOK
  <2>2. ~(v >= nextID)
    BY <1>1, <2>1 DEF StoreOK
  <2> QED BY <1>2, <2>1, <2>2, IDFacts
<1>4. call[h].value # 0 => call[h].value \in disclosed
  BY <1>1 DEF HandlerOK
<1>5. call[h].origin # 0 => call[h].origin \in Carries(h)
  BY <1>2, Fields DEF Carries
<1> QED BY <1>1, <1>2, <1>3, <1>4, <1>5 DEF StoreOK, OnePlace, Carries

(* A handler that does not move still knows what it knew. *)
LEMMA OtherKeeps ==
    ASSUME Inductive, Frame, NEW k \in Procs, now' \in Nat,
           pc'[k] = pc[k], call'[k] = call[k], held'[k] = held[k], seen'[k] = seen[k]
    PROVE  HandlerOK(k)' /\ WorkOK(k)' /\ Carries(k)' = Carries(k)
<1>1. HandlerOK(k) /\ WorkOK(k)
  BY DEF Inductive
<1>2. CASE pc[k] = "idle"
  BY <1>2, IdleOK DEF Carries
<1>3. CASE pc[k] # "idle"
  <2>1. /\ call[k] \in Call /\ now \in Nat /\ call[k].started \in Nat
        /\ call[k].value # 0 =>
              call[k].value \in IDs /\ call[k].value < nextID /\ call[k].value \in disclosed
    BY <1>3, ValueFacts, Fields
  <2>2. call[k].value # 0 =>
           /\ lineage'[call[k].value] = lineage[call[k].value]
           /\ (call[k].value \in par' <=> call[k].value \in par)
           /\ call[k].value \in disclosed'
    BY <2>1 DEF Frame
  <2>3. Past(k)' = Past(k)
    BY <2>2 DEF Past
  <2>4. Reg(k)' = Reg(k) /\ \A reg : Permits(reg, k)' <=> Permits(reg, k)
    BY <2>3 DEF Frame, Reg, Permits
  <2>5. LoginFresh(k)' <=> LoginFresh(k)
    BY <2>3 DEF LoginFresh
  <2>6. call[k].started <= now'
    BY <1>1, <1>3, <2>1 DEF WorkOK, Frame
  <2>7. HandlerOK(k)'
    BY <1>1, <2>2 DEF HandlerOK
  <2>8. WorkOK(k)'
    BY <1>1, <2>3, <2>4, <2>5, <2>6 DEF WorkOK
  <2>9. Carries(k)' = Carries(k)
    BY <2>2 DEF Carries
  <2> QED BY <2>7, <2>8, <2>9
<1> QED BY <1>2, <1>3

(* Requests only leave the store. *)
Drops == \A v \in IDs : requests'[v] = NotFound \/ requests'[v] = requests[v]

(* Dropping requests and cookies keeps the store in order. *)
LEMMA StoreDrops ==
    ASSUME TypeOK, StoreOK, Drops, nextID' = nextID, par' = par, lineage' = lineage,
           disclosed' = disclosed, cookies' \subseteq cookies,
           \A v \in IDs : v >= nextID => answered'[v] = answered[v]
    PROVE  StoreOK'
<1>1. \A v \in IDs : Has(v)' => Has(v) /\ requests'[v] = requests[v]
  BY DEF Drops, Has
<1> QED BY <1>1 DEF StoreOK

(* The requests that somebody could answer when they left the store. *)
Freed == {v \in IDs : \E w \in Open : w \notin Open' /\ v \in Kept(w)}

(* Requests change places without being in two of them, or are answered. *)
LEMMA PlaceStep ==
    ASSUME TypeOK, OnePlace, NEW h \in Procs,
           \A k \in Procs \ {h} : Carries(k)' = Carries(k),
           Carries(h)' \subseteq Carries(h) \union Freed,
           disclosed \subseteq disclosed',
           \A v \in disclosed : Has(v)' => Has(v),
           \A w \in Open' : w \in Open /\ Kept(w)' = Kept(w),
           \A v \in IDs : \/ answered'[v] = answered[v]
                          \/ /\ answered'[v] = 1 /\ v \notin Carries(h)'
                             /\ v \in Carries(h) \union Freed
    PROVE  OnePlace'
<1> DEFINE Pool == Carries(h) \union Freed
<1>0. \A k \in Procs : Carries(k) \subseteq IDs
  BY DEF Carries
<1>1. ASSUME NEW k \in Procs \ {h} PROVE Pool \intersect Carries(k) = {}
  BY DEF OnePlace, Freed
<1>2. ASSUME NEW w \in Open' PROVE Pool \intersect Kept(w) = {}
  <2>1. w \in Open
    OBVIOUS
  <2>2. Carries(h) \intersect Kept(w) = {}
    BY <2>1 DEF OnePlace
  <2>3. Freed \intersect Kept(w) = {}
    BY <2>1 DEF OnePlace, Freed
  <2> QED BY <2>2, <2>3
<1>3. ASSUME NEW v \in Pool PROVE v \in disclosed /\ answered[v] = 0 /\ (v \notin Open' => ~Has(v)')
  BY <1>0 DEF OnePlace, Freed, Open
<1>4. ASSUME NEW v \in Freed PROVE v \notin Open'
  <2>1. PICK w \in Open : w \notin Open' /\ v \in Kept(w)
    BY DEF Freed
  <2>2. CASE v = w
    BY <2>1, <2>2
  <2>3. CASE v # w
    BY <2>1, <2>3 DEF OnePlace, Open
  <2> QED BY <2>2, <2>3
<1>5. ASSUME NEW v \in Carries(h) PROVE v \notin Open'
  BY DEF OnePlace, Open
<1>6. ASSUME NEW k \in Procs, NEW v \in Carries(k)'
      PROVE  v \in disclosed' /\ ~Has(v)' /\ answered'[v] = 0
  <2>1. CASE k = h
    BY <1>0, <1>3, <1>4, <1>5, <1>6, <2>1 DEF Freed
  <2>2. CASE k # h
    <3>1. v \in Carries(k) /\ v \in IDs /\ v \notin Pool
      BY <1>0, <1>1, <1>6, <2>2
    <3>2. answered'[v] = answered[v]
      BY <3>1
    <3> QED BY <3>1, <3>2 DEF OnePlace
  <2> QED BY <2>1, <2>2
<1>7. ASSUME NEW w \in Open', NEW v \in Kept(w)'
      PROVE  v \in disclosed' /\ (Has(v)' => v = w) /\ answered'[v] = 0
  <2>1. w \in Open /\ v \in Kept(w) /\ v \in IDs
    BY <1>7 DEF Kept
  <2>2. v \notin Pool
    BY <1>2, <2>1
  <2> QED BY <2>1, <2>2 DEF OnePlace
<1>8. ASSUME NEW k \in Procs, NEW l \in Procs, k # l
      PROVE  Carries(k)' \intersect Carries(l)' = {}
  BY <1>1, <1>8 DEF OnePlace
<1>9. ASSUME NEW k \in Procs, NEW w \in Open' PROVE Carries(k)' \intersect Kept(w)' = {}
  BY <1>2 DEF OnePlace
<1>10. ASSUME NEW u \in Open', NEW w \in Open', u # w
       PROVE  Kept(u)' \intersect Kept(w)' = {}
  BY <1>10 DEF OnePlace
<1>11. AtMostOneAnswer'
  BY DEF OnePlace, AtMostOneAnswer
<1> HIDE DEF Pool
<1> QED BY <1>6, <1>7, <1>8, <1>9, <1>10, <1>11 DEF OnePlace

(* Saved requests that leave the store, or that a handler has in its hands.*)
LEMMA SavedStep ==
    ASSUME Inductive, NEW h \in Procs, Only(h),
           \A v \in disclosed' \ par' : Has(v)' \/ v \in disclosed \ par,
           \A v \in disclosed : lineage'[v] = lineage[v],
           now' = now, lost \subseteq lost',
           \A v \in IDs : answered[v] = 1 => answered'[v] = 1,
           \A v \in disclosed \ par : (Has(v) /\ ~Has(v)') =>
              \/ answered'[v] = 1 \/ now > lineage[v].expire \/ v \in lost'
              \/ pc'[h] = "code" /\ call'[h].value = v,
           (pc[h] = "code" /\ call[h].value # 0) =>
              \/ answered'[call[h].value] = 1 \/ call[h].value \in lost'
              \/ pc'[h] = "code" /\ call'[h].value = call[h].value
    PROVE  SavedRequestsAreAnswered'
<1> SUFFICES ASSUME NEW v \in disclosed \ par, ~Has(v)'
             PROVE  \/ answered'[v] = 1 \/ now > lineage[v].expire \/ v \in lost'
                    \/ \E k \in Procs : pc'[k] = "code" /\ call'[k].value = v
  BY DEF SavedRequestsAreAnswered, At
<1>1. v \in IDs /\ v # 0
  BY IDFacts DEF Inductive, TypeOK
<1>2. CASE Has(v)
  BY <1>2
<1>3. CASE ~Has(v)
  <2>1. \/ answered[v] = 1 \/ now > lineage[v].expire \/ v \in lost
        \/ \E k \in Procs : pc[k] = "code" /\ call[k].value = v
    BY <1>3 DEF Inductive, SavedRequestsAreAnswered, At
  <2> QED BY <1>1, <2>1 DEF Only
<1> QED BY <1>2, <1>3

(* The invariant is kept when its parts are. *)
LEMMA Assemble ==
    ASSUME Inductive, NEW h \in Procs, Only(h), Frame, HandlerTypes', StoreTypes',
           StoreOK', OnePlace', SavedRequestsAreAnswered', HandlerOK(h)', WorkOK(h)'
    PROVE  Inductive'
<1>1. now' \in Nat
  BY DEF StoreTypes
<1>2. \A k \in Procs \ {h} : HandlerOK(k)' /\ WorkOK(k)'
  BY <1>1, OtherKeeps DEF Only
<1> QED BY <1>2, TypeJoin DEF Inductive

(* A step that concerns only its handler. *)
LEMMA QuietStep ==
    ASSUME Inductive, NEW h \in Procs, Only(h), HandlerTypes',
           UNCHANGED <<store, world, history>>,
           HandlerOK(h)', WorkOK(h)', Carries(h)' \subseteq Carries(h),
           pc[h] = "code" => call[h].value = 0 \/ (pc'[h] = "code" /\ call'[h] = call[h])
    PROVE  Inductive'
<1>0. TypeOK /\ StoreOK /\ OnePlace /\ now \in Int /\ nextID \in Int /\ StoreTypes
  BY TypeParts DEF Inductive, TypeOK
<1>1. /\ requests' = requests /\ par' = par /\ lastCollection' = lastCollection
      /\ nextID' = nextID /\ now' = now /\ clients' = clients /\ cookies' = cookies
      /\ disclosed' = disclosed /\ lineage' = lineage /\ answered' = answered /\ lost' = lost
  BY DEF store, world, history
<1>2. Frame
  BY <1>0, <1>1 DEF Frame
<1>3. StoreTypes'
  BY <1>0, <1>1 DEF StoreTypes
<1>4. StoreOK'
  BY <1>0, <1>1 DEF StoreOK, Has
<1>5. \A k \in Procs \ {h} : Carries(k)' = Carries(k)
  BY <1>0, <1>1, <1>2, OtherKeeps DEF Only, StoreTypes
<1>6. OnePlace'
  <2>1. Open' = Open /\ \A w : Kept(w)' = Kept(w)
    BY <1>1 DEF Open, Kept, Has
  <2>2. \A v : Has(v)' => Has(v)
    BY <1>1 DEF Has
  <2> QED BY <1>0, <1>1, <1>5, <2>1, <2>2, PlaceStep
<1>7. SavedRequestsAreAnswered'
  <2>1. \A v : Has(v)' <=> Has(v)
    BY <1>1 DEF Has
  <2> QED BY <1>1, <2>1, SavedStep
<1> QED BY <1>2, <1>3, <1>4, <1>6, <1>7, Assemble

(* What a handler alone can answer is unanswered. *)
LEMMA PoolFacts ==
    ASSUME Inductive, NEW h \in Procs, NEW v \in Carries(h) \union Freed
    PROVE  v \in IDs /\ v \in disclosed /\ v < nextID /\ answered[v] = 0
<1>1. v \in IDs /\ v \in disclosed /\ answered[v] = 0
  BY DEF Inductive, OnePlace, Carries, Freed
<1>2. ~(v >= nextID) /\ nextID \in Int
  BY <1>1 DEF Inductive, StoreOK, TypeOK
<1> QED BY <1>1, <1>2, IDFacts

(* A response about requests that only handler h can answer. *)
LEMMA AnsweredStep ==
    ASSUME Inductive, NEW h \in Procs, NEW v, NEW o, Answered(v, o),
           {v, o} \subseteq Carries(h) \union Freed \union {0}
    PROVE  /\ answered' \in [IDs -> Nat]
           /\ \A w \in IDs : \/ answered'[w] = answered[w]
                             \/ answered'[w] = 1 /\ w \in Carries(h) \union Freed
           /\ \A w \in {v, o} \ {0} : answered'[w] = 1
<1>1. answered \in [IDs -> Nat]
  BY DEF Inductive, TypeOK
<1>2. ASSUME NEW w \in IDs
      PROVE  answered'[w] = IF w \in {v, o} THEN answered[w] + 1 ELSE answered[w]
  BY <1>1 DEF Answered
<1>3. ASSUME NEW w \in {v, o}, w # 0
      PROVE  w \in IDs /\ answered[w] = 0 /\ w \in Carries(h) \union Freed
  BY <1>3, PoolFacts
<1>4. answered' = [w \in IDs |-> IF w \in {v, o} THEN answered[w] + 1 ELSE answered[w]]
  BY <1>1 DEF Answered
<1> QED BY <1>1, <1>2, <1>3, <1>4, IDFacts

(* The last step of a handler: requests may leave the store, and those     *)
(* that only this handler can answer are answered.                         *)
LEMMA EndStep ==
    ASSUME Inductive, NEW h \in Procs, Finish(h), Drops,
           requests' \in [IDs -> Record \union {NotFound}], lastCollection' \in Int,
           nextID' = nextID, par' = par, now' = now, clients' = clients,
           disclosed' = disclosed, lineage' = lineage, cookies' \subseteq cookies,
           lost \subseteq lost', lost' \subseteq IDs, answered' \in [IDs -> Nat],
           \A v \in IDs : \/ answered'[v] = answered[v]
                          \/ answered'[v] = 1 /\ v \in Carries(h) \union Freed,
           \A v \in disclosed \ par : (Has(v) /\ ~Has(v)') =>
              answered'[v] = 1 \/ now > lineage[v].expire \/ v \in lost',
           (pc[h] = "code" /\ call[h].value # 0) =>
              answered'[call[h].value] = 1 \/ call[h].value \in lost'
    PROVE  Inductive'
<1>0. TypeOK /\ StoreOK /\ OnePlace /\ StoreTypes /\ HandlerTypes
      /\ now \in Int /\ nextID \in Int
  BY TypeParts DEF Inductive, TypeOK
<1>1. Only(h) /\ pc'[h] = "idle" /\ HandlerTypes'
  BY <1>0, FinishStep
<1>2. HandlerOK(h)' /\ WorkOK(h)' /\ Carries(h)' = {}
  BY <1>1, IdleOK
<1>3. Frame /\ now' \in Nat
  BY <1>0 DEF Frame, StoreTypes
<1>4. StoreTypes'
  BY <1>0 DEF StoreTypes
<1>5. StoreOK'
  <2>1. \A v \in IDs : v >= nextID => answered'[v] = answered[v]
    <3> SUFFICES ASSUME NEW v \in IDs, v >= nextID PROVE answered'[v] = answered[v]
      OBVIOUS
    <3>1. v \notin disclosed
      BY <1>0 DEF StoreOK
    <3> QED BY <3>1, PoolFacts
  <2> QED BY <1>0, <2>1, StoreDrops
<1>6. \A k \in Procs \ {h} : Carries(k)' = Carries(k)
  BY <1>1, <1>3, OtherKeeps DEF Only
<1>7. OnePlace'
  <2>1. \A v \in IDs : Has(v)' => Has(v)
    BY DEF Drops, Has
  <2>2. \A w \in Open' : w \in Open /\ Kept(w)' = Kept(w)
    BY <1>0, <2>1 DEF Open, Kept, TypeOK
  <2>3. \A v \in disclosed : Has(v)' => Has(v)
    BY <1>0, <2>1 DEF TypeOK
  <2> QED BY <1>0, <1>2, <1>6, <2>2, <2>3, PlaceStep
<1>8. SavedRequestsAreAnswered'
  BY <1>1, SavedStep
<1> QED BY <1>1, <1>2, <1>3, <1>4, <1>5, <1>7, <1>8, Assemble

(* A handler that just ends, with nothing in its hands. *)
LEMMA QuietEnd ==
    ASSUME Inductive, NEW h \in Procs, Finish(h), UNCHANGED <<store, world, history>>,
           pc[h] # "code"
    PROVE  Inductive'
<1>1. HandlerTypes
  BY TypeParts DEF Inductive
<1> QED BY <1>1, FinishStep, IdleOK, QuietStep

------------------------------------------------------------------------------
(* Requests arrive. *)

(* The record of a request that the provider parsed. *)
LEMMA ParsedType ==
    ASSUME TypeOK, NEW i \in Issuers, NEW c \in ClientIDs, NEW reg \in Registrations,
           NEW p \in Params, NEW pushed \in BOOLEAN, parseable(reg, p, pushed)
    PROVE  parsed(i, c, reg, p, pushed) \in Record
<1>1. p \in Param /\ reg \in Registration /\ now \in Nat /\ RequestLifetime \in Nat
  BY ConstantsAssumption DEF TypeOK
<1>2. reg.redirects \subseteq Redirects /\ p.redirect \in Redirects \union {NoRedirect}
      /\ p.scopes \subseteq Scopes /\ reg.audience \subseteq Audiences
      /\ p.challenge \in BOOLEAN /\ p.nonce \in BOOLEAN /\ p.login \in BOOLEAN
      /\ p.maxAge \in Nat \union {None}
  BY <1>1 DEF Param, Registration
<1>3. target(reg, p) \in Redirects \union {NoRedirect}
  <2>1. CASE p.redirect = NoRedirect
    <3>1. reg.redirects # {}
      BY <2>1, FS_EmptySet DEF parseable, redirectAllowed
    <3> QED BY <1>2, <2>1, <3>1 DEF target
  <2>2. CASE p.redirect # NoRedirect
    BY <1>2, <2>2 DEF target
  <2> QED BY <2>1, <2>2
<1> QED BY <1>1, <1>2, <1>3 DEF parsed, Record

(* A new call. *)
LEMMA NewCallType ==
    ASSUME TypeOK, NEW op \in {"push", "choose", "redeem", "approve", "deny"},
           NEW ua \in Agents \union {None}, NEW i \in Issuers,
           NEW c \in ClientIDs \union {None}, NEW v \in IDs \union {0}
    PROVE  LET k == NewCall(op, ua, i, c, v) IN
           /\ k \in Call /\ k.op = op /\ k.value = v /\ k.origin = 0 /\ k.started = now
           /\ k.agent = ua
  BY DEF NewCall, Call, TypeOK

(* A handler that begins. *)
LEMMA BeginStep ==
    ASSUME Inductive, NEW h \in Procs, NEW label \in {"held", "load"}, NEW k \in Call,
           NEW r \in Record \union {NotFound}, Begin(h, label, k, r),
           UNCHANGED <<store, world, history, seen>>,
           k.origin = 0, k.started = now, k.op # "push" => k.agent \in Agents,
           label = "held" => /\ k.op \in {"push", "choose"} /\ k.value = 0
                             /\ r \in Record /\ r.createdAt = now,
           label = "load" => /\ k.op \in {"redeem", "approve", "deny"}
                             /\ k.value \in disclosed /\ k.value # 0
    PROVE  Inductive'
<1>0. TypeOK /\ HandlerTypes /\ now \in Nat
  BY TypeParts DEF Inductive, TypeOK
<1>1. /\ Only(h) /\ HandlerTypes' /\ pc[h] = "idle"
      /\ pc'[h] = label /\ call'[h] = k /\ held'[h] = r
  BY <1>0 DEF HandlerTypes, Only, Begin, At, PCs
<1>2. now' = now /\ disclosed' = disclosed
  BY DEF world
<1>3. HandlerOK(h)'
  BY <1>1, <1>2 DEF HandlerOK
<1>4. WorkOK(h)'
  BY <1>0, <1>1, <1>2 DEF WorkOK
<1>5. Carries(h)' = {}
  BY <1>1, IDFacts DEF Carries
<1> QED BY <1>1, <1>3, <1>4, <1>5, QuietStep

(* Arrivals keep the invariant. *)
LEMMA ArriveInductive ==
    ASSUME Inductive, NEW h \in Procs, Arrive(h)
    PROVE  Inductive'
<1>0. TypeOK
  BY DEF Inductive
<1>1. CASE BeginPush(h)
  <2>1. PICK i \in Issuers, c \in ClientIDs, p \in Params :
          /\ parseable(clients[<<i, c>>], p, TRUE)
          /\ Begin(h, "held", NewCall("push", None, i, c, 0),
                   parsed(i, c, clients[<<i, c>>], p, TRUE))
    BY <1>1 DEF BeginPush
  <2>2. clients[<<i, c>>] \in Registrations
    BY <1>0 DEF TypeOK
  <2>3. parsed(i, c, clients[<<i, c>>], p, TRUE) \in Record
    BY <1>0, <2>1, <2>2, ParsedType
  <2>4. parsed(i, c, clients[<<i, c>>], p, TRUE).createdAt = now
    BY DEF parsed
  <2>5. UNCHANGED <<store, world, history, seen>>
    BY <1>1 DEF BeginPush
  <2> DEFINE k == NewCall("push", None, i, c, 0)
             r == parsed(i, c, clients[<<i, c>>], p, TRUE)
  <2>6. k \in Call /\ k.op = "push" /\ k.value = 0 /\ k.origin = 0 /\ k.started = now
    BY <1>0, NewCallType
  <2> HIDE DEF k, r
  <2>7. Begin(h, "held", k, r) /\ r \in Record /\ r.createdAt = now
    BY <2>1, <2>3, <2>4 DEF k, r
  <2> QED BY <2>5, <2>6, <2>7, BeginStep
<1>2. CASE BeginAuthorize(h)
  <2>1. PICK ua \in Agents, i \in Issuers, c \in ClientIDs, p \in Params :
          /\ parseable(clients[<<i, c>>], p, FALSE)
          /\ Begin(h, "held", NewCall("choose", ua, i, c, 0),
                   parsed(i, c, clients[<<i, c>>], p, FALSE))
    BY <1>2 DEF BeginAuthorize
  <2>2. clients[<<i, c>>] \in Registrations
    BY <1>0 DEF TypeOK
  <2>3. parsed(i, c, clients[<<i, c>>], p, FALSE) \in Record
    BY <1>0, <2>1, <2>2, ParsedType
  <2>4. parsed(i, c, clients[<<i, c>>], p, FALSE).createdAt = now
    BY DEF parsed
  <2>5. UNCHANGED <<store, world, history, seen>>
    BY <1>2 DEF BeginAuthorize
  <2> DEFINE k == NewCall("choose", ua, i, c, 0)
             r == parsed(i, c, clients[<<i, c>>], p, FALSE)
  <2>6. k \in Call /\ k.op = "choose" /\ k.value = 0 /\ k.origin = 0 /\ k.started = now
        /\ k.agent = ua
    BY <1>0, NewCallType
  <2> HIDE DEF k, r
  <2>7. Begin(h, "held", k, r) /\ r \in Record /\ r.createdAt = now
    BY <2>1, <2>3, <2>4 DEF k, r
  <2> QED BY <2>5, <2>6, <2>7, BeginStep
<1>3. CASE BeginRedeem(h) \/ BeginComplete(h)
  <2>1. PICK op \in {"redeem", "approve", "deny"}, ua \in Agents, i \in Issuers,
             c \in ClientIDs \union {None}, v \in disclosed :
               Begin(h, "load", NewCall(op, ua, i, c, v), NotFound)
    BY <1>3 DEF BeginRedeem, BeginComplete
  <2>2. v \in IDs /\ v # 0
    BY <1>0, IDFacts DEF TypeOK
  <2>3. UNCHANGED <<store, world, history, seen>>
    BY <1>3 DEF BeginRedeem, BeginComplete
  <2> QED BY <1>0, <2>1, <2>2, <2>3, NewCallType, BeginStep
<1> QED BY <1>1, <1>2, <1>3 DEF Arrive

------------------------------------------------------------------------------
(* The application works on an unsaved request. *)

(* A handler's registration. *)
LEMMA RegType ==
    ASSUME TypeOK, NEW h \in Procs, call[h] \in Call, held[h] \in Record
    PROVE  Reg(h) \in Registrations
  BY Fields DEF Reg, TypeOK

(* The application changes a request; its timestamps stay. *)
LEMMA AdjustInductive ==
    ASSUME Inductive, NEW h \in Procs, Adjust(h)
    PROVE  Inductive'
<1>0. TypeOK /\ HandlerTypes /\ HandlerOK(h) /\ WorkOK(h)
  BY TypeParts DEF Inductive
<1>1. pc[h] = "held" /\ held[h] \in Record
  BY <1>0 DEF Adjust, At, HandlerOK
<1>2. PICK p \in Param, c \in ClientIDs, a \in SUBSET Audiences, b \in BOOLEAN :
        held' = [held EXCEPT ![h] =
            [@ EXCEPT !.client = c, !.redirect = p.redirect, !.scopes = p.scopes,
                      !.audience = a, !.challenge = p.challenge,
                      !.nonce = p.nonce, !.login = p.login,
                      !.maxAge = p.maxAge, !.pushed = b]]
  BY ConstantsAssumption DEF Adjust
<1> DEFINE r == [held[h] EXCEPT !.client = c, !.redirect = p.redirect, !.scopes = p.scopes,
                      !.audience = a, !.challenge = p.challenge,
                      !.nonce = p.nonce, !.login = p.login,
                      !.maxAge = p.maxAge, !.pushed = b]
<1>3. r \in Record /\ r.createdAt = held[h].createdAt
  BY <1>1 DEF Record, Param
<1> HIDE DEF r
<1>4. held' = [held EXCEPT ![h] = r]
  BY <1>2 DEF r
<1>5. /\ Only(h) /\ HandlerTypes' /\ held'[h] = r
      /\ pc' = pc /\ call' = call /\ seen' = seen
  BY <1>0, <1>3, <1>4 DEF Adjust, HandlerTypes, Only
<1>6. now' = now /\ UNCHANGED <<store, world, history>> /\ disclosed' = disclosed /\ par' = par
      /\ lineage' = lineage
  BY DEF Adjust, world, store, history
<1>7. HandlerOK(h)'
  BY <1>0, <1>3, <1>5, <1>6 DEF HandlerOK
<1>8. WorkOK(h)'
  BY <1>0, <1>1, <1>3, <1>5, <1>6 DEF WorkOK, HandlerOK
<1>9. Carries(h)' = Carries(h)
  BY <1>5, <1>6 DEF Carries
<1> QED BY <1>1, <1>5, <1>6, <1>7, <1>8, <1>9, QuietStep

(* PushAuthorizationRequest. *)
LEMMA PushInductive ==
    ASSUME Inductive, NEW h \in Procs, Push(h)
    PROVE  Inductive'
<1>0. TypeOK /\ HandlerTypes /\ HandlerOK(h) /\ WorkOK(h)
  BY TypeParts DEF Inductive
<1>1. /\ pc[h] = "held" /\ pc'[h] = "check" /\ call' = call /\ held' = held /\ seen' = seen
      /\ Only(h) /\ HandlerTypes' /\ call[h].op = "push"
  BY <1>0 DEF Push, At, Goto, HandlerTypes, Only, PCs
<1>2. now' = now /\ UNCHANGED <<store, world, history>> /\ disclosed' = disclosed /\ par' = par
      /\ lineage' = lineage
  BY DEF Push, world, store, history
<1>3. HandlerOK(h)'
  BY <1>0, <1>1, <1>2 DEF HandlerOK
<1>4. WorkOK(h)'
  BY <1>0, <1>1, <1>2 DEF WorkOK, HandlerOK
<1>5. Carries(h)' = Carries(h)
  BY <1>1, <1>2 DEF Carries
<1> QED BY <1>1, <1>2, <1>3, <1>4, <1>5, QuietStep

(* SaveAuthorizationRequest, Approve and Deny of an unsaved request. *)
LEMMA ChooseInductive ==
    ASSUME Inductive, NEW h \in Procs, NEW op \in {"save", "approve", "deny"}, Choose(h, op)
    PROVE  Inductive'
<1>0. TypeOK /\ HandlerTypes /\ HandlerOK(h) /\ WorkOK(h)
  BY TypeParts DEF Inductive
<1>1. /\ pc[h] = "held" /\ call[h] \in Call /\ held[h] \in Record /\ call[h].value = 0
      /\ call[h].started <= now /\ call[h].started <= held[h].createdAt
      /\ held[h].pushed = (call[h].origin # 0) /\ call[h].agent \in Agents
  BY <1>0 DEF Choose, At, HandlerOK, WorkOK, checkUnsaved
<1> DEFINE k == [call[h] EXCEPT !.op = op]
<1>2. /\ k \in Call /\ k.op = op /\ k.value = 0 /\ k.origin = call[h].origin
      /\ k.started = call[h].started /\ k.agent = call[h].agent /\ k.issuer = call[h].issuer
  BY <1>1 DEF Call
<1> HIDE DEF k
<1>3. call' = [call EXCEPT ![h] = k]
  BY DEF Choose, k
<1>4. Reg(h) \in Registrations
  BY <1>0, <1>1, RegType
<1>5. /\ pc'[h] = "check" /\ call'[h] = k /\ held' = held /\ seen'[h] = {Reg(h)}
      /\ Only(h) /\ HandlerTypes'
  BY <1>0, <1>2, <1>3, <1>4 DEF Choose, HandlerTypes, Only, PCs
<1>6. now' = now /\ UNCHANGED <<store, world, history>> /\ clients' = clients
      /\ lineage' = lineage
  BY DEF Choose, world, store, history
<1>7. HandlerOK(h)'
  BY <1>1, <1>2, <1>5 DEF HandlerOK
<1>8. WorkOK(h)'
  <2>1. Past(h)'.started = call[h].started /\ Past(h)'.agent = call[h].agent
        /\ Past(h)'.origin = call[h].origin
    BY <1>2, <1>5 DEF Past
  <2>2. Reg(h)' = Reg(h)
    BY <1>2, <1>5, <1>6 DEF Reg
  <2> QED BY <1>1, <1>2, <1>5, <1>6, <2>1, <2>2 DEF WorkOK
<1>9. Carries(h)' = Carries(h)
  BY <1>1, <1>2, <1>5, <1>6 DEF Carries
<1> QED BY <1>1, <1>5, <1>6, <1>7, <1>8, <1>9, QuietStep

------------------------------------------------------------------------------
(* Loading and checking. *)

(* A stored request is loaded. *)
LEMMA LoadInductive ==
    ASSUME Inductive, NEW h \in Procs, LoadFinds(h)
    PROVE  Inductive'
<1>0. TypeOK /\ HandlerTypes /\ HandlerOK(h) /\ WorkOK(h) /\ StoreOK
  BY TypeParts DEF Inductive
<1> DEFINE k == call[h]
           v == call[h].value
           r == requests[v]
<1>1. pc[h] = "load" /\ loadable(h)
  BY DEF LoadFinds, At
<1>2. /\ k \in Call /\ v \in IDs /\ v \in disclosed /\ k.origin = 0 /\ k.started <= now
      /\ v # 0 /\ k.op \in {"redeem", "approve", "deny"} /\ k.agent \in Agents
  BY <1>0, <1>1, ValueFacts DEF HandlerOK, WorkOK
<1>3. /\ r \in Record /\ (v \in par <=> k.op = "redeem")
      /\ k.op # "redeem" => (r.bound => <<k.agent, v>> \in cookies)
  BY <1>0, <1>1, <1>2 DEF loadable, Has, TypeOK
<1>4. clients[<<k.issuer, r.client>>] \in Registrations
  BY <1>0, <1>2, <1>3, Fields DEF TypeOK
<1>5. /\ pc'[h] = IF k.op = "redeem" THEN "delete" ELSE "check"
      /\ call' = call /\ held'[h] = r /\ seen'[h] = {clients[<<k.issuer, r.client>>]}
      /\ Only(h) /\ HandlerTypes'
  BY <1>0, <1>3, <1>4 DEF LoadFinds, HandlerTypes, Only, PCs
<1>6. now' = now /\ UNCHANGED <<store, world, history>> /\ clients' = clients
      /\ lineage' = lineage /\ disclosed' = disclosed /\ par' = par
  BY DEF LoadFinds, world, store, history
<1>7. HandlerOK(h)'
  BY <1>0, <1>2, <1>3, <1>5, <1>6 DEF HandlerOK
<1>8. WorkOK(h)'
  <2>1. Past(h)' = lineage[v]
    BY <1>2, <1>5, <1>6 DEF Past
  <2>2. Reg(h)' \in seen'[h]
    BY <1>5, <1>6 DEF Reg
  <2>3. /\ lineage[v].started <= r.createdAt
        /\ k.op # "redeem" => /\ r.pushed = (lineage[v].origin # 0)
                              /\ r.bound = Binding
    BY <1>0, <1>1, <1>2, <1>3 DEF StoreOK, loadable
  <2>4. k.op # "redeem" /\ Binding => k.agent = lineage[v].agent
    <3> SUFFICES ASSUME k.op # "redeem", Binding PROVE k.agent = lineage[v].agent
      OBVIOUS
    <3>1. <<k.agent, v>> \in cookies
      BY <1>3, <2>3
    <3>2. <<k.agent, v>>[2] = v /\ <<k.agent, v>>[1] = k.agent
      OBVIOUS
    <3> QED BY <1>0, <3>1, <3>2 DEF StoreOK
  <2> QED BY <1>2, <1>5, <1>6, <2>1, <2>2, <2>3, <2>4 DEF WorkOK
<1>9. Carries(h)' = Carries(h)
  BY <1>1, <1>2, <1>5, <1>6 DEF Carries
<1> QED BY <1>1, <1>5, <1>6, <1>7, <1>8, <1>9, QuietStep

(* The registration allows a push or a save. *)
LEMMA AcceptInductive ==
    ASSUME Inductive, NEW h \in Procs, Accept(h)
    PROVE  Inductive'
<1>0. TypeOK /\ HandlerTypes /\ HandlerOK(h) /\ WorkOK(h) /\ now \in Nat
  BY TypeParts DEF Inductive, TypeOK
<1> DEFINE k == call[h]
           r == IF k.op = "push" THEN stamped(held[h]) ELSE [held[h] EXCEPT !.bound = Binding]
<1>1. /\ pc[h] = "check" /\ k \in Call /\ held[h] \in Record
      /\ k.op \in {"push", "save"} /\ k.value = 0 /\ (k.op # "push" => k.agent \in Agents)
  BY <1>0 DEF Accept, At, HandlerOK
<1>2. /\ r \in Record
      /\ k.op = "push" => r.createdAt = now /\ ~r.bound
      /\ k.op = "save" => /\ r.createdAt = held[h].createdAt /\ r.bound = Binding
                          /\ r.pushed = held[h].pushed
  <2> DEFINE p == stamped(held[h])
             q == [held[h] EXCEPT !.bound = Binding]
  <2>1. now + PushedLifetime \in Nat /\ Binding \in BOOLEAN
    BY <1>0, ConstantsAssumption
  <2>2. p \in Record /\ p.createdAt = now /\ ~p.bound
    BY <1>0, <1>1, <2>1 DEF stamped, Record
  <2>3. q \in Record /\ q.createdAt = held[h].createdAt /\ q.bound = Binding
        /\ q.pushed = held[h].pushed
    BY <1>1, <2>1 DEF Record
  <2> HIDE DEF p, q
  <2>4. r = IF k.op = "push" THEN p ELSE q
    BY DEF p, q
  <2> QED BY <1>1, <2>2, <2>3, <2>4
<1>3. held' = [held EXCEPT ![h] = r]
  BY DEF Accept
<1> HIDE DEF r
<1>4. /\ pc'[h] = "create" /\ call' = call /\ held'[h] = r /\ seen' = seen
      /\ Only(h) /\ HandlerTypes'
  BY <1>0, <1>2, <1>3 DEF Accept, HandlerTypes, Only, PCs
<1>5. now' = now /\ UNCHANGED <<store, world, history>> /\ lineage' = lineage
  BY DEF Accept, world, store, history
<1>6. HandlerOK(h)'
  BY <1>1, <1>2, <1>4 DEF HandlerOK
<1>7. WorkOK(h)'
  <2>1. /\ Past(h)'.started = k.started /\ Past(h)'.origin = k.origin
        /\ Past(h)'.agent = k.agent
        /\ Past(h).started = k.started /\ Past(h).origin = k.origin
    BY <1>1, <1>4 DEF Past
  <2> QED BY <1>0, <1>1, <1>2, <1>4, <1>5, <2>1 DEF WorkOK
<1>8. Carries(h)' = Carries(h)
  BY <1>1, <1>4, <1>5 DEF Carries
<1> QED BY <1>1, <1>4, <1>5, <1>6, <1>7, <1>8, QuietStep

(* Approve: the registration allows the request, the login is recent. *)
LEMMA ApprovalInductive ==
    ASSUME Inductive, NEW h \in Procs, AcceptApproval(h)
    PROVE  Inductive'
<1>0. TypeOK /\ HandlerTypes /\ HandlerOK(h) /\ WorkOK(h) /\ now \in Nat
  BY TypeParts DEF Inductive, TypeOK
<1> DEFINE r == held[h]
<1>1. /\ pc[h] = "check" /\ call[h] \in Call /\ r \in Record
      /\ call[h].op = "approve" /\ checkRequest(Reg(h), r)
  BY <1>0 DEF AcceptApproval, At, HandlerOK
<1>2. PICK s \in SUBSET Scopes, a \in SUBSET Audiences, auth \in 0 .. now + 1 :
        /\ validateApproval(r, s, a, auth)
        /\ call' = [call EXCEPT ![h].scopes = s, ![h].audience = a, ![h].auth = auth]
  BY DEF AcceptApproval
<1> DEFINE k == [call[h] EXCEPT !.scopes = s, !.audience = a, !.auth = auth]
<1>3. /\ k \in Call /\ k.op = "approve" /\ k.value = call[h].value
      /\ k.origin = call[h].origin /\ k.started = call[h].started
      /\ k.agent = call[h].agent /\ k.issuer = call[h].issuer
      /\ k.scopes = s /\ k.audience = a /\ k.auth = auth
  <2>1. auth \in Nat
    BY <1>0
  <2>2. k \in Call
    BY <1>1, <2>1 DEF Call
  <2>3. /\ k.op = "approve" /\ k.value = call[h].value
        /\ k.origin = call[h].origin /\ k.started = call[h].started
        /\ k.agent = call[h].agent /\ k.issuer = call[h].issuer
        /\ k.scopes = s /\ k.audience = a /\ k.auth = auth
    BY <1>1 DEF Call
  <2> HIDE DEF k
  <2> QED BY <2>2, <2>3
<1>4. call' = [call EXCEPT ![h] = k]
  BY <1>0, <1>2 DEF HandlerTypes
<1> HIDE DEF k
<1>5. /\ pc'[h] = IF call[h].value = 0 THEN "code" ELSE "delete"
      /\ call'[h] = k /\ held' = held /\ seen' = seen
      /\ Only(h) /\ HandlerTypes'
  BY <1>0, <1>3, <1>4 DEF AcceptApproval, HandlerTypes, Only, PCs
<1>6. now' = now /\ UNCHANGED <<store, world, history>> /\ lineage' = lineage
      /\ disclosed' = disclosed /\ par' = par
  BY DEF AcceptApproval, world, store, history
<1>7. HandlerOK(h)'
  BY <1>0, <1>1, <1>3, <1>5, <1>6 DEF HandlerOK
<1>8. /\ Past(h)'.started = Past(h).started /\ Past(h)'.origin = Past(h).origin
      /\ Past(h)'.agent = Past(h).agent
  BY <1>3, <1>5, <1>6 DEF Past
<1>9. /\ Past(h).started <= r.createdAt /\ Past(h).started \in Nat
      /\ r.pushed = (Past(h).origin # 0)
      /\ Binding => call[h].agent = Past(h).agent
      /\ call[h].started <= now /\ call[h].started \in Nat
      /\ Reg(h) \in seen[h]
      /\ r.createdAt \in Nat /\ r.maxAge \in Nat \union {None}
  <2>1. Past(h).started \in Nat
    <3>1. call[h].value # 0 => lineage[call[h].value] \in Origin
      BY <1>1, ValueFacts
    <3>2. call[h].started \in Nat
      BY <1>1, Fields
    <3> QED BY <3>1, <3>2, Fields DEF Past
  <2> QED BY <1>0, <1>1, <2>1, Fields DEF WorkOK
<1>10. LoginFresh(h)'
  <2> SUFFICES ASSUME "openid" \in r.scopes
               PROVE  /\ r.login \/ r.maxAge = 0 => auth >= Past(h).started
                      /\ r.maxAge \notin {None, 0} => auth + r.maxAge >= call[h].started
    BY <1>3, <1>5, <1>8 DEF LoginFresh
  <2>1. ~needsAuthentication(r, auth)
    BY <1>2 DEF validateApproval
  <2>2. (r.login \/ r.maxAge = 0) => ~(auth < r.createdAt)
    BY <2>1 DEF needsAuthentication
  <2>3. r.maxAge \notin {None, 0} => ~(now - auth > r.maxAge)
    BY <2>1 DEF needsAuthentication
  <2>4. auth \in Int
    BY <1>0
  <2>5. (r.login \/ r.maxAge = 0) => auth >= Past(h).started
    BY <1>9, <2>2, <2>4
  <2>6. r.maxAge \notin {None, 0} => auth + r.maxAge >= call[h].started
    BY <1>0, <1>9, <2>3, <2>4
  <2> QED BY <2>5, <2>6
<1>11. Permits(Reg(h), h)'
  <2>1. Permits(Reg(h), h)' <=>
          LET reg == Reg(h)' IN
          /\ reg.code
          /\ r.redirect \in reg.redirects
          /\ s \subseteq reg.scopes
          /\ a \subseteq reg.audience
          /\ parRequired(reg) => Past(h).origin # 0
          /\ reg.pkce = "required" => r.challenge
    BY <1>3, <1>5, <1>8 DEF Permits
  <2>2. Reg(h)' = Reg(h)
    BY <1>3, <1>5 DEF Reg, AcceptApproval, world
  <2>3. s \subseteq r.scopes /\ a \subseteq r.audience
    BY <1>2 DEF validateApproval
  <2> QED BY <1>1, <1>9, <2>1, <2>2, <2>3 DEF checkRequest, checkDelivery, checkPKCEPolicy
<1>12. \E reg \in seen'[h] : Permits(reg, h)'
  <2>1. Reg(h)' = Reg(h)
    BY <1>3, <1>5 DEF Reg, AcceptApproval, world
  <2> QED BY <1>5, <1>9, <1>11, <2>1 DEF Permits
<1>13. WorkOK(h)'
  BY <1>0, <1>1, <1>3, <1>5, <1>6, <1>8, <1>9, <1>10, <1>12 DEF WorkOK
<1>14. Carries(h)' = Carries(h)
  BY <1>1, <1>3, <1>5, <1>6, IDFacts DEF Carries
<1> QED BY <1>1, <1>5, <1>6, <1>7, <1>13, <1>14, QuietStep

(* What an answer about the origin of an unsaved request may count. *)
LEMMA OriginPool ==
    ASSUME Inductive, NEW h \in Procs, pc[h] # "idle"
    PROVE  call[h].origin \in Carries(h) \union {0}
  BY ValueFacts DEF Carries

(* A denial of an unsaved request, or the way to one of a saved request. *)
LEMMA DenialInductive ==
    ASSUME Inductive, NEW h \in Procs, AcceptDenial(h)
    PROVE  Inductive'
<1>0. TypeOK /\ HandlerTypes /\ HandlerOK(h) /\ WorkOK(h) /\ StoreTypes
  BY TypeParts DEF Inductive
<1>1. pc[h] = "check" /\ call[h].op = "deny"
  BY DEF AcceptDenial, At
<1>2. CASE call[h].value # 0
  <2>1. /\ pc'[h] = "delete" /\ call' = call /\ held' = held /\ seen' = seen
        /\ Only(h) /\ HandlerTypes'
    BY <1>0, <1>2 DEF AcceptDenial, Goto, HandlerTypes, Only, PCs
  <2>2. now' = now /\ UNCHANGED <<store, world, history>> /\ lineage' = lineage
        /\ disclosed' = disclosed /\ par' = par
    BY <1>2 DEF AcceptDenial, world, store, history
  <2>3. HandlerOK(h)'
    BY <1>0, <1>1, <1>2, <2>1, <2>2 DEF HandlerOK
  <2>4. Past(h)' = Past(h)
    BY <2>1, <2>2 DEF Past
  <2>5. WorkOK(h)'
    BY <1>0, <1>1, <2>1, <2>2, <2>4 DEF WorkOK
  <2>6. Carries(h)' = Carries(h)
    BY <1>1, <2>1, <2>2 DEF Carries
  <2> QED BY <1>1, <2>1, <2>2, <2>3, <2>5, <2>6, QuietStep
<1>3. CASE call[h].value = 0
  <2>1. /\ Answered(0, call[h].origin) /\ Finish(h) /\ lineage' = lineage /\ lost' = lost
        /\ UNCHANGED <<store, world>>
    BY <1>3 DEF AcceptDenial
  <2>2. {0, call[h].origin} \subseteq Carries(h) \union Freed \union {0}
    BY <1>1, OriginPool
  <2>3. /\ answered' \in [IDs -> Nat]
        /\ \A w \in IDs : \/ answered'[w] = answered[w]
                          \/ answered'[w] = 1 /\ w \in Carries(h) \union Freed
    BY <2>1, <2>2, AnsweredStep
  <2>4. \A v : Has(v)' <=> Has(v)
    BY <2>1 DEF store, Has
  <2> QED BY <1>0, <1>1, <2>1, <2>3, <2>4, EndStep DEF store, world, StoreTypes, Drops
<1> QED BY <1>2, <1>3

(* A refused call: back to the application, or the end of the handler. *)
LEMMA ReturnStep ==
    ASSUME Inductive, NEW h \in Procs, Return(h), pc[h] \in {"check", "create"}
    PROVE  /\ Only(h) /\ HandlerTypes'
           /\ \/ /\ pc'[h] = "held" /\ call'[h] \in Call /\ held'[h] \in Record
                 /\ call'[h].op \in {"push", "choose"} /\ call'[h].value = 0
                 /\ call[h].value = 0 /\ (call'[h].op # "push" => call'[h].agent \in Agents)
                 /\ call'[h].origin = call[h].origin /\ call'[h].started = call[h].started
                 /\ held'[h].createdAt = held[h].createdAt
                 /\ answered' = answered
              \/ Finish(h) /\ answered' = answered /\ pc'[h] = "idle"
              \/ /\ Finish(h) /\ Answered(0, call[h].origin) /\ pc'[h] = "idle"
                 /\ call[h].op = "save"
<1>0. HandlerTypes /\ HandlerOK(h)
  BY TypeParts DEF Inductive
<1>1. call[h] \in Call /\ held[h] \in Record /\ (call[h].op # "push" => call[h].agent \in Agents)
  BY <1>0 DEF HandlerOK
<1>2. CASE Finish(h)
  BY <1>0, <1>2, FinishStep DEF Return
<1>3. CASE ~Finish(h)
  <2> DEFINE k == [call[h] EXCEPT !.op = IF @ = "push" THEN "push" ELSE "choose"]
             r == [held[h] EXCEPT !.bound = FALSE]
  <2>1. /\ call[h].value = 0
        /\ pc' = [pc EXCEPT ![h] = "held"]
        /\ call' = [call EXCEPT ![h].op = IF @ = "push" THEN "push" ELSE "choose"]
        /\ held' = [held EXCEPT ![h].bound = FALSE]
        /\ seen' = [seen EXCEPT ![h] = {}]
        /\ answered' = answered
    BY <1>3 DEF Return
  <2>2. call' = [call EXCEPT ![h] = k] /\ held' = [held EXCEPT ![h] = r]
    BY <2>1
  <2>3. /\ k \in Call /\ k.op \in {"push", "choose"} /\ k.value = call[h].value
        /\ k.origin = call[h].origin /\ k.started = call[h].started
        /\ k.agent = call[h].agent /\ (k.op = "push" <=> call[h].op = "push")
    BY <1>1 DEF Call
  <2>4. r \in Record /\ r.createdAt = held[h].createdAt
    BY <1>1 DEF Record
  <2> HIDE DEF k, r
  <2>5. pc'[h] = "held" /\ call'[h] = k /\ held'[h] = r
    BY <1>0, <2>1, <2>2 DEF HandlerTypes
  <2>6. Only(h)
    BY <1>0, <2>1, <2>2 DEF HandlerTypes, Only
  <2>7. HandlerTypes'
    <3>1. pc' \in [Procs -> PCs] /\ seen' \in [Procs -> SUBSET Registrations]
      BY <1>0, <2>1 DEF HandlerTypes, PCs
    <3>2. /\ call' \in [Procs -> Call \union {None}]
          /\ held' \in [Procs -> Record \union {NotFound}]
      BY <1>0, <2>2, <2>3, <2>4 DEF HandlerTypes
    <3> QED BY <3>1, <3>2 DEF HandlerTypes
  <2> QED BY <1>1, <2>1, <2>3, <2>4, <2>5, <2>6, <2>7
<1> QED BY <1>2, <1>3

(* A handler that has its unsaved request back. *)
LEMMA BackOK ==
    ASSUME Inductive, Frame, NEW h \in Procs, pc[h] \in {"check", "create"},
           now' = now, pc'[h] = "held", call'[h] \in Call, held'[h] \in Record,
           call'[h].op \in {"push", "choose"}, call'[h].value = 0, call[h].value = 0,
           call'[h].origin = call[h].origin, call'[h].started = call[h].started,
           held'[h].createdAt = held[h].createdAt,
           call'[h].op # "push" => call'[h].agent \in Agents
    PROVE  HandlerOK(h)' /\ WorkOK(h)' /\ Carries(h)' = Carries(h)
<1>1. WorkOK(h)
  BY DEF Inductive
<1> QED BY <1>1 DEF HandlerOK, WorkOK, Carries

(* The checks refuse. *)
LEMMA CheckRefusesInductive ==
    ASSUME Inductive, NEW h \in Procs, CheckRefuses(h)
    PROVE  Inductive'
<1>0. TypeOK /\ HandlerTypes /\ StoreTypes /\ now \in Int /\ nextID \in Int
  BY TypeParts DEF Inductive, TypeOK
<1>1. pc[h] = "check" /\ Return(h) /\ UNCHANGED <<store, world>> /\ lineage' = lineage /\ lost' = lost
  BY DEF CheckRefuses, At
<1>2. CASE answered' = answered
  <2>1. UNCHANGED <<store, world, history>>
    BY <1>1, <1>2 DEF history
  <2>2. CASE Finish(h)
    BY <1>1, <2>1, <2>2, QuietEnd
  <2>3. CASE ~Finish(h)
    <3>1. Frame /\ now' = now
      BY <1>0, <1>1 DEF Frame, store, world
    <3> QED BY <1>1, <2>1, <2>3, <3>1, ReturnStep, BackOK, QuietStep
  <2> QED BY <2>2, <2>3
<1>3. CASE answered' # answered
  <2>1. Answered(0, call[h].origin) /\ Finish(h)
    BY <1>1, <1>3, ReturnStep
  <2>2. {0, call[h].origin} \subseteq Carries(h) \union Freed \union {0}
    BY <1>1, OriginPool
  <2>3. /\ answered' \in [IDs -> Nat]
        /\ \A w \in IDs : \/ answered'[w] = answered[w]
                          \/ answered'[w] = 1 /\ w \in Carries(h) \union Freed
    BY <2>1, <2>2, AnsweredStep
  <2>4. \A v : Has(v)' <=> Has(v)
    BY <1>1 DEF store, Has
  <2> QED BY <1>0, <1>1, <2>1, <2>3, <2>4, EndStep DEF store, world, StoreTypes, Drops
<1> QED BY <1>2, <1>3

------------------------------------------------------------------------------
(* Handlers that end. *)

(* The application gives up, or the request cannot be loaded. *)
LEMMA RefusalInductive ==
    ASSUME Inductive, NEW h \in Procs, GiveUp(h) \/ LoadRefuses(h)
    PROVE  Inductive'
<1>1. Finish(h) /\ UNCHANGED <<store, world, history>> /\ pc[h] # "code"
  BY DEF GiveUp, LoadRefuses, At
<1> QED BY <1>1, QuietEnd

(* The store drops only requests that have expired. *)
LEMMA CollectFacts ==
    ASSUME Inductive
    PROVE  LET c == collectLocked.requests IN
           /\ c \in [IDs -> Record \union {NotFound}] /\ collectLocked.last \in Int
           /\ \A v \in IDs : c[v] = NotFound \/ c[v] = requests[v]
           /\ \A v \in IDs : Has(v) /\ c[v] = NotFound => now > lineage[v].expire
<1>1. /\ requests \in [IDs -> Record \union {NotFound}] /\ now \in Int
      /\ lastCollection \in Int
      /\ \A v \in IDs : Has(v) => lineage[v].expire = requests[v].expiresAt
  BY DEF Inductive, TypeOK, StoreOK
<1>2. CASE now - lastCollection >= CollectInterval
  <2>1. /\ collectLocked.requests =
              [v \in IDs |-> IF Has(v) /\ now > requests[v].expiresAt
                             THEN NotFound ELSE requests[v]]
        /\ collectLocked.last = now
    BY <1>2 DEF collectLocked
  <2> QED BY <1>1, <2>1 DEF Has
<1>3. CASE ~(now - lastCollection >= CollectInterval)
  <2>1. collectLocked.requests = requests /\ collectLocked.last = lastCollection
    BY <1>3 DEF collectLocked
  <2> QED BY <1>1, <2>1 DEF Has
<1> QED BY <1>2, <1>3

(* The same for a step in which the store collects. *)
LEMMA CollectStep ==
    ASSUME Inductive, collects
    PROVE  /\ Drops /\ requests' \in [IDs -> Record \union {NotFound}]
           /\ lastCollection' \in Int /\ par' = par /\ nextID' = nextID
           /\ \A v \in IDs : Has(v) /\ ~Has(v)' => now > lineage[v].expire
  BY CollectFacts DEF collects, Drops, Has

(* A request is taken from the store, with what it alone could answer. *)
LEMMA RemoveStep ==
    ASSUME Inductive, NEW v \in disclosed, Remove(v), disclosed' = disclosed
    PROVE  /\ Drops /\ requests' \in [IDs -> Record \union {NotFound}]
           /\ lastCollection' \in Int /\ par' = par /\ nextID' = nextID
           /\ v \in IDs /\ Has(v) /\ ~Has(v)' /\ v \in Open
           /\ \A u \in IDs \ {v} : Has(u)' <=> Has(u)
           /\ Kept(v) \subseteq Freed
<1>1. /\ requests \in [IDs -> Record \union {NotFound}] /\ v \in IDs
      /\ lastCollection \in Int
  BY DEF Inductive, TypeOK
<1>2. /\ requests' = [requests EXCEPT ![v] = NotFound] /\ Has(v)
      /\ par' = par /\ nextID' = nextID /\ lastCollection' = lastCollection
  BY DEF Remove
<1>3. /\ ~Has(v)' /\ Drops /\ \A u \in IDs \ {v} : Has(u)' <=> Has(u)
      /\ requests' \in [IDs -> Record \union {NotFound}]
  BY <1>1, <1>2 DEF Has, Drops
<1>4. v \in Open /\ v \notin Open'
  BY <1>2, <1>3 DEF Open
<1>5. Kept(v) \subseteq Freed
  BY <1>4 DEF Freed, Kept
<1> QED BY <1>1, <1>2, <1>3, <1>4, <1>5

(* A handler about to issue a code carries what the code answers. *)
LEMMA CodePool ==
    ASSUME Inductive, NEW h \in Procs, pc[h] = "code"
    PROVE  {call[h].value, Past(h).origin} \subseteq Carries(h) \union {0}
<1>1. /\ call[h] \in Call /\ call[h].value \in IDs \union {0}
      /\ call[h].origin \in IDs \union {0}
      /\ call[h].value # 0 => lineage[call[h].value] \in Origin
  BY ValueFacts, Fields
<1>2. CASE call[h].value = 0
  BY <1>1, <1>2 DEF Past, Carries
<1>3. CASE call[h].value # 0
  <2>1. Past(h).origin = lineage[call[h].value].origin
        /\ lineage[call[h].value].origin \in IDs \union {0}
    BY <1>1, <1>3, Fields DEF Past
  <2> QED BY <1>1, <1>3, <2>1 DEF Carries
<1> QED BY <1>2, <1>3

(* A code is issued, or the client is told that it could not be saved. *)
LEMMA CodeInductive ==
    ASSUME Inductive, NEW h \in Procs, IssueCode(h) \/ CodeFails(h)
    PROVE  Inductive'
<1>0. TypeOK
  BY DEF Inductive
<1>1. /\ pc[h] = "code" /\ Finish(h) /\ Answered(call[h].value, Past(h).origin)
      /\ now' = now /\ clients' = clients /\ disclosed' = disclosed
      /\ cookies' \subseteq cookies /\ lineage' = lineage /\ lost' = lost
      /\ collects \/ UNCHANGED store
  BY DEF IssueCode, CodeFails, At, world, StorageError
<1>2. /\ Drops /\ requests' \in [IDs -> Record \union {NotFound}]
      /\ lastCollection' \in Int /\ par' = par /\ nextID' = nextID
      /\ \A v \in IDs : Has(v) /\ ~Has(v)' => now > lineage[v].expire
  <2>1. CASE collects
    BY <2>1, CollectStep
  <2>2. CASE UNCHANGED store
    BY <1>0, <2>2 DEF store, TypeOK, Drops, Has
  <2> QED BY <1>1, <2>1, <2>2
<1>3. {call[h].value, Past(h).origin} \subseteq Carries(h) \union Freed \union {0}
  BY <1>1, CodePool
<1>4. /\ answered' \in [IDs -> Nat]
      /\ \A w \in IDs : \/ answered'[w] = answered[w]
                        \/ answered'[w] = 1 /\ w \in Carries(h) \union Freed
      /\ \A w \in {call[h].value, Past(h).origin} \ {0} : answered'[w] = 1
  BY <1>1, <1>3, AnsweredStep
<1>5. disclosed \subseteq IDs /\ lost' \subseteq IDs /\ lost \subseteq lost'
  BY <1>0, <1>1 DEF TypeOK
<1>6. \A v \in disclosed \ par : (Has(v) /\ ~Has(v)') =>
         answered'[v] = 1 \/ now > lineage[v].expire \/ v \in lost'
  BY <1>2, <1>5
<1>7. call[h].value # 0 => answered'[call[h].value] = 1
  BY <1>4
<1> QED BY <1>1, <1>2, <1>4, <1>5, <1>6, <1>7, EndStep

(* A saved request is denied. *)
LEMMA DeniedInductive ==
    ASSUME Inductive, NEW h \in Procs, DeleteDenied(h)
    PROVE  Inductive'
<1>0. TypeOK /\ HandlerOK(h)
  BY DEF Inductive
<1> DEFINE v == call[h].value
<1>1. /\ pc[h] = "delete" /\ Finish(h) /\ Remove(v) /\ Answered(v, lineage[v].origin)
      /\ now' = now /\ clients' = clients /\ disclosed' = disclosed
      /\ cookies' \subseteq cookies /\ lineage' = lineage /\ lost' = lost
  BY DEF DeleteDenied, At
<1>2. v # 0 /\ v \in disclosed /\ v \in IDs /\ lineage[v].origin \in IDs \union {0}
  BY <1>0, <1>1, ValueFacts, Fields DEF HandlerOK
<1>3. /\ Drops /\ requests' \in [IDs -> Record \union {NotFound}]
      /\ lastCollection' \in Int /\ par' = par /\ nextID' = nextID
      /\ \A u \in IDs \ {v} : Has(u)' <=> Has(u)
      /\ Kept(v) \subseteq Freed
  BY <1>1, <1>2, RemoveStep
<1>4. {v, lineage[v].origin} \subseteq Carries(h) \union Freed \union {0}
  BY <1>2, <1>3 DEF Kept
<1>5. /\ answered' \in [IDs -> Nat]
      /\ \A w \in IDs : \/ answered'[w] = answered[w]
                        \/ answered'[w] = 1 /\ w \in Carries(h) \union Freed
      /\ \A w \in {v, lineage[v].origin} \ {0} : answered'[w] = 1
  BY <1>1, <1>4, AnsweredStep
<1>6. disclosed \subseteq IDs /\ lost' \subseteq IDs /\ lost \subseteq lost'
  BY <1>0, <1>1 DEF TypeOK
<1>7. answered'[v] = 1
  BY <1>2, <1>5
<1>8. \A u \in disclosed \ par : (Has(u) /\ ~Has(u)') => answered'[u] = 1
  BY <1>3, <1>6, <1>7
<1> HIDE DEF v
<1> QED BY <1>1, <1>3, <1>5, <1>6, <1>8, EndStep

(* The deletion fails, with or without its effect. *)
LEMMA DeleteRefusesInductive ==
    ASSUME Inductive, NEW h \in Procs, DeleteRefuses(h)
    PROVE  Inductive'
<1>0. TypeOK /\ HandlerOK(h)
  BY DEF Inductive
<1> DEFINE v == call[h].value
<1>1. /\ pc[h] = "delete" /\ Finish(h) /\ UNCHANGED world
      /\ lineage' = lineage /\ answered' = answered
      /\ \/ UNCHANGED store /\ lost' = lost
         \/ Remove(v) /\ lost' = lost \union {v}
  BY DEF DeleteRefuses, At, StorageError
<1>2. CASE UNCHANGED store /\ lost' = lost
  BY <1>1, <1>2, QuietEnd DEF history
<1>3. CASE Remove(v) /\ lost' = lost \union {v}
  <2>1. v # 0 /\ v \in disclosed /\ v \in IDs
    BY <1>0, <1>1, ValueFacts DEF HandlerOK
  <2>2. /\ now' = now /\ clients' = clients /\ disclosed' = disclosed /\ cookies' = cookies
    BY <1>1 DEF world
  <2>3. /\ Drops /\ requests' \in [IDs -> Record \union {NotFound}]
        /\ lastCollection' \in Int /\ par' = par /\ nextID' = nextID
        /\ \A u \in IDs \ {v} : Has(u)' <=> Has(u)
    BY <1>3, <2>1, <2>2, RemoveStep
  <2>4. /\ disclosed \subseteq IDs /\ lost' \subseteq IDs /\ lost \subseteq lost'
        /\ answered' \in [IDs -> Nat] /\ v \in lost'
    BY <1>0, <1>1, <1>3, <2>1 DEF TypeOK
  <2>5. \A u \in disclosed \ par : (Has(u) /\ ~Has(u)') => u \in lost'
    BY <2>3, <2>4
  <2> HIDE DEF v
  <2> QED BY <1>1, <2>2, <2>3, <2>4, <2>5, EndStep
<1> QED BY <1>1, <1>2, <1>3

(* A redeemed request that the registration no longer allows. *)
LEMMA RecheckRefusesInductive ==
    ASSUME Inductive, NEW h \in Procs, RecheckRefuses(h)
    PROVE  Inductive'
<1>0. TypeOK
  BY DEF Inductive
<1>1. /\ pc[h] = "recheck" /\ Finish(h) /\ UNCHANGED <<store, world>>
      /\ lineage' = lineage /\ lost' = lost
      /\ answered' = answered \/ Answered(call[h].value, 0)
  BY DEF RecheckRefuses, At
<1>2. CASE answered' = answered
  BY <1>1, <1>2, QuietEnd DEF history
<1>3. CASE Answered(call[h].value, 0)
  <2>1. call[h].value \in IDs \union {0}
    BY <1>1, ValueFacts
  <2>2. {call[h].value, 0} \subseteq Carries(h) \union Freed \union {0}
    BY <1>1, <2>1 DEF Carries
  <2>3. /\ answered' \in [IDs -> Nat]
        /\ \A w \in IDs : \/ answered'[w] = answered[w]
                          \/ answered'[w] = 1 /\ w \in Carries(h) \union Freed
    BY <1>3, <2>2, AnsweredStep
  <2>4. \A v : Has(v)' <=> Has(v)
    BY <1>1 DEF store, Has
  <2>5. StoreTypes
    BY <1>0, TypeParts
  <2> QED BY <1>1, <2>3, <2>4, <2>5, EndStep DEF store, world, StoreTypes, Drops
<1> QED BY <1>1, <1>2, <1>3

(* A handler stops between two calls. *)
LEMMA CrashInductive ==
    ASSUME Inductive, NEW h \in Procs, Crash(h)
    PROVE  Inductive'
<1>0. TypeOK /\ StoreTypes
  BY TypeParts DEF Inductive
<1>1. /\ pc[h] # "idle" /\ Finish(h) /\ UNCHANGED <<store, world>>
      /\ lineage' = lineage /\ answered' = answered
      /\ lost' = IF pc[h] = "code" THEN lost \union ({call[h].value} \ {0}) ELSE lost
  BY DEF Crash, At
<1>2. CASE pc[h] # "code"
  BY <1>1, <1>2, QuietEnd DEF history
<1>3. CASE pc[h] = "code"
  <2>1. call[h].value \in IDs \union {0}
    BY <1>1, ValueFacts
  <2>2. /\ lost \subseteq lost' /\ lost' \subseteq IDs
        /\ call[h].value # 0 => call[h].value \in lost'
    BY <1>0, <1>1, <1>3, <2>1 DEF TypeOK
  <2>3. \A v : Has(v)' <=> Has(v)
    BY <1>1 DEF store, Has
  <2> QED BY <1>0, <1>1, <2>2, <2>3, EndStep DEF store, world, StoreTypes, Drops
<1> QED BY <1>2, <1>3

------------------------------------------------------------------------------
(* Requests leave the store to be completed. *)

(* A request is deleted, to issue a code or to redeem it. *)
LEMMA DeleteInductive ==
    ASSUME Inductive, NEW h \in Procs, Delete(h)
    PROVE  Inductive'
<1>0. /\ TypeOK /\ HandlerTypes /\ StoreTypes /\ StoreOK /\ OnePlace
      /\ HandlerOK(h) /\ WorkOK(h) /\ now \in Nat /\ nextID \in Int
  BY TypeParts DEF Inductive, TypeOK
<1> DEFINE v == call[h].value
<1>1. /\ pc[h] = "delete" /\ call[h].op # "deny" /\ Remove(v)
      /\ now' = now /\ clients' = clients /\ disclosed' = disclosed /\ cookies' = cookies
      /\ lineage' = lineage /\ answered' = answered /\ lost' = lost
  BY DEF Delete, At, world, history
<1>2. /\ pc'[h] = IF call[h].op = "redeem" THEN "recheck" ELSE "code"
      /\ call' = call /\ held' = held /\ seen' = seen /\ Only(h) /\ HandlerTypes'
  BY <1>0 DEF Delete, Goto, HandlerTypes, Only, PCs
<1>3. /\ call[h] \in Call /\ held[h] \in Record /\ v # 0 /\ v \in disclosed /\ v \in IDs
      /\ call[h].op \in {"redeem", "approve"} /\ call[h].origin = 0
      /\ (v \in par <=> call[h].op = "redeem")
  BY <1>0, <1>1, ValueFacts DEF HandlerOK
<1>4. /\ Drops /\ requests' \in [IDs -> Record \union {NotFound}]
      /\ lastCollection' \in Int /\ par' = par /\ nextID' = nextID
      /\ \A u \in IDs \ {v} : Has(u)' <=> Has(u)
      /\ Kept(v) \subseteq Freed
  BY <1>1, <1>3, RemoveStep
<1>5. Frame
  BY <1>0, <1>1, <1>4 DEF Frame
<1>6. StoreTypes'
  BY <1>0, <1>1, <1>4 DEF StoreTypes
<1>7. StoreOK'
  BY <1>0, <1>1, <1>4, StoreDrops
<1>8. HandlerOK(h)'
  BY <1>0, <1>1, <1>2, <1>3, <1>4 DEF HandlerOK
<1>9. WorkOK(h)'
  <2>1. Past(h)' = Past(h)
    BY <1>1, <1>2 DEF Past
  <2>2. (LoginFresh(h)' <=> LoginFresh(h)) /\ \A reg : Permits(reg, h)' <=> Permits(reg, h)
    BY <1>2, <2>1 DEF LoginFresh, Permits
  <2> QED BY <1>0, <1>1, <1>2, <1>3, <2>1, <2>2 DEF WorkOK
<1>10. Carries(h)' \subseteq Kept(v)
  BY <1>1, <1>2, <1>3, IDFacts DEF Carries, Kept
<1>11. OnePlace'
  <2>1. \A k \in Procs \ {h} : Carries(k)' = Carries(k)
    BY <1>0, <1>1, <1>2, <1>5, OtherKeeps DEF Only
  <2>2. \A u \in IDs : Has(u)' => Has(u)
    BY <1>4 DEF Drops, Has
  <2>3. \A w \in Open' : w \in Open /\ Kept(w)' = Kept(w)
    BY <1>0, <1>1, <2>2 DEF Open, Kept, TypeOK
  <2>4. \A u \in disclosed : Has(u)' => Has(u)
    BY <1>0, <2>2 DEF TypeOK
  <2> QED BY <1>0, <1>1, <1>4, <1>10, <2>1, <2>3, <2>4, PlaceStep
<1>12. SavedRequestsAreAnswered'
  <2>1. \A u \in disclosed \ par : (Has(u) /\ ~Has(u)') => pc'[h] = "code" /\ call'[h].value = u
    BY <1>0, <1>2, <1>3, <1>4 DEF TypeOK
  <2> HIDE DEF v
  <2> QED BY <1>1, <1>2, <1>4, <2>1, SavedStep
<1> QED BY <1>2, <1>5, <1>6, <1>7, <1>8, <1>9, <1>11, <1>12, Assemble

(* A redeemed request starts an interaction. *)
LEMMA RecheckInductive ==
    ASSUME Inductive, NEW h \in Procs, Recheck(h)
    PROVE  Inductive'
<1>0. TypeOK /\ HandlerTypes /\ HandlerOK(h) /\ WorkOK(h) /\ now \in Nat
  BY TypeParts DEF Inductive, TypeOK
<1>1. /\ pc[h] = "recheck" /\ call[h] \in Call /\ held[h] \in Record
      /\ call[h].started <= now /\ call[h].value \in IDs /\ call[h].agent \in Agents
  BY <1>0, ValueFacts DEF Recheck, At, HandlerOK, WorkOK
<1> DEFINE k == [call[h] EXCEPT !.op = "choose", !.origin = call[h].value, !.value = 0]
           r == [held[h] EXCEPT !.createdAt = now, !.expiresAt = now + RequestLifetime]
<1>2. k \in Call /\ k.op = "choose" /\ k.value = 0 /\ k.origin = call[h].value
      /\ k.started = call[h].started /\ k.agent = call[h].agent
  <2>1. k \in Call
    BY <1>1 DEF Call
  <2>2. k.op = "choose" /\ k.value = 0 /\ k.origin = call[h].value /\ k.started = call[h].started
        /\ k.agent = call[h].agent
    BY <1>1 DEF Call
  <2> HIDE DEF k
  <2> QED BY <2>1, <2>2
<1>3. r \in Record /\ r.createdAt = now
  <2>1. now + RequestLifetime \in Nat
    BY <1>0, ConstantsAssumption
  <2> QED BY <1>0, <1>1, <2>1 DEF Record
<1>4. call' = [call EXCEPT ![h] = k] /\ held' = [held EXCEPT ![h] = r]
  BY <1>0 DEF Recheck, HandlerTypes
<1> HIDE DEF k, r
<1>5. pc' = [pc EXCEPT ![h] = "held"] /\ seen' = [seen EXCEPT ![h] = {}]
      /\ UNCHANGED <<store, world, history>>
  BY DEF Recheck
<1>6. pc'[h] = "held" /\ call'[h] = k /\ held'[h] = r /\ now' = now
  BY <1>0, <1>4, <1>5 DEF HandlerTypes, world
<1>7. Only(h)
  BY <1>0, <1>4, <1>5 DEF HandlerTypes, Only
<1>8. HandlerTypes'
  BY <1>0, <1>2, <1>3, <1>4, <1>5 DEF HandlerTypes, PCs
<1>9. HandlerOK(h)'
  BY <1>1, <1>2, <1>3, <1>6 DEF HandlerOK
<1>10. WorkOK(h)'
  BY <1>1, <1>2, <1>3, <1>6 DEF WorkOK
<1>11. Carries(h)' \subseteq Carries(h)
  BY <1>1, <1>2, <1>6 DEF Carries
<1> QED BY <1>1, <1>5, <1>7, <1>8, <1>9, <1>10, <1>11, QuietStep

------------------------------------------------------------------------------
(* Requests enter the store. *)

(* What CreateAuthorizationRequest does to the store. *)
LEMMA CreateFacts ==
    ASSUME Inductive, NEW h \in Procs, Create(h)
    PROVE  /\ pc[h] = "create" /\ call[h] \in Call /\ held[h] \in Record
           /\ call[h].value = 0 /\ nextID \in IDs /\ nextID \notin disclosed
           /\ now' = now /\ clients' = clients /\ nextID' = nextID + 1
           /\ nextID' \in 1 .. MaxRequests + 1
           /\ requests' \in [IDs -> Record \union {NotFound}] /\ lastCollection' \in Int
           /\ requests'[nextID] = held[h] /\ requests'[nextID] # NotFound
           /\ \A v \in IDs \ {nextID} : requests'[v] = NotFound \/ requests'[v] = requests[v]
           /\ \A v \in IDs : Has(v) /\ ~Has(v)' => now > lineage[v].expire
           /\ par' \subseteq IDs /\ (nextID \in par' <=> call[h].op = "push")
           /\ \A v \in IDs \ {nextID} : v \in par' <=> v \in par
           /\ lineage' \in [IDs -> Origin \union {None}] /\ lineage'[nextID] \in Origin
           /\ lineage'[nextID].agent = call[h].agent
           /\ lineage'[nextID].origin = call[h].origin
           /\ lineage'[nextID].started = call[h].started
           /\ lineage'[nextID].expire = held[h].expiresAt
           /\ \A v \in IDs \ {nextID} : lineage'[v] = lineage[v]
<1>0. TypeOK /\ HandlerOK(h) /\ StoreOK
  BY DEF Inductive
<1>1. /\ pc[h] = "create" /\ nextID <= MaxRequests /\ now' = now /\ clients' = clients
      /\ nextID' = nextID + 1 /\ lastCollection' = collectLocked.last
      /\ par' = IF call[h].op = "push" THEN par \union {nextID} ELSE par
  BY DEF Create, At
<1>2. /\ call[h] \in Call /\ held[h] \in Record /\ call[h].value = 0
  BY <1>0, <1>1 DEF HandlerOK
<1>3. nextID \in IDs /\ nextID' \in 1 .. MaxRequests + 1
  BY <1>0, <1>1, ConstantsAssumption DEF TypeOK, IDs
<1>4. nextID \notin disclosed /\ nextID \notin par /\ ~Has(nextID)
  BY <1>0, <1>3, IDFacts DEF StoreOK
<1> DEFINE c == collectLocked.requests
           o == [agent |-> call[h].agent, origin |-> call[h].origin,
                 started |-> call[h].started, expire |-> held[h].expiresAt]
<1>5. /\ c \in [IDs -> Record \union {NotFound}] /\ collectLocked.last \in Int
      /\ \A v \in IDs : c[v] = NotFound \/ c[v] = requests[v]
      /\ \A v \in IDs : Has(v) /\ c[v] = NotFound => now > lineage[v].expire
  BY CollectFacts
<1>6. o \in Origin /\ o.agent = call[h].agent /\ o.origin = call[h].origin
      /\ o.started = call[h].started /\ o.expire = held[h].expiresAt
  <2>1. /\ call[h].agent \in Agents \union {None} /\ call[h].origin \in IDs \union {0}
        /\ call[h].started \in Nat /\ held[h].expiresAt \in Nat
    BY <1>2, Fields
  <2> QED BY <2>1 DEF Origin
<1>7. requests' = [c EXCEPT ![nextID] = held[h]] /\ lineage' = [lineage EXCEPT ![nextID] = o]
  BY DEF Create
<1> HIDE DEF c, o
<1>8. held[h] # NotFound
  BY <1>2, ConstantsAssumption
<1>9. /\ requests' \in [IDs -> Record \union {NotFound}]
      /\ requests'[nextID] = held[h] /\ requests'[nextID] # NotFound
      /\ \A v \in IDs \ {nextID} : requests'[v] = c[v]
  BY <1>2, <1>3, <1>5, <1>7, <1>8 DEF Has
<1>10. \A v \in IDs : Has(v) /\ ~Has(v)' => now > lineage[v].expire
  BY <1>5, <1>9 DEF Has
<1>11. /\ lineage' \in [IDs -> Origin \union {None}] /\ lineage'[nextID] = o
       /\ \A v \in IDs \ {nextID} : lineage'[v] = lineage[v]
  BY <1>0, <1>3, <1>6, <1>7 DEF TypeOK
<1>12. /\ par' \subseteq IDs /\ (nextID \in par' <=> call[h].op = "push")
       /\ \A v \in IDs \ {nextID} : v \in par' <=> v \in par
  BY <1>0, <1>1, <1>3, <1>4 DEF TypeOK
<1>13. \A v \in IDs \ {nextID} : requests'[v] = NotFound \/ requests'[v] = requests[v]
  BY <1>5, <1>9
<1> QED BY <1>1, <1>2, <1>3, <1>4, <1>5, <1>6, <1>9, <1>10, <1>11, <1>12, <1>13

(* The store stays in order. *)
LEMMA StoreCreates ==
    ASSUME Inductive, NEW h \in Procs, Create(h),
           disclosed' \subseteq disclosed \union {nextID},
           cookies' \subseteq cookies \union {<<call[h].agent, nextID>>},
           \A v \in IDs : v >= nextID => answered'[v] = answered[v]
    PROVE  StoreOK'
<1>0. TypeOK /\ StoreOK /\ WorkOK(h) /\ nextID \in Int
  BY DEF Inductive, TypeOK
<1>1. ASSUME NEW v \in IDs, v >= nextID'
      PROVE  ~Has(v)' /\ v \notin disclosed' /\ v \notin par' /\ answered'[v] = 0
  <2>1. v # nextID /\ v >= nextID
    BY <1>0, <1>1, CreateFacts, IDFacts
  <2>2. ~Has(v) /\ v \notin disclosed /\ v \notin par /\ answered[v] = 0
    BY <1>0, <2>1 DEF StoreOK
  <2>3. ~Has(v)' /\ v \notin par'
    BY <2>1, <2>2, CreateFacts DEF Has
  <2> QED BY <2>1, <2>2, <2>3
<1>2. ASSUME NEW v \in IDs, v < nextID' PROVE lineage'[v] \in Origin
  <2>1. v = nextID \/ v < nextID
    BY <1>0, <1>2, CreateFacts, IDFacts
  <2> QED BY <1>0, <2>1, CreateFacts DEF StoreOK
<1>3. ASSUME NEW v \in IDs, Has(v)'
      PROVE  /\ lineage'[v].expire = requests'[v].expiresAt
             /\ lineage'[v].started <= requests'[v].createdAt
             /\ v \notin par' => /\ requests'[v].bound = Binding
                                 /\ requests'[v].pushed = (lineage'[v].origin # 0)
  <2>1. CASE v = nextID
    <3>1. Past(h).origin = call[h].origin
      BY CreateFacts DEF Past
    <3>2. call[h].op \in {"push", "save"}
      BY CreateFacts DEF Inductive, HandlerOK
    <3> QED BY <1>0, <2>1, <3>1, <3>2, CreateFacts DEF WorkOK
  <2>2. CASE v # nextID
    <3>1. /\ Has(v) /\ requests'[v] = requests[v] /\ lineage'[v] = lineage[v]
          /\ (v \in par' <=> v \in par)
      BY <1>3, <2>2, CreateFacts DEF Has
    <3> QED BY <1>0, <3>1 DEF StoreOK
  <2> QED BY <2>1, <2>2
<1>4. ASSUME NEW c \in cookies' PROVE c[2] < nextID' /\ lineage'[c[2]].agent = c[1]
  <2>1. CASE c = <<call[h].agent, nextID>>
    BY <1>0, <2>1, CreateFacts
  <2>2. CASE c \in cookies
    <3>1. c[2] < nextID /\ lineage[c[2]].agent = c[1] /\ c[2] \in IDs
      BY <1>0, <2>2 DEF StoreOK, TypeOK
    <3>2. c[2] \in Int /\ c[2] # nextID
      BY <1>0, <3>1, IDFacts
    <3> QED BY <1>0, <3>1, <3>2, CreateFacts
  <2> QED BY <2>1, <2>2
<1> QED BY <1>1, <1>2, <1>3, <1>4 DEF StoreOK

(* What a creation leaves to the handlers. *)
LEMMA CreateFrame ==
    ASSUME Inductive, NEW h \in Procs, Create(h), disclosed \subseteq disclosed'
    PROVE  /\ Frame
           /\ \A v \in disclosed : /\ lineage'[v] = lineage[v] /\ (v \in par' <=> v \in par)
                                   /\ (Has(v)' => Has(v)) /\ v # nextID /\ v \in IDs
<1>1. now \in Int /\ nextID \in Int /\ disclosed \subseteq IDs
  BY DEF Inductive, TypeOK
<1>2. nextID' >= nextID /\ now' >= now
  BY <1>1, CreateFacts
<1>3. \A v \in IDs : v < nextID => v \in IDs \ {nextID}
  BY <1>1
<1>4. Frame
  BY <1>2, <1>3, CreateFacts DEF Frame
<1>5. \A v \in disclosed : v \in IDs \ {nextID}
  BY <1>1, CreateFacts
<1> QED BY <1>4, <1>5, CreateFacts DEF Has

(* A saved request takes over what its handler carried. *)
LEMMA PlaceCreates ==
    ASSUME Inductive, NEW h \in Procs, Create(h), disclosed' = disclosed \union {nextID},
           answered' = answered, Carries(h)' = {},
           \A k \in Procs \ {h} : Carries(k)' = Carries(k)
    PROVE  OnePlace'
<1>n. PICK n \in IDs : n = nextID
  BY CreateFacts
<1>0. TypeOK /\ StoreOK /\ OnePlace
  BY DEF Inductive
<1>1. /\ n \in IDs /\ n \notin disclosed /\ answered[n] = 0
      /\ lineage'[n].origin = call[h].origin /\ pc[h] = "create"
  BY <1>n, <1>0, CreateFacts, IDFacts DEF StoreOK
<1>2. \A w \in Open' : w \in Open \/ w = n
  BY <1>n, CreateFrame DEF Open
<1>3. \A w \in Open : Kept(w)' = Kept(w) /\ w # n
  BY <1>n, CreateFrame DEF Open, Kept
<1>4. Kept(n)' \subseteq {n} \union Carries(h)
  BY <1>1 DEF Kept, Carries
<1>5. \A k \in Procs : \A v \in Carries(k) : v \in disclosed /\ ~Has(v) /\ answered[v] = 0
  BY <1>0 DEF OnePlace
<1>6. \A w \in Open : \A v \in Kept(w) : v \in disclosed /\ (Has(v) => v = w) /\ answered[v] = 0
  BY <1>0 DEF OnePlace
<1>7. \A v \in disclosed : v # n /\ (Has(v)' => Has(v)) /\ v \in disclosed'
  BY <1>n, CreateFrame
<1>8. \A k \in Procs : Carries(k)' \subseteq Carries(k)
  OBVIOUS
<1>9. ASSUME NEW k \in Procs, NEW l \in Procs, k # l
      PROVE  Carries(k)' \intersect Carries(l)' = {}
  BY <1>0, <1>8, <1>9 DEF OnePlace
<1>10. ASSUME NEW k \in Procs, NEW w \in Open' PROVE Carries(k)' \intersect Kept(w)' = {}
  <2>1. CASE w \in Open
    BY <1>0, <1>3, <1>8, <2>1 DEF OnePlace
  <2>2. CASE w = n
    <3>1. CASE k = h
      BY <3>1
    <3>2. CASE k # h
      <4>1. Carries(k) \intersect Carries(h) = {} /\ n \notin Carries(k)
        BY <1>0, <1>1, <1>5, <3>2 DEF OnePlace
      <4> QED BY <1>4, <1>8, <2>2, <4>1
    <3> QED BY <3>1, <3>2
  <2> QED BY <1>2, <2>1, <2>2
<1>11. ASSUME NEW w \in Open PROVE Kept(n)' \intersect Kept(w)' = {}
  <2>1. n \notin Kept(w) /\ Carries(h) \intersect Kept(w) = {}
    BY <1>0, <1>1, <1>6 DEF OnePlace
  <2> QED BY <1>3, <1>4, <2>1
<1>12. ASSUME NEW u \in Open', NEW w \in Open', u # w
       PROVE  Kept(u)' \intersect Kept(w)' = {}
  <2>1. CASE u \in Open /\ w \in Open
    BY <1>0, <1>3, <1>12, <2>1 DEF OnePlace
  <2>2. CASE u = n /\ w \in Open
    BY <1>11, <2>2
  <2>3. CASE w = n /\ u \in Open
    BY <1>11, <2>3
  <2> QED BY <1>2, <1>12, <2>1, <2>2, <2>3
<1>13. ASSUME NEW k \in Procs, NEW v \in Carries(k)'
       PROVE  v \in disclosed' /\ ~Has(v)' /\ answered'[v] = 0
  BY <1>5, <1>7, <1>8
<1>14. ASSUME NEW w \in Open', NEW v \in Kept(w)'
       PROVE  v \in disclosed' /\ (Has(v)' => v = w) /\ answered'[v] = 0
  <2>1. CASE w \in Open
    BY <1>3, <1>6, <1>7, <1>14, <2>1
  <2>2. CASE w = n
    <3>1. CASE v = n
      BY <1>n, <1>1, <2>2, <3>1
    <3>2. CASE v \in Carries(h)
      BY <1>5, <1>7, <3>2
    <3> QED BY <1>4, <1>14, <2>2, <3>1, <3>2
  <2> QED BY <1>2, <2>1, <2>2
<1>15. AtMostOneAnswer'
  BY <1>0 DEF OnePlace, AtMostOneAnswer
<1> QED BY <1>9, <1>10, <1>12, <1>13, <1>14, <1>15 DEF OnePlace

(* A request is pushed or saved. *)
LEMMA CreateSucceedsInductive ==
    ASSUME Inductive, NEW h \in Procs, CreateSucceeds(h)
    PROVE  Inductive'
<1>0. TypeOK /\ HandlerTypes /\ StoreTypes /\ HandlerOK(h) /\ WorkOK(h)
  BY TypeParts DEF Inductive
<1>1. /\ Create(h) /\ Finish(h) /\ disclosed' = disclosed \union {nextID}
      /\ cookies' = (IF held[h].bound THEN cookies \union {<<call[h].agent, nextID>>}
                                      ELSE cookies)
      /\ answered' = answered /\ lost' = lost
  BY DEF CreateSucceeds
<1>2. Only(h) /\ pc'[h] = "idle" /\ HandlerTypes'
  BY <1>0, <1>1, FinishStep
<1>3. HandlerOK(h)' /\ WorkOK(h)' /\ Carries(h)' = {}
  BY <1>2, IdleOK
<1>4. /\ Frame /\ now' \in Nat
      /\ \A v \in disclosed : lineage'[v] = lineage[v] /\ (v \in par' <=> v \in par)
  BY <1>0, <1>1, CreateFrame, CreateFacts DEF TypeOK
<1>5. StoreTypes'
  <2>1. cookies' \subseteq Agents \X IDs
    <3>1. held[h].bound => call[h].agent \in Agents
      BY <1>0, <1>1, CreateFacts DEF HandlerOK, WorkOK
    <3> QED BY <1>0, <1>1, <3>1, CreateFacts DEF TypeOK
  <2> QED BY <1>0, <1>1, <2>1, CreateFacts DEF StoreTypes
<1>6. StoreOK'
  BY <1>1, StoreCreates
<1>7. OnePlace'
  <2>1. \A k \in Procs \ {h} : Carries(k)' = Carries(k)
    BY <1>2, <1>4, OtherKeeps DEF Only
  <2> QED BY <1>1, <1>3, <2>1, PlaceCreates
<1>8. SavedRequestsAreAnswered'
  <2>1. \A v \in disclosed' \ par' : Has(v)' \/ v \in disclosed \ par
    BY <1>1, <1>4, CreateFacts DEF Has
  <2>2. \A v \in disclosed \ par : (Has(v) /\ ~Has(v)') => now > lineage[v].expire
    BY <1>0, <1>1, CreateFacts DEF TypeOK
  <2>3. pc[h] # "code" /\ now' = now
    BY <1>1, CreateFacts
  <2> QED BY <1>1, <1>2, <1>4, <2>1, <2>2, <2>3, SavedStep
<1> QED BY <1>2, <1>3, <1>4, <1>5, <1>6, <1>7, <1>8, Assemble

(* How a handler goes on after a refused call. *)
LEMMA ReturnOutcome ==
    ASSUME Inductive, Frame, NEW h \in Procs, Return(h), now' = now,
           pc[h] \in {"check", "create"}
    PROVE  /\ Only(h) /\ HandlerTypes' /\ HandlerOK(h)' /\ WorkOK(h)'
           /\ Carries(h)' \subseteq Carries(h) /\ answered' \in [IDs -> Nat]
           /\ \A w \in IDs : \/ answered'[w] = answered[w]
                             \/ /\ answered'[w] = 1 /\ w \notin Carries(h)'
                                /\ w \in Carries(h) \union Freed
<1>0. answered \in [IDs -> Nat]
  BY DEF Inductive, TypeOK
<1>1. Only(h) /\ HandlerTypes'
  BY ReturnStep
<1>2. CASE pc'[h] = "idle"
  <2>1. HandlerOK(h)' /\ WorkOK(h)' /\ Carries(h)' = {}
    BY <1>2, IdleOK
  <2>2. answered' = answered \/ Answered(0, call[h].origin)
    BY <1>2, ReturnStep
  <2>3. CASE answered' = answered
    BY <1>0, <1>1, <2>1, <2>3
  <2>4. CASE Answered(0, call[h].origin)
    <3>1. {0, call[h].origin} \subseteq Carries(h) \union Freed \union {0}
      BY OriginPool
    <3>2. /\ answered' \in [IDs -> Nat]
          /\ \A w \in IDs : \/ answered'[w] = answered[w]
                            \/ answered'[w] = 1 /\ w \in Carries(h) \union Freed
      BY <2>4, <3>1, AnsweredStep
    <3> QED BY <1>1, <2>1, <3>2
  <2> QED BY <2>2, <2>3, <2>4
<1>3. CASE pc'[h] # "idle"
  <2>1. /\ pc'[h] = "held" /\ call'[h] \in Call /\ held'[h] \in Record
        /\ call'[h].op \in {"push", "choose"} /\ call'[h].value = 0
        /\ call[h].value = 0 /\ (call'[h].op # "push" => call'[h].agent \in Agents)
        /\ call'[h].origin = call[h].origin /\ call'[h].started = call[h].started
        /\ held'[h].createdAt = held[h].createdAt
        /\ answered' = answered
    BY <1>3, ReturnStep
  <2>2. HandlerOK(h)' /\ WorkOK(h)' /\ Carries(h)' = Carries(h)
    BY <2>1, BackOK
  <2> QED BY <1>0, <1>1, <2>1, <2>2
<1> QED BY <1>2, <1>3

(* A creation fails, with or without its effect. *)
LEMMA CreateFailsInductive ==
    ASSUME Inductive, NEW h \in Procs, CreateFails(h)
    PROVE  Inductive'
<1>0. /\ TypeOK /\ StoreTypes /\ StoreOK /\ OnePlace /\ now \in Nat /\ nextID \in Int
      /\ disclosed \subseteq IDs
  BY TypeParts DEF Inductive, TypeOK
<1>1. /\ pc[h] = "create" /\ Return(h) /\ cookies' = cookies /\ disclosed' = disclosed
      /\ lost' = lost
      /\ Create(h) \/ (UNCHANGED store /\ now' = now /\ clients' = clients /\ lineage' = lineage)
  BY DEF CreateFails, At, StorageError
<1>2. /\ Frame /\ now' = now /\ clients' = clients
      /\ \A v \in disclosed : /\ lineage'[v] = lineage[v] /\ (v \in par' <=> v \in par)
                              /\ (Has(v)' => Has(v))
      /\ \A v \in disclosed : Has(v) /\ ~Has(v)' => now > lineage[v].expire
  <2>1. CASE Create(h)
    BY <1>0, <1>1, <2>1, CreateFacts, CreateFrame
  <2>2. CASE UNCHANGED store /\ now' = now /\ clients' = clients /\ lineage' = lineage
    BY <1>0, <1>1, <2>2 DEF store, Frame, Has
  <2> QED BY <1>1, <2>1, <2>2
<1>3. /\ Only(h) /\ HandlerTypes' /\ HandlerOK(h)' /\ WorkOK(h)'
      /\ Carries(h)' \subseteq Carries(h) /\ answered' \in [IDs -> Nat]
      /\ \A w \in IDs : \/ answered'[w] = answered[w]
                        \/ /\ answered'[w] = 1 /\ w \notin Carries(h)'
                           /\ w \in Carries(h) \union Freed
  BY <1>1, <1>2, ReturnOutcome
<1>4. \A v \in IDs : v >= nextID => answered'[v] = answered[v]
  <2> SUFFICES ASSUME NEW v \in IDs, v >= nextID PROVE answered'[v] = answered[v]
    OBVIOUS
  <2>1. v \notin disclosed
    BY <1>0 DEF StoreOK
  <2> QED BY <1>3, <2>1, PoolFacts
<1>5. StoreTypes' /\ StoreOK'
  <2>1. CASE Create(h)
    <3>1. StoreTypes'
      BY <1>0, <1>1, <1>2, <1>3, <2>1, CreateFacts DEF StoreTypes
    <3>2. StoreOK'
      BY <1>1, <1>4, <2>1, StoreCreates
    <3> QED BY <3>1, <3>2
  <2>2. CASE UNCHANGED store /\ now' = now /\ clients' = clients /\ lineage' = lineage
    <3>1. /\ requests' = requests /\ par' = par /\ lastCollection' = lastCollection
          /\ nextID' = nextID
      BY <2>2 DEF store
    <3>2. StoreTypes'
      BY <1>0, <1>1, <1>2, <1>3, <2>2, <3>1 DEF StoreTypes
    <3>3. StoreOK'
      BY <1>0, <1>1, <1>4, <2>2, <3>1, StoreDrops DEF Drops
    <3> QED BY <3>2, <3>3
  <2> QED BY <1>1, <2>1, <2>2
<1>6. OnePlace'
  <2>1. \A k \in Procs \ {h} : Carries(k)' = Carries(k)
    BY <1>0, <1>2, <1>3, OtherKeeps DEF Only
  <2>2. \A w \in Open' : w \in Open /\ Kept(w)' = Kept(w)
    BY <1>1, <1>2 DEF Open, Kept
  <2> QED BY <1>0, <1>1, <1>2, <1>3, <2>1, <2>2, PlaceStep
<1>7. SavedRequestsAreAnswered'
  <2>1. \A v \in disclosed' \ par' : Has(v)' \/ v \in disclosed \ par
    BY <1>1, <1>2
  <2>2. \A v \in disclosed \ par : (Has(v) /\ ~Has(v)') => now > lineage[v].expire
    BY <1>2
  <2>3. \A v \in IDs : answered[v] = 1 => answered'[v] = 1
    BY <1>3
  <2> QED BY <1>1, <1>2, <1>3, <2>1, <2>2, <2>3, SavedStep
<1> QED BY <1>2, <1>3, <1>5, <1>6, <1>7, Assemble

------------------------------------------------------------------------------
(* The environment, and the whole. *)

(* A registration changes. *)
LEMMA SetClientInductive ==
    ASSUME Inductive, SetClient
    PROVE  Inductive'
<1>0. TypeOK /\ StoreOK /\ OnePlace /\ SavedRequestsAreAnswered
  BY DEF Inductive
<1>1. PICK i \in Issuers, c \in ClientIDs, reg \in Registrations :
        /\ clients' = [clients EXCEPT ![<<i, c>>] = reg]
        /\ seen' = [h \in Procs |->
               IF seen[h] # {} /\ <<call[h].issuer, held[h].client>> = <<i, c>>
               THEN seen[h] \union {reg} ELSE seen[h]]
  BY DEF SetClient
<1>2. /\ requests' = requests /\ par' = par /\ lastCollection' = lastCollection
      /\ nextID' = nextID /\ now' = now /\ cookies' = cookies
      /\ disclosed' = disclosed /\ lineage' = lineage /\ answered' = answered /\ lost' = lost
      /\ pc' = pc /\ call' = call /\ held' = held
  BY DEF SetClient, store, history
<1>3. TypeOK'
  <2>1. clients' \in [Issuers \X ClientIDs -> Registrations]
    BY <1>0, <1>1 DEF TypeOK
  <2>2. seen' \in [Procs -> SUBSET Registrations]
    BY <1>0, <1>1 DEF TypeOK
  <2> QED BY <1>0, <1>2, <2>1, <2>2 DEF TypeOK
<1>4. StoreOK'
  BY <1>0, <1>2 DEF StoreOK, Has
<1>5. OnePlace'
  BY <1>0, <1>2 DEF OnePlace, Carries, Open, Kept, Has, AtMostOneAnswer
<1>6. SavedRequestsAreAnswered'
  BY <1>0, <1>2 DEF SavedRequestsAreAnswered, Has, At
<1>7. ASSUME NEW h \in Procs PROVE HandlerOK(h)' /\ WorkOK(h)'
  <2>1. HandlerOK(h) /\ WorkOK(h)
    BY DEF Inductive
  <2>2. HandlerOK(h)'
    BY <1>2, <2>1 DEF HandlerOK
  <2>3. Past(h)' = Past(h)
    BY <1>2 DEF Past
  <2>4. LoginFresh(h)' <=> LoginFresh(h)
    BY <1>2, <2>3 DEF LoginFresh
  <2>5. \A q : Permits(q, h)' <=> Permits(q, h)
    BY <1>2, <2>3 DEF Permits
  <2>6. seen[h] \subseteq seen'[h]
    BY <1>1
  <2>7. (pc[h] = "check" /\ call[h].op = "approve") => Reg(h)' \in seen'[h]
    <3> SUFFICES ASSUME pc[h] = "check", call[h].op = "approve" PROVE Reg(h)' \in seen'[h]
      OBVIOUS
    <3>1. Reg(h) \in seen[h] /\ call[h] \in Call /\ held[h] \in Record
      BY <2>1 DEF WorkOK, HandlerOK
    <3>2. Reg(h)' = clients'[<<call[h].issuer, held[h].client>>]
      BY <1>2 DEF Reg
    <3>3. <<call[h].issuer, held[h].client>> \in Issuers \X ClientIDs
      BY <3>1, Fields
    <3>4. CASE <<call[h].issuer, held[h].client>> = <<i, c>>
      BY <1>0, <1>1, <3>1, <3>2, <3>4 DEF TypeOK
    <3>5. CASE <<call[h].issuer, held[h].client>> # <<i, c>>
      <4>1. Reg(h)' = Reg(h)
        BY <1>0, <1>1, <3>2, <3>3, <3>5 DEF TypeOK, Reg
      <4> QED BY <2>6, <3>1, <4>1
    <3> QED BY <3>4, <3>5
  <2>8. WorkOK(h)'
    BY <1>2, <2>1, <2>3, <2>4, <2>5, <2>6, <2>7 DEF WorkOK
  <2> QED BY <2>2, <2>8
<1> QED BY <1>3, <1>4, <1>5, <1>6, <1>7 DEF Inductive

(* Time passes. *)
LEMMA TickInductive ==
    ASSUME Inductive, Tick
    PROVE  Inductive'
<1>0. /\ TypeOK /\ StoreOK /\ OnePlace /\ SavedRequestsAreAnswered
      /\ now \in 0 .. MaxTime /\ MaxTime \in Nat /\ nextID \in Int
  BY ConstantsAssumption DEF Inductive, TypeOK
<1>1. /\ requests' = requests /\ par' = par /\ lastCollection' = lastCollection
      /\ nextID' = nextID /\ clients' = clients /\ cookies' = cookies
      /\ disclosed' = disclosed /\ lineage' = lineage /\ answered' = answered /\ lost' = lost
      /\ pc' = pc /\ call' = call /\ held' = held /\ seen' = seen
      /\ now' = now + 1 /\ now < MaxTime
  BY DEF Tick, store, history
<1>2. Frame /\ now' \in Nat /\ now' \in 0 .. MaxTime
  BY <1>0, <1>1 DEF Frame
<1>3. TypeOK'
  BY <1>0, <1>1, <1>2 DEF TypeOK
<1>4. StoreOK'
  BY <1>0, <1>1 DEF StoreOK, Has
<1>5. OnePlace'
  BY <1>0, <1>1 DEF OnePlace, Carries, Open, Kept, Has, AtMostOneAnswer
<1>6. \A v \in disclosed \ par : lineage[v].expire \in Nat
  <2> SUFFICES ASSUME NEW v \in disclosed PROVE lineage[v].expire \in Nat
    OBVIOUS
  <2>1. v \in IDs /\ ~(v >= nextID)
    BY <1>0 DEF TypeOK, StoreOK
  <2>2. v < nextID
    BY <1>0, <2>1, IDFacts
  <2> QED BY <1>0, <2>1, <2>2, Fields DEF StoreOK
<1>7. \A v \in disclosed \ par : now > lineage[v].expire => now' > lineage[v].expire
  BY <1>0, <1>1, <1>6
<1>8. SavedRequestsAreAnswered'
  BY <1>0, <1>1, <1>7 DEF SavedRequestsAreAnswered, Has, At
<1>9. \A k \in Procs : HandlerOK(k)' /\ WorkOK(k)'
  BY <1>1, <1>2, OtherKeeps
<1> QED BY <1>3, <1>4, <1>5, <1>8, <1>9 DEF Inductive

(* The store collects on its own. *)
LEMMA CollectInductive ==
    ASSUME Inductive, Collect
    PROVE  Inductive'
<1>0. /\ TypeOK /\ StoreOK /\ OnePlace /\ SavedRequestsAreAnswered
      /\ now \in Nat /\ nextID \in Int /\ disclosed \subseteq IDs
  BY DEF Inductive, TypeOK
<1>1. /\ collects /\ now' = now /\ clients' = clients /\ cookies' = cookies
      /\ disclosed' = disclosed /\ lineage' = lineage /\ answered' = answered /\ lost' = lost
      /\ pc' = pc /\ call' = call /\ held' = held /\ seen' = seen
  BY DEF Collect, world, history
<1>2. /\ Drops /\ requests' \in [IDs -> Record \union {NotFound}]
      /\ lastCollection' \in Int /\ par' = par /\ nextID' = nextID
      /\ \A v \in IDs : Has(v) /\ ~Has(v)' => now > lineage[v].expire
  BY <1>1, CollectStep
<1>3. Frame
  BY <1>0, <1>1, <1>2 DEF Frame
<1>4. TypeOK'
  BY <1>0, <1>1, <1>2 DEF TypeOK
<1>5. StoreOK'
  BY <1>0, <1>1, <1>2, StoreDrops
<1>6. \A k \in Procs : HandlerOK(k)' /\ WorkOK(k)' /\ Carries(k)' = Carries(k)
  BY <1>0, <1>1, <1>3, OtherKeeps
<1>7. OnePlace'
  <2>1. \A v \in IDs : Has(v)' => Has(v)
    BY <1>2 DEF Drops, Has
  <2>2. \A w \in Open' : w \in Open /\ Kept(w)' = Kept(w)
    BY <1>0, <1>1, <2>1 DEF Open, Kept
  <2>3. AtMostOneAnswer'
    BY <1>0, <1>1 DEF OnePlace, AtMostOneAnswer
  <2>4. \A k \in Procs : Carries(k) \subseteq IDs
    BY DEF Carries
  <2>5. \A w : Kept(w) \subseteq IDs
    BY DEF Kept
  <2> QED BY <1>0, <1>1, <1>6, <2>1, <2>2, <2>3, <2>4, <2>5 DEF OnePlace
<1>8. SavedRequestsAreAnswered'
  BY <1>0, <1>1, <1>2 DEF SavedRequestsAreAnswered, At
<1> QED BY <1>4, <1>5, <1>6, <1>7, <1>8 DEF Inductive

(* The initial states satisfy the invariant. *)
LEMMA InitInductive == Init => Inductive
<1> SUFFICES ASSUME Init PROVE Inductive
  OBVIOUS
<1>1. TypeOK
  <2>1. now \in 0 .. MaxTime /\ lastCollection \in Int /\ nextID \in 1 .. MaxRequests + 1
    BY ConstantsAssumption DEF Init
  <2> QED BY <2>1 DEF Init, TypeOK, PCs
<1>2. \A v \in IDs : ~Has(v) /\ v \notin disclosed /\ v \notin par /\ answered[v] = 0
  BY DEF Init, Has
<1>3. \A v \in IDs : ~(v < nextID)
  BY DEF Init, IDs
<1>4. StoreOK
  BY <1>2, <1>3 DEF StoreOK, Init
<1>5. \A h \in Procs : pc[h] = "idle" /\ Carries(h) = {}
  BY DEF Init, Carries
<1>6. OnePlace
  BY <1>2, <1>5 DEF OnePlace, Open, AtMostOneAnswer, Init
<1>7. SavedRequestsAreAnswered
  BY DEF SavedRequestsAreAnswered, Init
<1>8. \A h \in Procs : HandlerOK(h) /\ WorkOK(h)
  BY <1>5 DEF HandlerOK, WorkOK
<1> QED BY <1>1, <1>4, <1>6, <1>7, <1>8 DEF Inductive

(* Stuttering. *)
LEMMA StutterInductive ==
    ASSUME Inductive, UNCHANGED vars
    PROVE  Inductive'
<1>1. /\ requests' = requests /\ par' = par /\ lastCollection' = lastCollection
      /\ nextID' = nextID /\ now' = now /\ clients' = clients /\ cookies' = cookies
      /\ disclosed' = disclosed /\ lineage' = lineage /\ answered' = answered /\ lost' = lost
      /\ pc' = pc /\ call' = call /\ held' = held /\ seen' = seen
  BY DEF vars, store, world, history
<1>2. TypeOK' /\ StoreOK' /\ SavedRequestsAreAnswered'
  BY <1>1 DEF Inductive, TypeOK, StoreOK, Has, SavedRequestsAreAnswered, At
<1>3. OnePlace'
  BY <1>1 DEF Inductive, OnePlace, Carries, Open, Kept, Has, AtMostOneAnswer
<1>4. now \in Int /\ nextID \in Int /\ now \in Nat
  BY DEF Inductive, TypeOK
<1>5. Frame
  BY <1>1, <1>4 DEF Frame
<1>6. \A k \in Procs : HandlerOK(k)' /\ WorkOK(k)'
  BY <1>1, <1>4, <1>5, OtherKeeps
<1> QED BY <1>2, <1>3, <1>6 DEF Inductive

(* Every step keeps the invariant. *)
LEMMA StepInductive ==
    ASSUME Inductive, [Next]_vars
    PROVE  Inductive'
<1>1. ASSUME NEW h \in Procs, Arrive(h) \/ Step(h) \/ Crash(h)
      PROVE  Inductive'
  BY <1>1, ArriveInductive, CrashInductive, AdjustInductive, PushInductive,
     ChooseInductive, RefusalInductive, LoadInductive, AcceptInductive,
     ApprovalInductive, DenialInductive, CheckRefusesInductive,
     CreateSucceedsInductive, CreateFailsInductive, DeleteInductive, DeniedInductive,
     DeleteRefusesInductive, RecheckInductive, RecheckRefusesInductive, CodeInductive
     DEF Step
<1> QED
  BY <1>1, SetClientInductive, TickInductive, CollectInductive, StutterInductive DEF Next

------------------------------------------------------------------------------
(* What the specification promises. *)

(***************************************************************************)
(* The invariant holds in every reachable state, for any number of         *)
(* handlers, user agents, clients and requests, whichever calls fail.      *)
(***************************************************************************)
THEOREM InductiveInvariant == Spec => []Inductive
  BY InitInductive, StepInductive, PTL DEF Spec

(* The state of the authorization endpoint and its store has its type. *)
THEOREM TypeCorrect == Spec => []TypeOK
<1>1. Inductive => TypeOK
  BY DEF Inductive
<1> QED BY <1>1, InductiveInvariant, PTL

(***************************************************************************)
(* Concurrent calls of Approve, Deny and of the redemption of a            *)
(* request_uri answer a request at most once (completeRequest,             *)
(* redeemPushedRequest).                                                   *)
(***************************************************************************)
THEOREM OneAnswer == Spec => []AtMostOneAnswer
<1>1. Inductive => AtMostOneAnswer
  BY DEF Inductive, OnePlace
<1> QED BY <1>1, InductiveInvariant, PTL

(***************************************************************************)
(* A saved request is completed in the user agent that started it, unless  *)
(* Config.DisableInteractionBinding is set (loadPending, BindingHash).     *)
(***************************************************************************)
THEOREM StarterCompletes == Spec => []CompletedByStarter
<1>1. Inductive => CompletedByStarter
  BY DEF Inductive, CompletedByStarter, WorkOK, At
<1> QED BY <1>1, InductiveInvariant, PTL

(***************************************************************************)
(* A code is issued only for what a registration allows that was in force  *)
(* during the call of Approve (checkRequest, checkUnsaved).                *)
(***************************************************************************)
THEOREM CodesArePermitted == Spec => []CodeIsPermitted
<1>1. Inductive => CodeIsPermitted
  BY DEF Inductive, CodeIsPermitted, HandlerOK, WorkOK, At
<1> QED BY <1>1, InductiveInvariant, PTL

(***************************************************************************)
(* A code that asks for a login is issued for one that is recent enough,   *)
(* also for requests that were pushed and saved before                     *)
(* (needsAuthentication, redeemPushedRequest).                             *)
(***************************************************************************)
THEOREM LoginsAreFresh == Spec => []LoginIsFresh
<1>1. Inductive => LoginIsFresh
  BY DEF Inductive, LoginIsFresh, LoginFresh, HandlerOK, WorkOK, At
<1> QED BY <1>1, InductiveInvariant, PTL

(***************************************************************************)
(* A saved request leaves the store only to be answered, because it        *)
(* expired, or lost with a handler or a deletion that reported an error    *)
(* (Approve, Deny).                                                        *)
(***************************************************************************)
THEOREM SavedRequestsSurvive == Spec => []SavedRequestsAreAnswered
<1>1. Inductive => SavedRequestsAreAnswered
  BY DEF Inductive
<1> QED BY <1>1, InductiveInvariant, PTL

------------------------------------------------------------------------------
(* Authorization implements RequestLife. *)

(* Requests only leave. *)
LEMMA LifeLeaves ==
    ASSUME disclosed' = disclosed, \A v \in disclosed : Has(v)' => Has(v)
    PROVE  Life!Leave
<1>1. placeBar' \in [IDs -> {"unknown", "open", "taken"}]
  BY DEF placeBar
<1>2. ASSUME NEW v \in IDs, placeBar'[v] # placeBar[v]
      PROVE  placeBar[v] = "open" /\ placeBar'[v] = "taken"
  <2>1. placeBar[v] = IF v \notin disclosed THEN "unknown" ELSE IF Has(v) THEN "open" ELSE "taken"
    BY DEF placeBar
  <2>2. placeBar'[v] = IF v \notin disclosed THEN "unknown" ELSE IF Has(v)' THEN "open" ELSE "taken"
    BY DEF placeBar
  <2> QED BY <1>2, <2>1, <2>2
<1> QED BY <1>1, <1>2 DEF Life!Leave, Life!Leaving

(* A response about requests that were taken from the store. *)
LEMMA LifeAnswers ==
    ASSUME TypeOK, disclosed' = disclosed, \A u \in disclosed : Has(u)' => Has(u),
           NEW v \in IDs \union {0}, NEW o \in IDs \union {0}, Answered(v, o),
           \A w \in {v, o} \ {0} : w \in disclosed /\ ~Has(w)' /\ answered[w] = 0
    PROVE  Life!Next
<1>1. Life!Leave
  BY LifeLeaves
<1>2. answered \in [IDs -> Nat] /\ 0 \notin IDs
  BY IDFacts DEF TypeOK
<1>3. ASSUME NEW x \in IDs, NEW y \in IDs, {v, o} \ {0} = {x, y} PROVE Life!Answer(x, y)
  <2>1. /\ x \in disclosed /\ ~Has(x)' /\ answered[x] = 0
        /\ y \in disclosed /\ ~Has(y)' /\ answered[y] = 0
    BY <1>3
  <2>2. /\ placeBar[x] # "unknown" /\ placeBar[y] # "unknown"
        /\ placeBar'[x] = "taken" /\ placeBar'[y] = "taken"
    BY <2>1 DEF placeBar
  <2>3. answered' = [answered EXCEPT ![x] = 1, ![y] = 1]
    <3>1. \A w \in IDs : w \in {v, o} <=> (w = x \/ w = y)
      BY <1>2, <1>3
    <3>2. ASSUME NEW w \in IDs
          PROVE  answered[w] + (IF w \in {v, o} THEN 1 ELSE 0)
                   = IF w = x \/ w = y THEN 1 ELSE answered[w]
      BY <1>2, <2>1, <3>1
    <3>3. answered' = [w \in IDs |-> IF w = x \/ w = y THEN 1 ELSE answered[w]]
      BY <3>2 DEF Answered
    <3> QED BY <1>2, <3>3
  <2> QED BY <1>1, <2>1, <2>2, <2>3 DEF Life!Answer
<1>4. CASE v = 0 /\ o = 0
  <2>1. answered' = answered
    BY <1>2, <1>4 DEF Answered
  <2> QED BY <1>1, <2>1 DEF Life!Next, Life!Take
<1>5. CASE v = 0 /\ o # 0
  <2>1. {v, o} \ {0} = {o, o} /\ o \in IDs
    BY <1>5
  <2>2. Life!Answer(o, o)
    BY <1>3, <2>1
  <2> QED BY <2>1, <2>2 DEF Life!Next
<1>6. CASE v # 0 /\ o = 0
  <2>1. {v, o} \ {0} = {v, v} /\ v \in IDs
    BY <1>6
  <2>2. Life!Answer(v, v)
    BY <1>3, <2>1
  <2> QED BY <2>1, <2>2 DEF Life!Next
<1>7. CASE v # 0 /\ o # 0
  <2>1. {v, o} \ {0} = {v, o} /\ v \in IDs /\ o \in IDs
    BY <1>7
  <2>2. Life!Answer(v, o)
    BY <1>3, <2>1
  <2> QED BY <2>1, <2>2 DEF Life!Next
<1> QED BY <1>4, <1>5, <1>6, <1>7

(* Steps that hand out no ID and send no response. *)
Silent == /\ disclosed' = disclosed /\ answered' = answered
          /\ \A v \in disclosed : Has(v)' => Has(v)

(* They are steps of RequestLife in which requests may leave. *)
LEMMA LifeTakes == ASSUME Silent PROVE Life!Next
<1>1. Life!Leave /\ answered' = answered
  BY LifeLeaves DEF Silent
<1> QED BY <1>1 DEF Life!Next, Life!Take

(* The steps that leave the store alone, and say nothing to the client. *)
LEMMA SilentSteps ==
    ASSUME NEW h \in Procs,
           \/ Arrive(h) \/ Adjust(h) \/ Push(h) \/ GiveUp(h) \/ Crash(h)
           \/ \E op \in {"save", "approve", "deny"} : Choose(h, op)
           \/ LoadFinds(h) \/ LoadRefuses(h) \/ Accept(h) \/ AcceptApproval(h) \/ Recheck(h)
    PROVE  Silent
<1>1. UNCHANGED store /\ UNCHANGED world /\ answered' = answered
  <2>1. CASE Arrive(h)
    BY <2>1 DEF Arrive, BeginPush, BeginAuthorize, BeginRedeem, BeginComplete, history
  <2>2. CASE Adjust(h) \/ Push(h) \/ GiveUp(h) \/ Crash(h)
    BY <2>2 DEF Adjust, Push, GiveUp, Crash, history
  <2>3. CASE \E op \in {"save", "approve", "deny"} : Choose(h, op)
    BY <2>3 DEF Choose, history
  <2>4. CASE LoadFinds(h) \/ LoadRefuses(h) \/ Accept(h)
    BY <2>4 DEF LoadFinds, LoadRefuses, Accept, history
  <2>5. CASE AcceptApproval(h) \/ Recheck(h)
    BY <2>5 DEF AcceptApproval, Recheck, history
  <2> QED BY <2>1, <2>2, <2>3, <2>4, <2>5
<1>2. requests' = requests /\ disclosed' = disclosed
  BY <1>1 DEF store, world
<1> QED BY <1>1, <1>2 DEF Silent, Has

(* A handler that got no further with its unsaved request. *)
LEMMA ReturnLife ==
    ASSUME Inductive, NEW h \in Procs, Return(h), pc[h] # "idle",
           disclosed' = disclosed, \A v \in disclosed : Has(v)' => Has(v)
    PROVE  Life!Next
<1>1. TypeOK
  BY DEF Inductive
<1>2. answered' = answered \/ Answered(0, call[h].origin)
  BY DEF Return
<1>3. CASE answered' = answered
  BY <1>3, LifeTakes DEF Silent
<1>4. CASE Answered(0, call[h].origin)
  <2>1. call[h].origin \in Carries(h) \union {0} /\ call[h].origin \in IDs \union {0}
    BY OriginPool, ValueFacts
  <2>2. \A w \in {0, call[h].origin} \ {0} : w \in disclosed /\ ~Has(w)' /\ answered[w] = 0
    BY <2>1 DEF Inductive, OnePlace
  <2> QED BY <1>1, <1>4, <2>1, <2>2, LifeAnswers
<1> QED BY <1>2, <1>3, <1>4

(* The steps of handlers that take requests, answer or hand out IDs. *)
LEMMA StepLife ==
    ASSUME Inductive, NEW h \in Procs, Arrive(h) \/ Step(h) \/ Crash(h)
    PROVE  Life!Next
<1>0. TypeOK /\ StoreOK /\ OnePlace /\ HandlerOK(h) /\ disclosed \subseteq IDs
  BY DEF Inductive, TypeOK
<1>1. CASE AcceptDenial(h)
  <2>1. /\ pc[h] = "check" /\ requests' = requests /\ disclosed' = disclosed
        /\ answered' = answered \/ (Answered(0, call[h].origin))
    BY <1>1 DEF AcceptDenial, At, store, world, history
  <2>2. \A v : Has(v)' <=> Has(v)
    BY <2>1 DEF Has
  <2>3. CASE answered' = answered
    BY <2>1, <2>2, <2>3, LifeTakes DEF Silent
  <2>4. CASE Answered(0, call[h].origin)
    <3>1. call[h].origin \in Carries(h) \union {0} /\ call[h].origin \in IDs \union {0}
      BY <2>1, OriginPool, ValueFacts
    <3>2. \A w \in {0, call[h].origin} \ {0} : w \in disclosed /\ ~Has(w)' /\ answered[w] = 0
      BY <1>0, <2>2, <3>1 DEF OnePlace
    <3> QED BY <1>0, <2>1, <2>2, <2>4, <3>1, <3>2, LifeAnswers
  <2> QED BY <2>1, <2>3, <2>4
<1>2. CASE CheckRefuses(h)
  <2>1. pc[h] = "check" /\ Return(h) /\ requests' = requests /\ disclosed' = disclosed
    BY <1>2 DEF CheckRefuses, At, store, world
  <2>2. \A v : Has(v)' <=> Has(v)
    BY <2>1 DEF Has
  <2> QED BY <2>1, <2>2, ReturnLife
<1>3. CASE CreateFails(h)
  <2>1. /\ pc[h] = "create" /\ Return(h) /\ disclosed' = disclosed
        /\ Create(h) \/ requests' = requests
    BY <1>3 DEF CreateFails, At, StorageError, store
  <2>2. \A v \in disclosed : Has(v)' => Has(v)
    <3>1. CASE Create(h)
      BY <2>1, <3>1, CreateFrame
    <3>2. CASE requests' = requests
      BY <3>2 DEF Has
    <3> QED BY <2>1, <3>1, <3>2
  <2> QED BY <2>1, <2>2, ReturnLife
<1>4. CASE CreateSucceeds(h)
  <2>1. Create(h) /\ disclosed' = disclosed \union {nextID} /\ answered' = answered
    BY <1>4 DEF CreateSucceeds
  <2>2. PICK n \in IDs : n = nextID
    BY <2>1, CreateFacts
  <2>3. n \notin disclosed /\ n \in disclosed' /\ Has(n)'
    BY <2>1, <2>2, CreateFacts DEF Has
  <2>4. \A v \in disclosed : Has(v)' => Has(v)
    BY <2>1, CreateFrame
  <2>5. placeBar[n] = "unknown" /\ placeBar'[n] = "open"
    BY <2>3 DEF placeBar
  <2>6. placeBar' \in [IDs -> {"unknown", "open", "taken"}]
    BY DEF placeBar
  <2>7. ASSUME NEW v \in IDs \ {n}, placeBar'[v] # placeBar[v]
        PROVE  placeBar[v] = "open" /\ placeBar'[v] = "taken"
    <3>1. placeBar[v] = IF v \notin disclosed THEN "unknown" ELSE IF Has(v) THEN "open" ELSE "taken"
      BY DEF placeBar
    <3>2. placeBar'[v] = IF v \notin disclosed' THEN "unknown" ELSE IF Has(v)' THEN "open" ELSE "taken"
      BY DEF placeBar
    <3>3. v \in disclosed' <=> v \in disclosed
      BY <2>1, <2>2
    <3> QED BY <2>4, <2>7, <3>1, <3>2, <3>3
  <2>8. Life!Open(n)
    BY <2>1, <2>5, <2>6, <2>7 DEF Life!Open, Life!Leaving
  <2> QED BY <2>8 DEF Life!Next
<1>5. CASE Delete(h) \/ DeleteRefuses(h)
  <2>1. /\ disclosed' = disclosed /\ answered' = answered /\ pc[h] = "delete"
        /\ requests' = requests \/ Remove(call[h].value)
    BY <1>5 DEF Delete, DeleteRefuses, At, world, history, store, StorageError
  <2>2. call[h].value \in disclosed
    BY <1>0, <2>1 DEF HandlerOK
  <2>3. \A v \in disclosed : Has(v)' => Has(v)
    <3>1. CASE requests' = requests
      BY <3>1 DEF Has
    <3>2. CASE Remove(call[h].value)
      BY <1>0, <2>1, <2>2, <3>2, RemoveStep DEF Drops, Has
    <3> QED BY <2>1, <3>1, <3>2
  <2> QED BY <2>1, <2>3, LifeTakes DEF Silent
<1>6. CASE DeleteDenied(h)
  <2>0. pc[h] = "delete" /\ call[h].value \in disclosed /\ call[h].value # 0
    BY <1>0, <1>6, ValueFacts DEF DeleteDenied, At, HandlerOK
  <2>v. PICK v \in disclosed : v = call[h].value
    BY <2>0
  <2>2. v \in IDs /\ v # 0 /\ lineage[v].origin \in IDs \union {0}
    BY <2>0, <2>v, ValueFacts, Fields
  <2>o. PICK o \in IDs \union {0} : o = lineage[v].origin
    BY <2>2
  <2>1. disclosed' = disclosed /\ Remove(v) /\ Answered(v, o)
    BY <1>6, <2>v, <2>o DEF DeleteDenied
  <2>3. /\ Drops /\ v \in Open /\ ~Has(v)'
    BY <2>1, RemoveStep
  <2>4. \A u \in disclosed : Has(u)' => Has(u)
    BY <1>0, <2>3 DEF Drops, Has
  <2>5. ASSUME NEW w \in {v, o} \ {0} PROVE w \in disclosed /\ ~Has(w)' /\ answered[w] = 0
    <3>1. w \in Kept(v)
      BY <2>2, <2>o DEF Kept
    <3>2. w \in disclosed /\ (Has(w) => w = v) /\ answered[w] = 0
      BY <1>0, <2>3, <3>1 DEF OnePlace
    <3> QED BY <2>3, <2>4, <3>2
  <2> QED BY <1>0, <2>1, <2>2, <2>4, <2>5, LifeAnswers
<1>7. CASE RecheckRefuses(h)
  <2>1. /\ pc[h] = "recheck" /\ requests' = requests /\ disclosed' = disclosed
        /\ answered' = answered \/ Answered(call[h].value, 0)
    BY <1>7 DEF RecheckRefuses, At, store, world
  <2>2. \A v : Has(v)' <=> Has(v)
    BY <2>1 DEF Has
  <2>3. CASE answered' = answered
    BY <2>1, <2>2, <2>3, LifeTakes DEF Silent
  <2>4. CASE Answered(call[h].value, 0)
    <3>1. call[h].value \in IDs \union {0}
      BY <2>1, ValueFacts
    <3>2. call[h].value \in Carries(h) \union {0}
      BY <2>1, <3>1 DEF Carries
    <3>3. \A w \in {call[h].value, 0} \ {0} : w \in disclosed /\ ~Has(w)' /\ answered[w] = 0
      BY <1>0, <2>2, <3>2 DEF OnePlace
    <3> QED BY <1>0, <2>1, <2>2, <2>4, <3>1, <3>3, LifeAnswers
  <2> QED BY <2>1, <2>3, <2>4
<1>8. CASE IssueCode(h) \/ CodeFails(h)
  <2>1. /\ pc[h] = "code" /\ disclosed' = disclosed
        /\ Answered(call[h].value, Past(h).origin)
        /\ collects \/ requests' = requests
    BY <1>8 DEF IssueCode, CodeFails, At, world, store, StorageError
  <2>2. \A v \in disclosed : Has(v)' => Has(v)
    <3>1. CASE collects
      BY <1>0, <3>1, CollectStep DEF Drops, Has
    <3>2. CASE requests' = requests
      BY <3>2 DEF Has
    <3> QED BY <2>1, <3>1, <3>2
  <2>3. {call[h].value, Past(h).origin} \subseteq Carries(h) \union {0}
    BY <2>1, CodePool
  <2>4. call[h].value \in IDs \union {0} /\ Past(h).origin \in IDs \union {0}
    BY <2>3 DEF Carries
  <2>5. \A w \in {call[h].value, Past(h).origin} \ {0} :
           w \in disclosed /\ ~Has(w)' /\ answered[w] = 0
    BY <1>0, <2>2, <2>3 DEF OnePlace
  <2> QED BY <1>0, <2>1, <2>2, <2>4, <2>5, LifeAnswers
<1> QED
  BY <1>1, <1>2, <1>3, <1>4, <1>5, <1>6, <1>7, <1>8, SilentSteps, LifeTakes DEF Step

(***************************************************************************)
(* The handlers of authorize.go, par.go and approve.go implement           *)
(* RequestLife: a request that was completed, redeemed or dropped is never *)
(* open again, and one response answers it and the pushed request it came  *)
(* from, however the handlers interleave, fail or crash.                   *)
(***************************************************************************)
THEOREM RequestLifeRefined == Spec => ImplementsRequestLife
<1>1. Init => Life!Init
  BY DEF Init, Life!Init, placeBar
<1>2. ASSUME Inductive, [Next]_vars PROVE Life!Next \/ UNCHANGED Life!life
  <2>1. ASSUME NEW h \in Procs, Arrive(h) \/ Step(h) \/ Crash(h) PROVE Life!Next
    BY <1>2, <2>1, StepLife
  <2>2. CASE SetClient \/ Tick \/ UNCHANGED vars
    <3>1. requests' = requests /\ disclosed' = disclosed /\ answered' = answered
      BY <2>2 DEF SetClient, Tick, vars, store, world, history
    <3> QED BY <3>1, LifeTakes DEF Silent, Has
  <2>3. CASE Collect
    <3>1. collects /\ disclosed' = disclosed /\ answered' = answered /\ disclosed \subseteq IDs
      BY <1>2, <2>3 DEF Collect, world, history, Inductive, TypeOK
    <3>2. \A v \in disclosed : Has(v)' => Has(v)
      BY <1>2, <3>1, CollectStep DEF Drops, Has
    <3> QED BY <3>1, <3>2, LifeTakes DEF Silent
  <2> QED BY <1>2, <2>1, <2>2, <2>3 DEF Next
<1> QED BY <1>1, <1>2, InductiveInvariant, PTL DEF Spec, ImplementsRequestLife, Life!Spec
==============================================================================
