------------------------ MODULE ClientAssertionProofs ------------------------
(***************************************************************************)
(* Proofs about ClientAssertion, for all values of its constants.          *)
(***************************************************************************)
EXTENDS ClientAssertion, TLAPS

(* A handler about to claim has an assertion that does not expire too far  *)
(* in the future; time passing only brings its expiry nearer.              *)
PendingInTime ==
    \A h \in Procs : pc[h] = "claim" => call[h].assertion.exp <= now + MaxLifetime

(* While an assertion that was accepted has not expired, the store holds   *)
(* the claim that was recorded for it.                                     *)
Remembered ==
    \A u \in used :
        now < u[2].exp + Leeway =>
            claims[<<u[1], u[2].sub, u[2].jti>>] = u[2].exp + Leeway

Inductive == TypeOK /\ PendingInTime /\ ClaimsAreBounded /\ Remembered

(* Nothing is claimed, used or pending at first. *)
LEMMA InitEstablishes == Init => Inductive
  BY ConstantsAssumption DEF Init, Inductive, TypeOK, PendingInTime,
     ClaimsAreBounded, Remembered

(* collectLocked keeps the claims well-typed, adds none, and drops none    *)
(* that has not ended.                                                     *)
LEMMA CollectedKeeps ==
    ASSUME TypeOK
    PROVE  /\ collected \in [ClaimKeys -> Nat \union {None}]
           /\ collectionTime \in Int
           /\ \A k \in ClaimKeys : collected[k] \in {claims[k], None}
           /\ \A k \in ClaimKeys : claims[k] # None /\ now <= claims[k] =>
                                       collected[k] = claims[k]
  BY ConstantsAssumption DEF TypeOK, collected, collectionTime

(* The key of a well-typed request. *)
LEMMA KeyType ==
    ASSUME NEW q \in Request
    PROVE  /\ assertionKey(q) \in ClaimKeys
           /\ q.assertion.exp \in Nat
           /\ q.assertion \in Assertions
           /\ q.issuer \in Issuers
           /\ q.client \in ClientIDs \union {None}
  BY ConstantsAssumption DEF Request, Assertion, assertionKey, ClaimKeys

(* Every step that leaves the store, the clock and the history alone keeps *)
(* what the invariant says of them.                                        *)
LEMMA StoreUnchanged ==
    ASSUME Inductive, UNCHANGED <<now, store, used>>
    PROVE  ClaimsAreBounded' /\ Remembered'
  BY DEF Inductive, store, ClaimsAreBounded, Remembered

(* A request that leaves its handler keeps the types of the handlers.      *)
LEMMA FinishKeeps ==
    ASSUME Inductive, NEW h \in Procs, Finish(h), now' = now
    PROVE  /\ pc' \in [Procs -> {"idle", "lookup", "verify", "claim", "accepted", "replay"}]
           /\ call' \in [Procs -> Request \union {None}]
           /\ \A g \in Procs : pc'[g] # "idle" => call'[g] \in Request
           /\ found' \in [Procs -> Registrations \union {None}]
           /\ PendingInTime'
  BY DEF Inductive, TypeOK, Finish, PendingInTime

(* So does one that goes on, provided that it may claim.                   *)
LEMMA GotoKeeps ==
    ASSUME Inductive, NEW h \in Procs, pc[h] # "idle", now' = now,
           NEW label \in {"claim", "accepted", "replay"}, Goto(h, label),
           label = "claim" => call[h].assertion.exp <= now + MaxLifetime
    PROVE  /\ pc' \in [Procs -> {"idle", "lookup", "verify", "claim", "accepted", "replay"}]
           /\ call' \in [Procs -> Request \union {None}]
           /\ \A g \in Procs : pc'[g] # "idle" => call'[g] \in Request
           /\ found' \in [Procs -> Registrations \union {None}]
           /\ PendingInTime'
  BY DEF Inductive, TypeOK, Goto, PendingInTime

(* A claim that succeeds overwrites only a claim that has ended, so that   *)
(* every use that is not over stays remembered.                            *)
LEMMA ClaimOnceKeeps ==
    ASSUME Inductive, NEW h \in Procs, pc[h] = "claim", ClaimOnce(call[h]), now' = now
    PROVE  /\ claims' \in [ClaimKeys -> Nat \union {None}]
           /\ lastCollection' \in Int
           /\ ClaimsAreBounded'
           /\ \A u \in used : u[2].exp + Leeway <= now
                  \/ claims'[<<u[1], u[2].sub, u[2].jti>>] = u[2].exp + Leeway
           /\ claims'[assertionKey(call[h])] = call[h].assertion.exp + Leeway
           /\ \A u \in used : <<u[1], u[2].sub, u[2].jti>> = assertionKey(call[h]) =>
                  u[2].exp + Leeway <= now
<1> DEFINE q == call[h]
           e == q.assertion.exp + Leeway
           k == assertionKey(q)
<1>1. q \in Request
  BY DEF Inductive, TypeOK
<1>2. k \in ClaimKeys /\ e \in Nat /\ q.assertion.exp <= now + MaxLifetime
  BY <1>1, KeyType, ConstantsAssumption DEF Inductive, PendingInTime
<1>3. /\ claims' = [collected EXCEPT ![k] = e]
      /\ lastCollection' = collectionTime
      /\ collected[k] # None => ~(now < collected[k])
  BY DEF ClaimOnce
<1>4. /\ collected \in [ClaimKeys -> Nat \union {None}]
      /\ collectionTime \in Int
      /\ \A j \in ClaimKeys : collected[j] \in {claims[j], None}
      /\ \A j \in ClaimKeys : claims[j] # None /\ now <= claims[j] =>
                                  collected[j] = claims[j]
  BY CollectedKeeps DEF Inductive
<1>5. now \in Nat
  BY ConstantsAssumption DEF Inductive, TypeOK
<1>6. claims' \in [ClaimKeys -> Nat \union {None}] /\ lastCollection' \in Int
  BY <1>2, <1>3, <1>4
<1>7. claims'[k] = e
  BY <1>2, <1>3, <1>4
<1>8. ClaimsAreBounded'
  <2> SUFFICES ASSUME NEW j \in ClaimKeys, claims'[j] # None
               PROVE  claims'[j] <= now + MaxLifetime + Leeway
    BY DEF ClaimsAreBounded
  <2>1. CASE j = k
    <3>1. q.assertion.exp \in Nat
      BY <1>1, KeyType
    <3> QED
      BY <2>1, <3>1, <1>2, <1>5, <1>7, ConstantsAssumption
  <2>2. CASE j # k
    BY <2>2, <1>2, <1>3, <1>4 DEF Inductive, ClaimsAreBounded
  <2> QED
    BY <2>1, <2>2
<1>9. ASSUME NEW u \in used, now < u[2].exp + Leeway
      PROVE  /\ <<u[1], u[2].sub, u[2].jti>> \in ClaimKeys
             /\ collected[<<u[1], u[2].sub, u[2].jti>>] = u[2].exp + Leeway
             /\ u[2].exp + Leeway \in Nat
  <2>1. u[1] \in Issuers /\ u[2] \in Assertions
    BY DEF Inductive, TypeOK
  <2>2. u[2].sub \in ClientIDs /\ u[2].jti \in JTIs /\ u[2].exp \in Nat
    BY <2>1, ConstantsAssumption DEF Assertion
  <2>3. claims[<<u[1], u[2].sub, u[2].jti>>] = u[2].exp + Leeway
    BY <1>9 DEF Inductive, Remembered
  <2>4. <<u[1], u[2].sub, u[2].jti>> \in ClaimKeys
    BY <2>1, <2>2 DEF ClaimKeys
  <2>5. u[2].exp + Leeway \in Nat
    BY <2>2, ConstantsAssumption
  <2>6. claims[<<u[1], u[2].sub, u[2].jti>>] # None
    BY <2>3, <2>5, ConstantsAssumption
  <2>7. now <= u[2].exp + Leeway
    BY <1>9, <1>5, <2>5
  <2> QED
    BY <2>3, <2>4, <2>5, <2>6, <2>7, <1>4
<1>10. ASSUME NEW u \in used, <<u[1], u[2].sub, u[2].jti>> = k
       PROVE  u[2].exp + Leeway <= now
  <2>1. u[2].exp + Leeway \in Nat
    BY ConstantsAssumption DEF Inductive, TypeOK, Assertion
  <2>2. SUFFICES ASSUME now < u[2].exp + Leeway PROVE FALSE
    BY <2>1, <1>5
  <2>3. collected[k] = u[2].exp + Leeway
    BY <2>2, <1>9, <1>10
  <2>4. collected[k] # None
    BY <2>1, <2>3, ConstantsAssumption
  <2> QED
    BY <2>2, <2>3, <2>4, <1>3
<1>11. ASSUME NEW u \in used
       PROVE  u[2].exp + Leeway <= now
                  \/ claims'[<<u[1], u[2].sub, u[2].jti>>] = u[2].exp + Leeway
  <2>1. u[2].exp + Leeway \in Nat
    BY ConstantsAssumption DEF Inductive, TypeOK, Assertion
  <2>2. SUFFICES ASSUME now < u[2].exp + Leeway
                 PROVE  claims'[<<u[1], u[2].sub, u[2].jti>>] = u[2].exp + Leeway
    BY <2>1, <1>5
  <2>3. <<u[1], u[2].sub, u[2].jti>> # k
    BY <2>1, <2>2, <1>5, <1>10
  <2> QED
    BY <2>2, <2>3, <1>9, <1>3, <1>4
<1> QED
  BY <1>6, <1>7, <1>8, <1>10, <1>11

(* A collection drops only claims that have ended. *)
LEMMA CollectionPreserves ==
    ASSUME Inductive, claims' = collected, UNCHANGED <<now, used>>
    PROVE  ClaimsAreBounded' /\ Remembered'
<1>1. /\ \A k \in ClaimKeys : collected[k] \in {claims[k], None}
      /\ \A k \in ClaimKeys : claims[k] # None /\ now <= claims[k] =>
                                  collected[k] = claims[k]
  BY CollectedKeeps DEF Inductive
<1>2. ClaimsAreBounded'
  BY <1>1 DEF Inductive, ClaimsAreBounded
<1>3. Remembered'
  <2> SUFFICES ASSUME NEW u \in used, now < u[2].exp + Leeway
               PROVE  collected[<<u[1], u[2].sub, u[2].jti>>] = u[2].exp + Leeway
    BY DEF Remembered
  <2>1. u[1] \in Issuers /\ u[2] \in Assertions
    BY DEF Inductive, TypeOK
  <2>2. u[2].sub \in ClientIDs /\ u[2].jti \in JTIs /\ u[2].exp + Leeway \in Nat
    BY <2>1, ConstantsAssumption DEF Assertion
  <2>3. <<u[1], u[2].sub, u[2].jti>> \in ClaimKeys
    BY <2>1, <2>2 DEF ClaimKeys
  <2>4. claims[<<u[1], u[2].sub, u[2].jti>>] = u[2].exp + Leeway
    BY DEF Inductive, Remembered
  <2>5. now <= u[2].exp + Leeway /\ u[2].exp + Leeway # None
    BY <2>2, ConstantsAssumption DEF Inductive, TypeOK
  <2> QED
    BY <1>1, <2>3, <2>4, <2>5
<1> QED
  BY <1>2, <1>3

(* Every step of a handler keeps the invariant, one case per action. *)
LEMMA StepPreserves ==
    ASSUME Inductive, NEW h \in Procs, Step(h)
    PROVE  Inductive'
<1> USE DEF Inductive
<1>1. CASE Arrive(h)
  <2>1. TypeOK' /\ PendingInTime'
    BY <1>1 DEF Arrive, At, TypeOK, store, PendingInTime
  <2>2. UNCHANGED <<now, store, used>>
    BY <1>1 DEF Arrive
  <2> QED
    BY <2>1, <2>2, StoreUnchanged
<1>2. CASE LookupFinds(h)
  <2>1. call[h] \in Request
    BY <1>2 DEF LookupFinds, At, TypeOK
  <2>2. <<call[h].issuer, call[h].assertion.sub>> \in Issuers \X ClientIDs
    BY <2>1, ConstantsAssumption DEF Request, Assertion
  <2>3. clients[<<call[h].issuer, call[h].assertion.sub>>] \in Registrations
    BY <2>2 DEF TypeOK
  <2>4. TypeOK' /\ PendingInTime'
    BY <1>2, <2>1, <2>3 DEF LookupFinds, At, TypeOK, store, PendingInTime
  <2>5. UNCHANGED <<now, store, used>>
    BY <1>2 DEF LookupFinds
  <2> QED
    BY <2>4, <2>5, StoreUnchanged
<1>3. CASE LookupRefuses(h) \/ VerifyRefuses(h) \/ Leave(h) \/ Crash(h)
  <2>1. Finish(h) /\ UNCHANGED <<now, clients, store, used>>
    BY <1>3 DEF LookupRefuses, VerifyRefuses, Leave, Crash
  <2>2. TypeOK' /\ PendingInTime'
    BY <2>1, FinishKeeps DEF TypeOK, store
  <2> QED
    BY <2>1, <2>2, StoreUnchanged
<1>4. CASE VerifyPasses(h)
  <2>1. /\ Goto(h, "claim")
        /\ pc[h] # "idle"
        /\ call[h].assertion.exp <= now + MaxLifetime
        /\ UNCHANGED <<now, clients, store, used>>
    BY <1>4 DEF VerifyPasses, At, verified
  <2>2. TypeOK' /\ PendingInTime'
    BY <2>1, GotoKeeps DEF TypeOK, store
  <2> QED
    BY <2>1, <2>2, StoreUnchanged
<1>5. CASE ClaimSucceeds(h)
  <2>1. pc[h] = "claim" /\ ClaimOnce(call[h]) /\ UNCHANGED <<now, clients>>
    BY <1>5 DEF ClaimSucceeds, At
  <2>2. call[h] \in Request
    BY <2>1 DEF TypeOK
  <2>3. used' \in {used, used \union {<<call[h].issuer, call[h].assertion>>}}
    BY <1>5 DEF ClaimSucceeds
  <2>4. used' \subseteq Issuers \X Assertions
    BY <2>2, <2>3, KeyType DEF TypeOK
  <2>5. Goto(h, "accepted") \/ Finish(h)
    BY <1>5 DEF ClaimSucceeds
  <2>6. TypeOK' /\ PendingInTime'
    BY <2>1, <2>4, <2>5, ClaimOnceKeeps, GotoKeeps, FinishKeeps DEF TypeOK
  <2>7. Remembered'
    <3> SUFFICES ASSUME NEW u \in used', now < u[2].exp + Leeway
                 PROVE  claims'[<<u[1], u[2].sub, u[2].jti>>] = u[2].exp + Leeway
      BY <2>1 DEF Remembered
    <3>1. CASE u \in used
      <4>1. u[2].exp + Leeway \in Nat /\ now \in Nat
        BY <3>1, ConstantsAssumption DEF TypeOK, Assertion
      <4> QED
        BY <3>1, <4>1, <2>1, ClaimOnceKeeps
    <3>2. CASE u = <<call[h].issuer, call[h].assertion>>
      BY <3>2, <2>1, ClaimOnceKeeps DEF assertionKey
    <3> QED
      BY <2>3, <3>1, <3>2
  <2> QED
    BY <2>1, <2>6, <2>7, ClaimOnceKeeps
<1>6. CASE ClaimConflicts(h)
  <2>1. /\ pc[h] # "idle"
        /\ Goto(h, "replay")
        /\ claims' = collected
        /\ lastCollection' = collectionTime
        /\ UNCHANGED <<now, clients, used>>
    BY <1>6 DEF ClaimConflicts, At
  <2>2. TypeOK' /\ PendingInTime'
    BY <2>1, CollectedKeeps, GotoKeeps DEF TypeOK
  <2> QED
    BY <2>1, <2>2, CollectionPreserves
<1>7. CASE ClaimFails(h)
  <2>1. /\ pc[h] = "claim"
        /\ Finish(h)
        /\ UNCHANGED <<now, clients, used>>
        /\ UNCHANGED store \/ ClaimOnce(call[h])
    BY <1>7 DEF ClaimFails, At
  <2>2. CASE UNCHANGED store
    <3>1. TypeOK' /\ PendingInTime'
      BY <2>1, <2>2, FinishKeeps DEF TypeOK, store
    <3> QED
      BY <2>1, <2>2, <3>1, StoreUnchanged
  <2>3. CASE ClaimOnce(call[h])
    <3>1. TypeOK' /\ PendingInTime'
      BY <2>1, <2>3, FinishKeeps, ClaimOnceKeeps DEF TypeOK
    <3>2. Remembered'
      <4> SUFFICES ASSUME NEW u \in used, now < u[2].exp + Leeway
                   PROVE  claims'[<<u[1], u[2].sub, u[2].jti>>] = u[2].exp + Leeway
        BY <2>1 DEF Remembered
      <4>1. u[2].exp + Leeway \in Nat /\ now \in Nat
        BY ConstantsAssumption DEF TypeOK, Assertion
      <4> QED
        BY <4>1, <2>1, <2>3, ClaimOnceKeeps
    <3> QED
      BY <2>1, <2>3, <3>1, <3>2, ClaimOnceKeeps
  <2> QED
    BY <2>1, <2>2, <2>3
<1> QED
  BY <1>1, <1>2, <1>3, <1>4, <1>5, <1>6, <1>7 DEF Step

(* The invariant survives the clock, which only shortens what it promises. *)
LEMMA NextPreserves == Inductive /\ [Next]_vars => Inductive'
<1> SUFFICES ASSUME Inductive, [Next]_vars PROVE Inductive'
  OBVIOUS
<1>1. CASE \E h \in Procs : Step(h)
  BY <1>1, StepPreserves
<1>2. CASE SetClient
  <2>1. UNCHANGED <<now, store, handlers, used>>
    BY <1>2 DEF SetClient
  <2>2. TypeOK'
    BY <1>2, <2>1 DEF SetClient, Inductive, TypeOK, store, handlers
  <2>3. PendingInTime'
    BY <2>1 DEF Inductive, PendingInTime, handlers
  <2> QED
    BY <2>1, <2>2, <2>3, StoreUnchanged DEF Inductive
<1>3. CASE Tick
  <2>1. /\ now' = now + 1 /\ now' \in 0 .. MaxTime /\ now \in Nat
        /\ UNCHANGED <<clients, store, handlers, used>>
    BY <1>3, ConstantsAssumption DEF Tick, Inductive, TypeOK
  <2>2. TypeOK'
    BY <2>1 DEF Inductive, TypeOK, store, handlers
  <2>3. PendingInTime'
    <3> SUFFICES ASSUME NEW h \in Procs, pc[h] = "claim"
                 PROVE  call[h].assertion.exp <= now' + MaxLifetime
      BY <2>1 DEF PendingInTime, handlers
    <3>1. call[h] \in Request
      BY DEF Inductive, TypeOK
    <3>2. call[h].assertion.exp \in Nat
      BY <3>1, KeyType
    <3> QED
      BY <3>2, <2>1, ConstantsAssumption DEF Inductive, PendingInTime
  <2>4. ClaimsAreBounded'
    <3> SUFFICES ASSUME NEW k \in ClaimKeys, claims[k] # None
                 PROVE  claims[k] <= now' + MaxLifetime + Leeway
      BY <2>1 DEF ClaimsAreBounded, store
    <3>1. claims[k] \in Nat
      BY DEF Inductive, TypeOK
    <3> QED
      BY <3>1, <2>1, ConstantsAssumption DEF Inductive, ClaimsAreBounded
  <2>5. Remembered'
    <3> SUFFICES ASSUME NEW u \in used, now' < u[2].exp + Leeway
                 PROVE  claims[<<u[1], u[2].sub, u[2].jti>>] = u[2].exp + Leeway
      BY <2>1 DEF Remembered, store
    <3>1. u[2].exp + Leeway \in Nat
      BY ConstantsAssumption DEF Inductive, TypeOK, Assertion
    <3>2. now < u[2].exp + Leeway
      BY <3>1, <2>1
    <3> QED
      BY <3>2 DEF Inductive, Remembered
  <2> QED
    BY <2>2, <2>3, <2>4, <2>5 DEF Inductive
<1>4. CASE Collect
  <2>1. /\ claims' = collected
        /\ lastCollection' = collectionTime
        /\ UNCHANGED <<now, clients, handlers, used>>
    BY <1>4 DEF Collect
  <2>2. TypeOK'
    BY <2>1, CollectedKeeps DEF Inductive, TypeOK, handlers
  <2>3. PendingInTime'
    BY <2>1 DEF Inductive, PendingInTime, handlers
  <2> QED
    BY <2>1, <2>2, <2>3, CollectionPreserves DEF Inductive
<1>5. CASE UNCHANGED vars
  <2>1. UNCHANGED <<now, clients, store, handlers, used>>
    BY <1>5 DEF vars
  <2>2. TypeOK' /\ PendingInTime'
    BY <2>1 DEF Inductive, TypeOK, PendingInTime, store, handlers
  <2> QED
    BY <2>1, <2>2, StoreUnchanged DEF Inductive
<1> QED
  BY <1>1, <1>2, <1>3, <1>4, <1>5 DEF Next

(***************************************************************************)
(* The claims, the clock and the handlers together form an inductive       *)
(* invariant of client authentication.                                     *)
(***************************************************************************)
THEOREM InductiveInvariant == Spec => []Inductive
  BY InitEstablishes, NextPreserves, PTL DEF Spec

(***************************************************************************)
(* The variables keep their types.                                         *)
(***************************************************************************)
THEOREM TypeCorrect == Spec => []TypeOK
<1>1. Inductive => TypeOK
  BY DEF Inductive
<1> QED
  BY <1>1, InductiveInvariant, PTL

(***************************************************************************)
(* No claim outlives the longest assertion that verifyClientAssertion lets *)
(* through, however long a handler waits before it claims.                 *)
(***************************************************************************)
THEOREM BoundedClaims == Spec => []ClaimsAreBounded
<1>1. Inductive => ClaimsAreBounded
  BY DEF Inductive
<1> QED
  BY <1>1, InductiveInvariant, PTL

(* What NoReplayWhileValid says of one step. *)
NoReplayStep ==
    \A h \in Procs, u \in used :
        /\ Accepts(h)
        /\ u[1] = call[h].issuer
        /\ u[2].sub = call[h].assertion.sub
        /\ u[2].jti = call[h].assertion.jti
        => u[2].exp + Leeway <= now

(* An assertion is accepted only by the step that claims its jti. *)
LEMMA AcceptingClaims ==
    ASSUME Inductive, Next, NEW h \in Procs, Accepts(h)
    PROVE  ClaimSucceeds(h)
<1>1. /\ pc[h] = "claim"
      /\ pc'[h] = "accepted"
      /\ pc \in [Procs -> {"idle", "lookup", "verify", "claim", "accepted", "replay"}]
  BY DEF Accepts, At, Inductive, TypeOK
<1>2. PICK g \in Procs : Step(g)
  BY <1>1 DEF Next, SetClient, Tick, Collect, handlers
<1>3. g = h
  BY <1>1, <1>2 DEF Step, Arrive, LookupFinds, LookupRefuses, VerifyPasses,
     VerifyRefuses, ClaimSucceeds, ClaimConflicts, ClaimFails, Leave, Crash,
     Goto, Finish
<1> QED
  BY <1>1, <1>2, <1>3 DEF Step, Arrive, LookupFinds, LookupRefuses, VerifyPasses,
     VerifyRefuses, ClaimConflicts, ClaimFails, Leave, Crash, Goto, Finish, At

(* That step conflicts with every earlier use that has not expired. *)
LEMMA NoReplayInStep == Inductive /\ [Next]_vars => [NoReplayStep]_vars
<1> SUFFICES ASSUME Inductive, Next,
                    NEW h \in Procs, NEW u \in used, Accepts(h),
                    u[1] = call[h].issuer,
                    u[2].sub = call[h].assertion.sub,
                    u[2].jti = call[h].assertion.jti
             PROVE  u[2].exp + Leeway <= now
  BY DEF NoReplayStep
<1>1. pc[h] = "claim" /\ ClaimOnce(call[h]) /\ now' = now
  BY AcceptingClaims DEF ClaimSucceeds, At
<1>2. <<u[1], u[2].sub, u[2].jti>> = assertionKey(call[h])
  BY DEF assertionKey
<1> QED
  BY <1>1, <1>2, ClaimOnceKeeps

(***************************************************************************)
(* While an accepted assertion has not expired, no assertion of the same   *)
(* client with its jti is accepted, for any number of concurrent requests, *)
(* any delays and any storage failures.                                    *)
(***************************************************************************)
THEOREM NoReplay == Spec => NoReplayWhileValid
<1>1. Spec => [][NoReplayStep]_vars
  BY InductiveInvariant, NoReplayInStep, PTL DEF Spec
<1> QED
  BY <1>1 DEF NoReplayWhileValid, NoReplayStep

(* Whoever waits for a claim, and whatever was accepted, has the issuer as *)
(* the only audience.                                                      *)
OneAudience ==
    /\ \A h \in Procs : pc[h] = "claim" => call[h].assertion.aud = {call[h].issuer}
    /\ \A u \in used : u[2].aud = {u[1]}

LEMMA OneAudienceKept == TypeOK /\ OneAudience /\ [Next]_vars => OneAudience'
<1> SUFFICES ASSUME TypeOK, OneAudience, [Next]_vars PROVE OneAudience'
  OBVIOUS
<1> USE DEF OneAudience
<1>1. CASE UNCHANGED <<handlers, used>>
  BY <1>1 DEF handlers
<1>2. ASSUME NEW g \in Procs, Step(g) PROVE OneAudience'
  <2>1. CASE Arrive(g)
    BY <2>1 DEF Arrive, TypeOK
  <2>2. CASE LookupFinds(g)
    BY <2>2 DEF LookupFinds, TypeOK
  <2>3. CASE VerifyPasses(g)
    BY <2>3 DEF VerifyPasses, Goto, verified, TypeOK
  <2>4. CASE ClaimSucceeds(g)
    <3>1. used' \in {used, used \union {<<call[g].issuer, call[g].assertion>>}}
      BY <2>4 DEF ClaimSucceeds
    <3>2. call[g].assertion.aud = {call[g].issuer}
      BY <2>4 DEF ClaimSucceeds, At
    <3>3. \A u \in used' : u[2].aud = {u[1]}
      BY <3>1, <3>2
    <3>4. \A h \in Procs :
             pc'[h] = "claim" => call'[h].assertion.aud = {call'[h].issuer}
      BY <2>4 DEF ClaimSucceeds, Goto, Finish, TypeOK
    <3> QED
      BY <3>3, <3>4
  <2>5. CASE ClaimConflicts(g)
    BY <2>5 DEF ClaimConflicts, Goto, TypeOK
  <2>6. CASE LookupRefuses(g) \/ VerifyRefuses(g) \/ ClaimFails(g) \/ Leave(g)
             \/ Crash(g)
    BY <2>6 DEF LookupRefuses, VerifyRefuses, ClaimFails, Leave, Crash, Finish, TypeOK
  <2> QED
    BY <1>2, <2>1, <2>2, <2>3, <2>4, <2>5, <2>6 DEF Step
<1> QED
  BY <1>1, <1>2 DEF Next, SetClient, Tick, Collect, vars, handlers

(***************************************************************************)
(* An assertion is accepted at one issuer only, for any number of issuers  *)
(* and requests, because verifyClientAssertion demands the issuer as the   *)
(* single audience.                                                        *)
(***************************************************************************)
THEOREM OneIssuer == Spec => []AcceptedAtOneIssuer
<1>1. Init => OneAudience
  BY DEF Init, OneAudience
<1>2. OneAudience => AcceptedAtOneIssuer
  BY DEF OneAudience, AcceptedAtOneIssuer
<1> QED
  BY <1>1, <1>2, OneAudienceKept, TypeCorrect, PTL DEF Spec

(* What NoFalseReplay says of one step. *)
NoFalseReplayStep ==
    \A h \in Procs :
        LET k == <<call[h].issuer, call[h].assertion.sub, call[h].assertion.jti>> IN
        At(h, "claim") /\ pc'[h] = "replay" => claims[k] # None /\ now < claims[k]

LEMMA NoFalseReplayInStep ==
    TypeOK /\ [Next]_vars => [NoFalseReplayStep]_vars
<1> SUFFICES ASSUME TypeOK, Next, NEW h \in Procs, pc[h] = "claim", pc'[h] = "replay"
             PROVE  /\ claims[assertionKey(call[h])] # None
                    /\ now < claims[assertionKey(call[h])]
  BY DEF NoFalseReplayStep, At, assertionKey
<1>1. PICK g \in Procs : Step(g)
  BY DEF Next, SetClient, Tick, Collect, handlers
<1>2. ClaimConflicts(h)
  <2>1. g = h
    BY <1>1 DEF Step, Arrive, LookupFinds, LookupRefuses, VerifyPasses,
       VerifyRefuses, ClaimSucceeds, ClaimConflicts, ClaimFails, Leave, Crash,
       Goto, Finish, TypeOK
  <2> QED
    BY <1>1, <2>1 DEF Step, Arrive, LookupFinds, LookupRefuses, VerifyPasses,
       VerifyRefuses, ClaimSucceeds, ClaimFails, Leave, Crash, Goto, Finish, At, TypeOK
<1>3. assertionKey(call[h]) \in ClaimKeys
  BY KeyType DEF TypeOK
<1> QED
  BY <1>2, <1>3 DEF ClaimConflicts, collected

(***************************************************************************)
(* No client is refused as a replay because of another client's or another *)
(* issuer's jti: assertionKey keeps them apart, and collectLocked invents  *)
(* no claims.                                                              *)
(***************************************************************************)
THEOREM ReplaysAreReal == Spec => NoFalseReplay
<1>1. Spec => [][NoFalseReplayStep]_vars
  BY TypeCorrect, NoFalseReplayInStep, PTL DEF Spec
<1> QED
  BY <1>1 DEF NoFalseReplay, NoFalseReplayStep
==============================================================================
