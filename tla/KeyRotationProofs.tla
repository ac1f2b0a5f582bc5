-------------------------- MODULE KeyRotationProofs --------------------------
(***************************************************************************)
(* A rotation that removes a key as late as WaitsAssumption says never     *)
(* leaves a client without a signature or a token without its key in the   *)
(* JWKS, and a verifier that caches the JWKS lacks no key that was         *)
(* published before the JWKS can have been resolved, whatever the number   *)
(* of keys, requests and verifiers and however long tokens live.           *)
(***************************************************************************)
EXTENDS KeyRotation, TLAPS

In(k, ks) == \E i \in DOMAIN ks : ks[i] = k

(* The configuration has the keys that the application has published and   *)
(* not removed, each once, and a key that signs before the others of its   *)
(* algorithm.  A key that signs with the default algorithm is there.       *)
ConfigOK ==
    /\ \A i, j \in DOMAIN config : config[i] = config[j] => i = j
    /\ \A k \in Keys : In(k, config) <=> stage[k] \in {"published", "signing", "old"}
    /\ \A i, j \in DOMAIN config :
          (stage[config[i]] = "signing" /\ Alg[config[j]] = Alg[config[i]]) => i <= j
    /\ \E k \in Keys : stage[k] = "signing" /\ Alg[k] = "RS256"

(* The clock: nothing lies in the future, and no request outlives Flight. *)
ClockOK ==
    /\ \A k \in Keys : published[k] <= now /\ stopped[k] <= now
    /\ \A h \in Procs : job[h] # "idle" => begun[h] <= now /\ now <= begun[h] + Flight
    /\ \A r \in Verifiers : cache[r].at <= now
    /\ \A t \in tokens : now < t.exp

(* The key with which a request is going to sign still signs, or stopped   *)
(* to after the request began.                                             *)
SignerOK(h) ==
    LET k == forAlg(keys[h], detail[h]) IN
    /\ k \in Keys /\ Alg[k] = detail[h]
    /\ stage[k] = "signing" \/ (stage[k] = "old" /\ begun[h] <= stopped[k])

(* A JWKS on its way to a verifier has every key that was published before *)
(* the request began.                                                      *)
FetchOK(h) ==
    \A k \in Keys :
        (stage[k] \in {"published", "signing", "old"} /\ ~ In(k, keys[h])) =>
            begun[h] <= published[k]

(* A JWKS that lacks a key arrived Flight after the key was published, or  *)
(* before.                                                                 *)
CacheOK(r) ==
    \A k \in Keys :
        (stage[k] \in {"published", "signing", "old"} /\ <<k, Alg[k]>> \notin cache[r].jwks) =>
            cache[r].at <= published[k] + Flight

(* A token expires before the key that signed it can be removed. *)
TokenOK(t) ==
    /\ t.alg = Alg[t.kid]
    /\ \/ stage[t.kid] = "signing" /\ t.exp + Flight <= now + Grace
       \/ stage[t.kid] = "old" /\ t.exp <= stopped[t.kid] + Grace

Inductive ==
    /\ TypeOK
    /\ detail \in [Procs -> Algs \union Verifiers \union {NoKey}]
    /\ ConfigOK
    /\ ClockOK
    /\ \A h \in Procs : /\ job[h] = "sign" => SignerOK(h)
                        /\ job[h] = "jwks" => FetchOK(h)
    /\ \A r \in Verifiers : CacheOK(r)
    /\ \A t \in tokens : TokenOK(t)

------------------------------------------------------------------------------
(* The operators. *)

(* forAlg: a key that comes before every other key of its algorithm is the *)
(* one that signs.                                                         *)
LEMMA FirstSigns ==
    ASSUME NEW ks \in Seq(Keys), NEW i \in DOMAIN ks, NEW alg,
           Alg[ks[i]] = alg,
           \A j \in DOMAIN ks : Alg[ks[j]] = alg => i <= j
    PROVE  forAlg(ks, alg) = ks[i]
<1> DEFINE I == {j \in DOMAIN ks : Alg[ks[j]] = alg}
<1>1. i \in I /\ I \subseteq Int /\ \A j \in I : i <= j
    OBVIOUS
<1>2. (CHOOSE j \in I : \A l \in I : j <= l) = i
  <2>1. PICK c : c = CHOOSE j \in I : \A l \in I : j <= l
    OBVIOUS
  <2>2. c \in I /\ \A l \in I : c <= l
    BY <1>1, <2>1
  <2>3. c <= i /\ i <= c /\ c \in Int /\ i \in Int
    BY <1>1, <2>2
  <2> QED
    BY <2>1, <2>3
<1> QED
    BY <1>1, <1>2 DEF forAlg

(* Without: the result has the other keys, in the same order. *)
LEMMA WithoutKeeps ==
    ASSUME NEW ks \in Seq(Keys), NEW k \in Keys, In(k, ks),
           \A i, j \in DOMAIN ks : ks[i] = ks[j] => i = j
    PROVE  /\ Without(ks, k) \in Seq(Keys)
           /\ \A j \in Keys : In(j, Without(ks, k)) <=> In(j, ks) /\ j # k
           /\ \A i, j \in DOMAIN Without(ks, k) :
                 \E a, b \in DOMAIN ks : /\ Without(ks, k)[i] = ks[a]
                                         /\ Without(ks, k)[j] = ks[b]
                                         /\ i < j <=> a < b
                                         /\ i = j <=> a = b
<1> DEFINE p == CHOOSE i \in DOMAIN ks : ks[i] = k
           w == Without(ks, k)
<1>1. p \in DOMAIN ks /\ ks[p] = k
    BY DEF In
<1>2. w = [i \in 1 .. (Len(ks) - 1) |-> IF i < p THEN ks[i] ELSE ks[i + 1]]
    BY DEF Without
<1> HIDE DEF p, w
<1>3. DOMAIN ks = 1 .. Len(ks) /\ Len(ks) \in Nat /\ Len(ks) >= 1
    BY <1>1
<1>4. w \in Seq(Keys) /\ DOMAIN w = 1 .. (Len(ks) - 1)
    BY <1>2, <1>3
<1> DEFINE at(i) == IF i < p THEN i ELSE i + 1
<1>5. \A i \in DOMAIN w : at(i) \in DOMAIN ks /\ w[i] = ks[at(i)] /\ at(i) # p
    BY <1>1, <1>2, <1>3, <1>4
<1>6. \A j \in Keys : In(j, w) <=> In(j, ks) /\ j # k
  <2> TAKE j \in Keys
  <2>1. In(j, w) => In(j, ks) /\ j # k
    BY <1>1, <1>5 DEF In
  <2>2. ASSUME NEW a \in DOMAIN ks, ks[a] = j, j # k PROVE In(j, w)
    <3>1. a # p
      BY <1>1, <2>2
    <3>2. CASE a < p
      <4>1. a \in DOMAIN w /\ w[a] = j
        BY <1>1, <1>2, <1>3, <1>4, <2>2, <3>2
      <4> QED
        BY <4>1 DEF In
    <3>3. CASE a > p
      <4>1. a - 1 \in DOMAIN w /\ w[a - 1] = j
        BY <1>1, <1>2, <1>3, <1>4, <2>2, <3>3
      <4> QED
        BY <4>1 DEF In
    <3> QED
      BY <3>1, <3>2, <3>3, <1>1, <1>3
  <2> QED
    BY <2>1, <2>2 DEF In
<1>7. \A i, j \in DOMAIN w : (i < j <=> at(i) < at(j)) /\ (i = j <=> at(i) = at(j))
    BY <1>1, <1>3, <1>4
<1> HIDE DEF at
<1> QED
    BY <1>4, <1>5, <1>6, <1>7 DEF w

(* issuerFor: the configuration is accepted, and a key in stage "signing"  *)
(* is the one that signs.                                                  *)
LEMMA ConfigSigns ==
    ASSUME Inductive
    PROVE  /\ \A k \in Keys : stage[k] = "signing" => forAlg(config, Alg[k]) = k
           /\ issuerFor = config /\ config # <<>>
<1> USE KeysAssumption
<1>1. ASSUME NEW k \in Keys, stage[k] = "signing"
      PROVE  forAlg(config, Alg[k]) = k /\ Len(config) > 0
  <2>1. PICK i \in DOMAIN config : config[i] = k
    BY <1>1 DEF Inductive, ConfigOK, In
  <2>2. \A j \in DOMAIN config : Alg[config[j]] = Alg[k] => i <= j
    BY <1>1, <2>1 DEF Inductive, ConfigOK
  <2>3. config \in Seq(Keys)
    BY DEF Inductive, TypeOK
  <2> QED
    BY <2>1, <2>2, <2>3, FirstSigns
<1>2. PICK k \in Keys : stage[k] = "signing" /\ Alg[k] = "RS256"
    BY DEF Inductive, ConfigOK
<1>3. newKeySet(config)
    BY <1>1, <1>2 DEF newKeySet, Inductive, ConfigOK
<1> QED
    BY <1>1, <1>2, <1>3 DEF issuerFor

------------------------------------------------------------------------------
(* The invariant. *)

(* The configuration that the application starts with. *)
LEMMA InitInductive == Init => Inductive
<1> SUFFICES ASSUME Init PROVE Inductive
    OBVIOUS
<1> USE KeysAssumption
<1>1. config \in Seq(Keys) /\ DOMAIN config = {1} /\ config[1] = FirstKey
    BY DEF Init
<1>2. TypeOK /\ detail \in [Procs -> Algs \union Verifiers \union {NoKey}]
  <2>1. publicJWKS(config) \subseteq Keys \X Algs
    BY <1>1 DEF publicJWKS, Algs
  <2> QED
    BY <1>1, <2>1 DEF Init, TypeOK, Stages
<1>3. ConfigOK
    BY <1>1 DEF Init, ConfigOK, In
<1>4. ClockOK
    BY DEF Init, ClockOK
<1>5. ASSUME NEW r \in Verifiers PROVE CacheOK(r)
  <2>1. <<FirstKey, Alg[FirstKey]>> \in cache[r].jwks
    BY <1>1 DEF Init, publicJWKS
  <2> QED
    BY <2>1 DEF Init, CacheOK
<1> QED
    BY <1>2, <1>3, <1>4, <1>5 DEF Init, Inductive

(* A request that begins works with the configuration of this moment. *)
LEMMA BeginInductive ==
    ASSUME Inductive, NEW h \in Procs, BeginSigning(h) \/ BeginFetch(h)
    PROVE  Inductive'
<1> USE KeysAssumption
<1>1. PICK what \in {"sign", "jwks"}, d \in Algs \union Verifiers :
        /\ Begin(h, what, d)
        /\ what = "sign" => \E k \in Keys : stage[k] = "signing" /\ d = Alg[k]
        /\ what = "jwks" => d \in Verifiers
    BY DEF BeginSigning, BeginFetch, Algs
<1>2. /\ job' = [job EXCEPT ![h] = what]
      /\ keys' = [keys EXCEPT ![h] = config]
      /\ begun' = [begun EXCEPT ![h] = now]
      /\ detail' = [detail EXCEPT ![h] = d]
      /\ UNCHANGED <<now, config, stage, published, stopped, tokens, cache>>
    BY <1>1, ConfigSigns DEF Begin, rotation
<1>3. TypeOK
    BY DEF Inductive
<1>4. TypeOK' /\ (detail \in [Procs -> Algs \union Verifiers \union {NoKey}])'
    BY <1>1, <1>2, <1>3 DEF TypeOK, Inductive, Algs
<1>5. ConfigOK'
    BY <1>2 DEF Inductive, ConfigOK, In
<1>6. ClockOK'
    BY <1>2, <1>3 DEF Inductive, ClockOK, TypeOK
<1>7. ASSUME NEW g \in Procs
      PROVE  /\ job'[g] = "sign" => SignerOK(g)'
             /\ job'[g] = "jwks" => FetchOK(g)'
  <2>1. CASE g # h
    <3>1. /\ job'[g] = job[g] /\ keys'[g] = keys[g] /\ begun'[g] = begun[g]
          /\ detail'[g] = detail[g]
      BY <1>2, <1>3, <2>1 DEF TypeOK, Inductive
    <3> QED
      BY <3>1, <1>2 DEF Inductive, SignerOK, FetchOK
  <2>2. CASE g = h
    <3>1. /\ job'[g] = what /\ keys'[g] = config /\ begun'[g] = now
          /\ detail'[g] = d
      BY <1>2, <1>3, <2>2 DEF TypeOK, Inductive
    <3>2. what = "sign" => SignerOK(g)'
      BY <1>1, <1>2, <3>1, ConfigSigns DEF SignerOK
    <3>3. FetchOK(g)'
      BY <1>2, <3>1 DEF FetchOK, Inductive, ConfigOK
    <3> QED
      BY <3>1, <3>2, <3>3
  <2> QED
    BY <2>1, <2>2
<1>8. \A r \in Verifiers : CacheOK(r)'
    BY <1>2 DEF Inductive, CacheOK
<1>9. \A t \in tokens' : TokenOK(t)'
    BY <1>2 DEF Inductive, TokenOK
<1> QED
    BY <1>4, <1>5, <1>6, <1>7, <1>8, <1>9 DEF Inductive

(* A request ends: the others go on. *)
LEMMA EndKeeps ==
    ASSUME Inductive, NEW h \in Procs, End(h), UNCHANGED <<now, rotation>>,
           TypeOK', ClockOK',
           \A r \in Verifiers : CacheOK(r)', \A t \in tokens' : TokenOK(t)'
    PROVE  Inductive'
<1>1. /\ job' = [job EXCEPT ![h] = "idle"]
      /\ keys' = [keys EXCEPT ![h] = <<>>]
      /\ begun' = [begun EXCEPT ![h] = 0]
      /\ detail' = [detail EXCEPT ![h] = NoKey]
      /\ UNCHANGED <<now, config, stage, published, stopped>>
    BY DEF End, rotation
<1>2. TypeOK
    BY DEF Inductive
<1>3. (detail \in [Procs -> Algs \union Verifiers \union {NoKey}])'
    BY <1>1 DEF Inductive
<1>4. ConfigOK'
    BY <1>1 DEF Inductive, ConfigOK, In
<1>5. ASSUME NEW g \in Procs
      PROVE  /\ job'[g] = "sign" => SignerOK(g)'
             /\ job'[g] = "jwks" => FetchOK(g)'
  <2>1. CASE g # h
    <3>1. /\ job'[g] = job[g] /\ keys'[g] = keys[g] /\ begun'[g] = begun[g]
          /\ detail'[g] = detail[g]
      BY <1>1, <1>2, <2>1 DEF TypeOK, Inductive
    <3> QED
      BY <3>1, <1>1 DEF Inductive, SignerOK, FetchOK
  <2>2. CASE g = h
    BY <1>1, <1>2, <2>2 DEF TypeOK
  <2> QED
    BY <2>1, <2>2
<1> QED
    BY <1>3, <1>4, <1>5 DEF Inductive

(* End leaves requests of the right type, which began in the past. *)
LEMMA EndTypes ==
    ASSUME Inductive, NEW h \in Procs, End(h)
    PROVE  /\ job' \in [Procs -> {"idle", "sign", "jwks"}]
           /\ keys' \in [Procs -> Seq(Keys)]
           /\ begun' \in [Procs -> 0 .. MaxTime]
           /\ \A g \in Procs : /\ job'[g] = "sign" => detail'[g] \in Algs
                               /\ job'[g] = "jwks" => detail'[g] \in Verifiers
                               /\ job'[g] # "idle" => job'[g] = job[g] /\ begun'[g] = begun[g]
    BY KeysAssumption DEF End, Inductive, TypeOK

(* Sign: the key is published for as long as the new token lives. *)
LEMMA SignInductive ==
    ASSUME Inductive, NEW h \in Procs, Sign(h)
    PROVE  Inductive'
<1> USE KeysAssumption
<1> DEFINE k == forAlg(keys[h], detail[h])
<1>1. /\ job[h] = "sign" /\ End(h)
      /\ UNCHANGED <<now, config, stage, published, stopped, cache>>
    BY DEF Sign, rotation
<1>2. PICK l \in Lifetimes :
        tokens' = tokens \union {[kid |-> k, alg |-> detail[h], exp |-> now + l]}
    BY DEF Sign
<1>3. TypeOK /\ ClockOK /\ SignerOK(h)
    BY <1>1 DEF Inductive
<1>4. /\ k \in Keys /\ detail[h] = Alg[k]
      /\ stage[k] = "signing" \/ (stage[k] = "old" /\ begun[h] <= stopped[k])
    BY <1>3 DEF SignerOK
<1> HIDE DEF k
<1> DEFINE new == [kid |-> k, alg |-> detail[h], exp |-> now + l]
<1>5. new \in [kid : Keys, alg : Algs, exp : Nat] /\ now < new.exp
    BY <1>3, <1>4 DEF TypeOK, Algs
<1>6. TypeOK'
    BY <1>1, <1>2, <1>3, <1>5, EndTypes DEF TypeOK
<1>7. ClockOK'
  <2>1. \A t \in tokens' : now < t.exp
    BY <1>2, <1>3, <1>5 DEF ClockOK
  <2> QED
    BY <1>1, <1>3, <2>1, EndTypes DEF ClockOK
<1>8. TokenOK(new)
  <2>1. Grace >= l + Flight /\ l \in Nat
    BY WaitsAssumption
  <2>2. begun[h] \in Nat /\ now \in Nat /\ now <= begun[h] + Flight /\ stopped[k] \in Nat
    BY <1>1, <1>3, <1>4 DEF TypeOK, ClockOK
  <2>3. now + l + Flight <= now + Grace
    BY <2>1, <2>2
  <2>4. stage[k] = "old" => now + l <= stopped[k] + Grace
    BY <1>4, <2>1, <2>2
  <2> QED
    BY <1>4, <2>3, <2>4 DEF TokenOK
<1>9. \A t \in tokens' : TokenOK(t)'
    BY <1>1, <1>2, <1>8 DEF TokenOK, Inductive
<1>10. \A r \in Verifiers : CacheOK(r)'
    BY <1>1 DEF Inductive, CacheOK
<1> QED
    BY <1>1, <1>6, <1>7, <1>9, <1>10, EndKeeps DEF rotation

(* SignFails: nothing else changes. *)
LEMMA SignFailsInductive ==
    ASSUME Inductive, NEW h \in Procs, SignFails(h)
    PROVE  Inductive'
<1>1. End(h) /\ UNCHANGED <<now, config, stage, published, stopped, tokens, cache>>
    BY DEF SignFails, rotation
<1>2. TypeOK' /\ ClockOK'
    BY <1>1, EndTypes DEF Inductive, TypeOK, ClockOK
<1>3. /\ \A r \in Verifiers : CacheOK(r)'
      /\ \A t \in tokens' : TokenOK(t)'
    BY <1>1 DEF Inductive, CacheOK, TokenOK
<1> QED
    BY <1>1, <1>2, <1>3, EndKeeps DEF rotation

(* Deliver: the age of the JWKS counts from now, although its keys are     *)
(* those of the moment the request began, at most Flight before.           *)
LEMMA DeliverInductive ==
    ASSUME Inductive, NEW h \in Procs, Deliver(h)
    PROVE  Inductive'
<1> USE KeysAssumption
<1> DEFINE v == detail[h]
           new == [jwks |-> publicJWKS(keys[h]), at |-> now]
<1>1. /\ job[h] = "jwks" /\ End(h)
      /\ cache' = [cache EXCEPT ![v] = new]
      /\ UNCHANGED <<now, config, stage, published, stopped, tokens>>
    BY DEF Deliver, rotation
<1>2. TypeOK /\ ClockOK /\ FetchOK(h)
    BY <1>1 DEF Inductive
<1>3. v \in Verifiers /\ keys[h] \in Seq(Keys)
    BY <1>1, <1>2 DEF TypeOK
<1>4. new \in [jwks : SUBSET (Keys \X Algs), at : 0 .. MaxTime]
    BY <1>2, <1>3 DEF publicJWKS, Algs, TypeOK
<1>5. TypeOK'
    BY <1>1, <1>2, <1>4, EndTypes DEF TypeOK
<1>6. ClockOK'
  <2>1. \A r \in Verifiers : cache'[r].at <= now
    BY <1>1, <1>2, <1>4 DEF TypeOK, ClockOK
  <2> QED
    BY <1>1, <1>2, <2>1, EndTypes DEF ClockOK
<1>7. \A t \in tokens' : TokenOK(t)'
    BY <1>1 DEF Inductive, TokenOK
<1>8. ASSUME NEW r \in Verifiers PROVE CacheOK(r)'
  <2>1. CASE r # v
    <3>1. cache'[r] = cache[r]
      BY <1>1, <1>2, <2>1 DEF TypeOK
    <3> QED
      BY <1>1, <3>1 DEF Inductive, CacheOK
  <2>2. CASE r = v
    <3>1. cache'[r] = new
      BY <1>1, <1>2, <1>3, <2>2 DEF TypeOK
    <3> SUFFICES ASSUME NEW k \in Keys, <<k, Alg[k]>> \notin publicJWKS(keys[h])
                 PROVE  stage[k] \in {"published", "signing", "old"} =>
                            now <= published[k] + Flight
      BY <1>1, <3>1 DEF CacheOK
    <3>2. ~ In(k, keys[h])
      BY DEF publicJWKS, In
    <3>3. /\ begun[h] \in Nat /\ now \in Nat /\ published[k] \in Nat
          /\ now <= begun[h] + Flight
      BY <1>1, <1>2 DEF TypeOK, ClockOK
    <3> QED
      BY <1>2, <3>2, <3>3 DEF FetchOK
  <2> QED
    BY <2>1, <2>2
<1> QED
    BY <1>1, <1>5, <1>6, <1>7, <1>8, EndKeeps DEF rotation

(* Publish: the new key is the last of the configuration. *)
LEMMA PublishInductive ==
    ASSUME Inductive, NEW k \in Keys, Publish(k)
    PROVE  Inductive'
<1> USE KeysAssumption
<1>1. /\ stage[k] = "new"
      /\ config' = Append(config, k)
      /\ stage' = [stage EXCEPT ![k] = "published"]
      /\ published' = [published EXCEPT ![k] = now]
      /\ UNCHANGED <<now, stopped, job, keys, begun, detail, tokens, cache>>
    BY DEF Publish, request
<1>2. TypeOK /\ ClockOK /\ ConfigOK
    BY DEF Inductive
<1>3. /\ stage'[k] = "published" /\ published'[k] = now
      /\ \A j \in Keys : j # k => stage'[j] = stage[j] /\ published'[j] = published[j]
    BY <1>1, <1>2 DEF TypeOK
<1>4. TypeOK'
    BY <1>1, <1>2 DEF TypeOK, Stages
<1>5. /\ config \in Seq(Keys) /\ Len(config) \in Nat
      /\ DOMAIN config = 1 .. Len(config)
      /\ DOMAIN config' = 1 .. (Len(config) + 1)
      /\ \A i \in DOMAIN config : config'[i] = config[i]
      /\ config'[Len(config) + 1] = k
    BY <1>1, <1>2 DEF TypeOK
<1>6. \A i \in DOMAIN config : config[i] # k /\ config[i] \in Keys
    BY <1>1, <1>2, <1>5 DEF ConfigOK, In
<1>7. ConfigOK'
  <2>1. \A i, j \in DOMAIN config' : config'[i] = config'[j] => i = j
    BY <1>2, <1>5, <1>6 DEF ConfigOK
  <2>2. ASSUME NEW j \in Keys
        PROVE  In(j, config') <=> stage'[j] \in {"published", "signing", "old"}
    <3>1. In(j, config') <=> In(j, config) \/ j = k
      BY <1>5 DEF In
    <3> QED
      BY <1>2, <1>3, <3>1 DEF ConfigOK
  <2>3. ASSUME NEW i \in DOMAIN config', NEW j \in DOMAIN config',
               stage'[config'[i]] = "signing", Alg[config'[j]] = Alg[config'[i]]
        PROVE  i <= j
    <3>1. i \in DOMAIN config /\ config'[i] = config[i] /\ stage[config[i]] = "signing"
      BY <1>3, <1>5, <1>6, <2>3
    <3>2. CASE j = Len(config) + 1
      BY <1>5, <3>1, <3>2
    <3>3. CASE j \in DOMAIN config
      BY <1>2, <1>5, <2>3, <3>1, <3>3 DEF ConfigOK
    <3> QED
      BY <1>5, <2>3, <3>2, <3>3
  <2>4. \E j \in Keys : stage'[j] = "signing" /\ Alg[j] = "RS256"
    BY <1>1, <1>2, <1>3 DEF ConfigOK
  <2> QED
    BY <2>1, <2>2, <2>3, <2>4 DEF ConfigOK, In
<1>8. ClockOK'
  <2>1. \A j \in Keys : published'[j] <= now
    BY <1>2, <1>3 DEF ClockOK, TypeOK
  <2> QED
    BY <1>1, <1>2, <2>1 DEF ClockOK
<1>9. ASSUME NEW h \in Procs
      PROVE  /\ job'[h] = "sign" => SignerOK(h)'
             /\ job'[h] = "jwks" => FetchOK(h)'
  <2>1. job[h] = "sign" => SignerOK(h)'
    BY <1>1, <1>3 DEF Inductive, SignerOK
  <2>2. job[h] = "jwks" => FetchOK(h)'
    <3> SUFFICES ASSUME job[h] = "jwks", NEW j \in Keys, ~ In(j, keys[h])
                 PROVE  stage'[j] \in {"published", "signing", "old"} =>
                            begun[h] <= published'[j]
      BY <1>1 DEF FetchOK
    <3>1. begun[h] <= now /\ FetchOK(h)
      BY <1>2 DEF ClockOK, Inductive
    <3> QED
      BY <1>3, <3>1 DEF FetchOK
  <2> QED
    BY <1>1, <2>1, <2>2
<1>10. ASSUME NEW r \in Verifiers PROVE CacheOK(r)'
  <2> SUFFICES ASSUME NEW j \in Keys, <<j, Alg[j]>> \notin cache[r].jwks
               PROVE  stage'[j] \in {"published", "signing", "old"} =>
                          cache[r].at <= published'[j] + Flight
    BY <1>1 DEF CacheOK
  <2>1. cache[r].at <= now /\ cache[r].at \in Nat /\ now \in Nat /\ CacheOK(r)
    BY <1>2 DEF ClockOK, TypeOK, Inductive
  <2>2. CASE j = k
    BY <1>3, <2>1, <2>2
  <2>3. CASE j # k
    BY <1>3, <2>1, <2>3 DEF CacheOK
  <2> QED
    BY <2>2, <2>3
<1>11. \A t \in tokens' : TokenOK(t)'
    BY <1>1, <1>3 DEF Inductive, TokenOK
<1> QED
    BY <1>1, <1>4, <1>7, <1>8, <1>9, <1>10, <1>11 DEF Inductive

(* Promote: tokens of the key that stops signing expire before it may be   *)
(* removed, those of the requests under way too.                           *)
LEMMA PromoteInductive ==
    ASSUME Inductive, NEW k \in Keys, Promote(k)
    PROVE  Inductive'
<1> USE KeysAssumption
<1> DEFINE w == Without(config, k)
           old(j) == j # k /\ stage[j] = "signing" /\ Alg[j] = Alg[k]
<1>1. /\ stage[k] = "published"
      /\ config' = <<k>> \o w
      /\ UNCHANGED <<now, published, job, keys, begun, detail, tokens, cache>>
    BY DEF Promote, request
<1>2. TypeOK /\ ClockOK /\ ConfigOK
    BY DEF Inductive
<1>3. /\ stage' \in [Keys -> Stages] /\ stopped' \in [Keys -> 0 .. MaxTime]
      /\ stage'[k] = "signing" /\ stopped'[k] = stopped[k]
      /\ \A j \in Keys : old(j) => stage'[j] = "old" /\ stopped'[j] = now
      /\ \A j \in Keys : (j # k /\ ~ old(j)) => stage'[j] = stage[j] /\ stopped'[j] = stopped[j]
    BY <1>1, <1>2 DEF Promote, TypeOK, Stages
<1>4. /\ w \in Seq(Keys) /\ DOMAIN w = 1 .. Len(w) /\ Len(w) \in Nat
      /\ \A j \in Keys : In(j, w) <=> In(j, config) /\ j # k
      /\ \A i, j \in DOMAIN w :
            \E a, b \in DOMAIN config : /\ w[i] = config[a] /\ w[j] = config[b]
                                        /\ i < j <=> a < b
                                        /\ i = j <=> a = b
  <2>1. In(k, config)
    BY <1>1, <1>2 DEF ConfigOK
  <2> QED
    BY <1>2, <2>1, WithoutKeeps DEF ConfigOK, TypeOK
<1> HIDE DEF w
<1>5. /\ config' \in Seq(Keys)
      /\ DOMAIN config' = 1 .. (Len(w) + 1)
      /\ config'[1] = k
      /\ \A i \in DOMAIN config' : i # 1 => i - 1 \in DOMAIN w /\ config'[i] = w[i - 1]
    BY <1>1, <1>4
<1>6. TypeOK'
    BY <1>1, <1>2, <1>3, <1>5 DEF TypeOK
<1>7. ConfigOK'
  <2>1. \A i \in DOMAIN w : w[i] \in Keys /\ w[i] # k
    BY <1>4 DEF In
  <2>2. \A i, j \in DOMAIN config' : config'[i] = config'[j] => i = j
    <3> SUFFICES ASSUME NEW i \in DOMAIN config', NEW j \in DOMAIN config',
                        config'[i] = config'[j]
                 PROVE  i = j
      OBVIOUS
    <3>1. CASE i = 1 \/ j = 1
      BY <1>5, <2>1, <3>1
    <3>2. CASE i # 1 /\ j # 1
      <4>1. i - 1 = j - 1
        BY <1>2, <1>4, <1>5, <3>2 DEF ConfigOK
      <4> QED
        BY <1>4, <1>5, <4>1
    <3> QED
      BY <3>1, <3>2
  <2>3. ASSUME NEW j \in Keys
        PROVE  In(j, config') <=> stage'[j] \in {"published", "signing", "old"}
    <3>1. In(j, w) => In(j, config')
      <4>1. ASSUME NEW i \in DOMAIN w, w[i] = j PROVE In(j, config')
        <5>1. i + 1 \in DOMAIN config' /\ i + 1 # 1 /\ (i + 1) - 1 = i
          BY <1>4, <1>5, <4>1
        <5> QED
          BY <1>5, <4>1, <5>1 DEF In
      <4> QED
        BY <4>1 DEF In
    <3>2. In(j, config') => In(j, w) \/ j = k
      BY <1>5 DEF In
    <3>3. 1 \in DOMAIN config'
      BY <1>4, <1>5
    <3>4. In(j, config') <=> In(j, w) \/ j = k
      BY <1>5, <3>1, <3>2, <3>3 DEF In
    <3> QED
      BY <1>1, <1>2, <1>3, <1>4, <3>4 DEF ConfigOK
  <2>4. ASSUME NEW i \in DOMAIN config', NEW j \in DOMAIN config',
               stage'[config'[i]] = "signing", Alg[config'[j]] = Alg[config'[i]]
        PROVE  i <= j
    <3>1. CASE i = 1
      BY <1>5, <3>1
    <3>2. CASE i # 1
      <4>1. i - 1 \in DOMAIN w /\ config'[i] = w[i - 1] /\ w[i - 1] \in Keys
        BY <1>5, <2>1, <3>2
      <4>2. stage[w[i - 1]] = "signing" /\ Alg[w[i - 1]] # Alg[k]
        BY <1>3, <2>1, <2>4, <4>1
      <4>3. j # 1
        BY <1>5, <2>4, <4>1, <4>2
      <4>4. j - 1 \in DOMAIN w /\ config'[j] = w[j - 1]
        BY <1>5, <4>3
      <4>5. PICK a \in DOMAIN config, b \in DOMAIN config :
              /\ w[i - 1] = config[a] /\ w[j - 1] = config[b]
              /\ i - 1 < j - 1 <=> a < b
              /\ i - 1 = j - 1 <=> a = b
        BY <1>4, <4>1, <4>4
      <4>6. a <= b
        BY <1>2, <2>4, <4>1, <4>2, <4>4, <4>5 DEF ConfigOK
      <4>7. a \in Int /\ b \in Int
        BY <1>2 DEF TypeOK
      <4> QED
        BY <1>5, <4>5, <4>6, <4>7
    <3> QED
      BY <3>1, <3>2
  <2>5. \E j \in Keys : stage'[j] = "signing" /\ Alg[j] = "RS256"
    <3>1. PICK j \in Keys : stage[j] = "signing" /\ Alg[j] = "RS256"
      BY <1>2 DEF ConfigOK
    <3> QED
      BY <1>1, <1>3, <3>1
  <2> QED
    BY <2>2, <2>3, <2>4, <2>5 DEF ConfigOK, In
<1>8. ClockOK'
  <2>1. \A j \in Keys : stopped'[j] = now \/ stopped'[j] = stopped[j]
    BY <1>3
  <2>2. now \in Int /\ \A j \in Keys : stopped[j] <= now
    BY <1>2 DEF ClockOK, TypeOK
  <2>3. \A j \in Keys : stopped'[j] <= now
    BY <2>1, <2>2
  <2> QED
    BY <1>1, <1>2, <2>3 DEF ClockOK
<1>9. ASSUME NEW h \in Procs
      PROVE  /\ job'[h] = "sign" => SignerOK(h)'
             /\ job'[h] = "jwks" => FetchOK(h)'
  <2>1. ASSUME job[h] = "sign" PROVE SignerOK(h)'
    <3>1. SignerOK(h) /\ begun[h] <= now
      BY <1>2, <2>1 DEF ClockOK, Inductive
    <3>2. forAlg(keys'[h], detail'[h]) = forAlg(keys[h], detail[h])
      BY <1>1
    <3> QED
      BY <1>1, <1>3, <3>1, <3>2 DEF SignerOK
  <2>2. ASSUME job[h] = "jwks" PROVE FetchOK(h)'
    <3> SUFFICES ASSUME NEW j \in Keys, ~ In(j, keys[h])
                 PROVE  stage'[j] \in {"published", "signing", "old"} =>
                            begun[h] <= published'[j]
      BY <1>1 DEF FetchOK
    <3>1. FetchOK(h)
      BY <2>2 DEF Inductive
    <3> QED
      BY <1>1, <1>3, <3>1 DEF FetchOK
  <2> QED
    BY <1>1, <2>1, <2>2
<1>10. ASSUME NEW r \in Verifiers PROVE CacheOK(r)'
  <2> SUFFICES ASSUME NEW j \in Keys, <<j, Alg[j]>> \notin cache[r].jwks
               PROVE  stage'[j] \in {"published", "signing", "old"} =>
                          cache[r].at <= published'[j] + Flight
    BY <1>1 DEF CacheOK
  <2>1. CacheOK(r)
    BY DEF Inductive
  <2> QED
    BY <1>1, <1>3, <2>1 DEF CacheOK
<1>11. ASSUME NEW t \in tokens PROVE TokenOK(t)'
  <2>1. t.kid \in Keys /\ t.exp \in Nat /\ now \in Nat /\ TokenOK(t)
    BY <1>2 DEF TypeOK, Inductive
  <2>2. t.kid # k
    BY <1>1, <2>1 DEF TokenOK
  <2>3. CASE old(t.kid)
    <3>1. t.exp <= now + Grace
      BY <2>1, <2>3 DEF TokenOK
    <3> QED
      BY <1>1, <1>3, <2>1, <2>3, <3>1 DEF TokenOK
  <2>4. CASE ~ old(t.kid)
    BY <1>1, <1>3, <2>1, <2>2, <2>4 DEF TokenOK
  <2> QED
    BY <2>3, <2>4
<1> QED
    BY <1>1, <1>6, <1>7, <1>8, <1>9, <1>10, <1>11 DEF Inductive

(* Retire: by now the tokens that the key signed have expired, and the     *)
(* requests that could sign with it have ended.                            *)
LEMMA RetireInductive ==
    ASSUME Inductive, NEW k \in Keys, Retire(k)
    PROVE  Inductive'
<1> USE KeysAssumption
<1> DEFINE w == Without(config, k)
<1>1. /\ stage[k] = "old"
      /\ now >= stopped[k] + Grace
      /\ config' = w
      /\ stage' = [stage EXCEPT ![k] = "retired"]
      /\ UNCHANGED <<now, published, stopped, job, keys, begun, detail, tokens, cache>>
    BY DEF Retire, request
<1>2. TypeOK /\ ClockOK /\ ConfigOK
    BY DEF Inductive
<1>3. /\ stage'[k] = "retired"
      /\ \A j \in Keys : j # k => stage'[j] = stage[j]
    BY <1>1, <1>2 DEF TypeOK
<1>4. /\ w \in Seq(Keys) /\ DOMAIN w = 1 .. Len(w) /\ Len(w) \in Nat
      /\ \A j \in Keys : In(j, w) <=> In(j, config) /\ j # k
      /\ \A i, j \in DOMAIN w :
            \E a, b \in DOMAIN config : /\ w[i] = config[a] /\ w[j] = config[b]
                                        /\ i < j <=> a < b
                                        /\ i = j <=> a = b
  <2>1. In(k, config)
    BY <1>1, <1>2 DEF ConfigOK
  <2> QED
    BY <1>2, <2>1, WithoutKeeps DEF ConfigOK, TypeOK
<1> HIDE DEF w
<1>5. TypeOK'
    BY <1>1, <1>2, <1>4 DEF TypeOK, Stages
<1>6. ConfigOK'
  <2>1. \A i \in DOMAIN w : w[i] \in Keys /\ w[i] # k
    BY <1>4 DEF In
  <2>2. \A i, j \in DOMAIN w : w[i] = w[j] => i = j
    BY <1>2, <1>4 DEF ConfigOK
  <2>3. ASSUME NEW j \in Keys
        PROVE  In(j, w) <=> stage'[j] \in {"published", "signing", "old"}
    BY <1>2, <1>3, <1>4 DEF ConfigOK
  <2>4. ASSUME NEW i \in DOMAIN w, NEW j \in DOMAIN w,
               stage'[w[i]] = "signing", Alg[w[j]] = Alg[w[i]]
        PROVE  i <= j
    <3>1. PICK a \in DOMAIN config, b \in DOMAIN config :
              /\ w[i] = config[a] /\ w[j] = config[b]
              /\ i < j <=> a < b
              /\ i = j <=> a = b
      BY <1>4
    <3>2. a <= b
      BY <1>2, <1>3, <2>1, <2>4, <3>1 DEF ConfigOK
    <3>3. a \in Int /\ b \in Int
      BY <1>2 DEF TypeOK
    <3>4. i \in Int /\ j \in Int
      BY <1>4
    <3> QED
      BY <3>1, <3>2, <3>3, <3>4
  <2>5. \E j \in Keys : stage'[j] = "signing" /\ Alg[j] = "RS256"
    BY <1>1, <1>2, <1>3 DEF ConfigOK
  <2>6. config' = w
    BY <1>1
  <2>7. \A j \in Keys : In(j, config)' <=> In(j, w)
    BY <2>6 DEF In
  <2> QED
    BY <2>2, <2>3, <2>4, <2>5, <2>6, <2>7 DEF ConfigOK
<1>7. ClockOK'
    BY <1>1, <1>2 DEF ClockOK
<1>8. ASSUME NEW h \in Procs
      PROVE  /\ job'[h] = "sign" => SignerOK(h)'
             /\ job'[h] = "jwks" => FetchOK(h)'
  <2>1. ASSUME job[h] = "sign" PROVE SignerOK(h)'
    <3> DEFINE c == forAlg(keys[h], detail[h])
    <3>1. c \in Keys /\ SignerOK(h)
      BY <2>1 DEF Inductive, SignerOK
    <3>2. c # k
      <4>1. SUFFICES ASSUME c = k PROVE FALSE
        OBVIOUS
      <4>2. begun[h] <= stopped[k]
        BY <1>1, <3>1, <4>1 DEF SignerOK
      <4>3. PICK l \in Lifetimes : Grace >= l + Flight /\ l \in Nat \ {0}
        BY WaitsAssumption
      <4>4. /\ now <= begun[h] + Flight
            /\ now \in Nat /\ stopped[k] \in Nat /\ begun[h] \in Nat
        BY <1>2, <2>1 DEF ClockOK, TypeOK
      <4> QED
        BY <1>1, <4>2, <4>3, <4>4
    <3> QED
      BY <1>1, <1>3, <3>1, <3>2 DEF SignerOK
  <2>2. job[h] = "jwks" => FetchOK(h)'
    BY <1>1, <1>3 DEF Inductive, FetchOK
  <2> QED
    BY <1>1, <2>1, <2>2
<1>9. \A r \in Verifiers : CacheOK(r)'
    BY <1>1, <1>3 DEF Inductive, CacheOK
<1>10. ASSUME NEW t \in tokens PROVE TokenOK(t)'
  <2>1. /\ t.kid \in Keys /\ t.exp \in Nat /\ now \in Nat /\ stopped[k] \in Nat
        /\ TokenOK(t) /\ now < t.exp
    BY <1>2 DEF TypeOK, ClockOK, Inductive
  <2>2. t.kid # k
    BY <1>1, <2>1 DEF TokenOK
  <2> QED
    BY <1>1, <1>3, <2>1, <2>2 DEF TokenOK
<1> QED
    BY <1>1, <1>5, <1>6, <1>7, <1>8, <1>9, <1>10 DEF Inductive

(* Tick: what has to be so at a later time stays so, and the HTTP server   *)
(* ends requests.                                                          *)
LEMMA TickInductive ==
    ASSUME Inductive, Tick
    PROVE  Inductive'
<1> USE KeysAssumption
<1>1. /\ now < MaxTime /\ now' = now + 1
      /\ \A h \in Procs : job[h] # "idle" => now < begun[h] + Flight
      /\ tokens' = {t \in tokens : now + 1 < t.exp}
      /\ UNCHANGED <<config, stage, published, stopped, job, keys, begun, detail, cache>>
    BY DEF Tick, rotation, request
<1>2. TypeOK /\ ClockOK /\ now \in Nat
    BY DEF Inductive, TypeOK
<1>3. TypeOK'
    BY <1>1, <1>2 DEF TypeOK
<1>4. ConfigOK'
    BY <1>1 DEF Inductive, ConfigOK, In
<1>5. ClockOK'
  <2>1. \A k \in Keys : published[k] <= now + 1 /\ stopped[k] <= now + 1
    BY <1>2 DEF ClockOK, TypeOK
  <2>2. \A h \in Procs : job[h] # "idle" => begun[h] <= now + 1 /\ now + 1 <= begun[h] + Flight
    BY <1>1, <1>2 DEF ClockOK, TypeOK
  <2>3. \A r \in Verifiers : cache[r].at <= now + 1
    BY <1>2 DEF ClockOK, TypeOK
  <2> QED
    BY <1>1, <2>1, <2>2, <2>3 DEF ClockOK
<1>6. ASSUME NEW h \in Procs
      PROVE  /\ job'[h] = "sign" => SignerOK(h)'
             /\ job'[h] = "jwks" => FetchOK(h)'
  <2>1. job[h] = "sign" => SignerOK(h)'
    BY <1>1 DEF Inductive, SignerOK
  <2>2. job[h] = "jwks" => FetchOK(h)'
    <3>1. \A k \in Keys : In(k, keys[h])' <=> In(k, keys[h])
      BY <1>1 DEF In
    <3> QED
      BY <1>1, <3>1 DEF Inductive, FetchOK
  <2> QED
    BY <1>1, <2>1, <2>2
<1>7. ASSUME NEW r \in Verifiers PROVE CacheOK(r)'
    BY <1>1 DEF Inductive, CacheOK
<1>8. ASSUME NEW t \in tokens' PROVE TokenOK(t)'
  <2>1. TokenOK(t) /\ t.exp \in Nat
    BY <1>1, <1>2 DEF TypeOK, Inductive
  <2> QED
    BY <1>1, <1>2, <2>1 DEF TokenOK
<1> QED
    BY <1>1, <1>3, <1>4, <1>5, <1>6, <1>7, <1>8 DEF Inductive

------------------------------------------------------------------------------
(* The theorems. *)

(***************************************************************************)
(* The inductive invariant holds in every state of the rotation.           *)
(***************************************************************************)
THEOREM InductiveInvariant == Spec => []Inductive
<1>1. ASSUME Inductive, [Next]_vars PROVE Inductive'
  <2>1. ASSUME NEW h \in Procs,
               BeginSigning(h) \/ BeginFetch(h) \/ Sign(h) \/ SignFails(h) \/ Deliver(h)
        PROVE  Inductive'
    BY <1>1, <2>1, BeginInductive, SignInductive, SignFailsInductive, DeliverInductive
  <2>2. ASSUME NEW k \in Keys, Publish(k) \/ Promote(k) \/ Retire(k)
        PROVE  Inductive'
    BY <1>1, <2>2, PublishInductive, PromoteInductive, RetireInductive
  <2>3. CASE Tick
    BY <1>1, <2>3, TickInductive
  <2>4. CASE UNCHANGED vars
    <3>1. UNCHANGED <<now, config, stage, published, stopped, job, keys, begun, detail, tokens, cache>>
      BY <2>4 DEF vars, rotation, request
    <3> QED
      BY <1>1, <3>1 DEF Inductive, TypeOK, ConfigOK, In, ClockOK, SignerOK, FetchOK,
                       CacheOK, TokenOK
  <2> QED
    BY <1>1, <2>1, <2>2, <2>3, <2>4 DEF Next
<1> QED
    BY InitInductive, <1>1, PTL DEF Spec

(* The variables have their types. *)
THEOREM TypeCorrect == Spec => []TypeOK
<1>1. Inductive => TypeOK
    BY DEF Inductive
<1> QED
    BY <1>1, InductiveInvariant, PTL

(***************************************************************************)
(* issueIDToken never fails for want of a key: the key that a request      *)
(* resolved for its client's algorithm is still there when it signs.       *)
(***************************************************************************)
THEOREM NeverWithoutKey == Spec => []SigningNeverStops
<1>1. Inductive => SigningNeverStops
    BY KeysAssumption DEF Inductive, SignerOK, SigningNeverStops
<1> QED
    BY <1>1, InductiveInvariant, PTL

(***************************************************************************)
(* A token that has not expired verifies against the JWKS that the issuer  *)
(* serves, and the issuer accepts it as id_token_hint: no key is removed   *)
(* too early, whatever the requests under way sign.                        *)
(***************************************************************************)
THEOREM LiveTokensHaveKeys == Spec => []LiveTokensVerify
<1>1. ASSUME Inductive, NEW t \in tokens
      PROVE  Verifies(publicJWKS(issuerFor), t) /\ verifyIDTokenHint(issuerFor, t)
  <2>1. t.kid \in Keys /\ t.alg = Alg[t.kid] /\ stage[t.kid] \in {"signing", "old"}
    BY <1>1 DEF Inductive, TypeOK, TokenOK
  <2>2. PICK i \in DOMAIN config : config[i] = t.kid
    BY <1>1, <2>1 DEF Inductive, ConfigOK, In
  <2>3. issuerFor = config
    BY <1>1, ConfigSigns
  <2> QED
    BY <2>1, <2>2, <2>3 DEF Verifies, publicJWKS, verifyIDTokenHint
<1>2. Inductive => LiveTokensVerify
    BY <1>1 DEF LiveTokensVerify
<1> QED
    BY <1>2, InductiveInvariant, PTL

(***************************************************************************)
(* A verifier that keeps the JWKS as long as Cache-Control allows can      *)
(* verify every token whose key was published the time of a response and   *)
(* max-age ago, also when the JWKS was resolved before a rotation and      *)
(* delivered after it.  A newly published key may be missing until then,   *)
(* and nothing is assumed of how soon the application lets it sign.        *)
(***************************************************************************)
THEOREM CachesHaveKeys == Spec => []CachedKeysVerify
<1>1. ASSUME Inductive, NEW r \in Verifiers, NEW t \in tokens,
             now < cache[r].at + MaxAge, now >= published[t.kid] + Flight + MaxAge
      PROVE  Verifies(cache[r].jwks, t)
  <2>1. t.kid \in Keys /\ t.alg = Alg[t.kid] /\ stage[t.kid] \in {"signing", "old"}
    BY <1>1 DEF Inductive, TypeOK, TokenOK
  <2>2. /\ now \in Int /\ cache[r].at \in Int /\ published[t.kid] \in Int
        /\ MaxAge \in Int /\ Flight \in Int
    BY <1>1, <2>1, KeysAssumption DEF Inductive, TypeOK
  <2>3. CacheOK(r)
    BY <1>1 DEF Inductive
  <2>4. ~ (cache[r].at <= published[t.kid] + Flight)
    BY <1>1, <2>2
  <2> QED
    BY <2>1, <2>3, <2>4 DEF CacheOK, Verifies
<1>2. Inductive => CachedKeysVerify
    BY <1>1 DEF CachedKeysVerify
<1> QED
    BY <1>2, InductiveInvariant, PTL
==============================================================================
