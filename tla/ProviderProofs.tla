----------------------------- MODULE ProviderProofs -----------------------------
(***************************************************************************)
(* Proofs about the configured provider, for every set of configurations,  *)
(* registrations, requests, approvals, credentials and paths.              *)
(***************************************************************************)
EXTENDS Provider, FiniteSetTheorems, SequenceTheorems, TLAPS

----------------------------------------------------------------------------
(* Paths and routing.                                                      *)

(* The pieces of paths; the provers do not know that a literal is a STRING. *)
Pieces == STRING \union {"/authorize", "/token", "/userinfo", "/introspect", "/revoke",
    "/jwks", "/par", "/.well-known", "/openid-configuration", "/oauth-authorization-server"}

(* Cutting a prefix off a path gives what was appended to the prefix, as   *)
(* with strings.CutPrefix in Provider.route.                               *)
LEMMA CutPrefix ==
    ASSUME NEW base \in Seq(Pieces), NEW x \in Seq(Pieces),
           NEW path \in Seq(Pieces)
    PROVE  path = base \o x <=>
            StartsWith(path, base) /\ SubSeq(path, Len(base) + 1, Len(path)) = x
  <1> DEFINE rel == SubSeq(path, Len(base) + 1, Len(path))
             pre == SubSeq(path, 1, Len(base))
  <1>1. /\ Len(base) \in Nat /\ Len(x) \in Nat /\ Len(path) \in Nat
        /\ DOMAIN path = 1 .. Len(path)
        /\ \A i \in 1 .. Len(path) : path[i] \in Pieces
    BY LenProperties, ElementOfSeq
  <1>2. /\ base \o x \in Seq(Pieces)
        /\ Len(base \o x) = Len(base) + Len(x)
        /\ \A i \in 1 .. Len(base) + Len(x) :
            (base \o x)[i] = IF i <= Len(base) THEN base[i] ELSE x[i - Len(base)]
    BY ConcatProperties
  <1>3. ASSUME Len(base) <= Len(path)
        PROVE  /\ rel \in Seq(Pieces) /\ pre \in Seq(Pieces)
               /\ Len(rel) = Len(path) - Len(base) /\ Len(pre) = Len(base)
               /\ \A i \in 1 .. Len(rel) : rel[i] = path[Len(base) + i]
               /\ \A i \in 1 .. Len(pre) : pre[i] = path[i]
    <2>1. \A i \in Len(base) + 1 .. Len(path) : path[i] \in Pieces
      BY <1>1
    <2>2. /\ rel \in Seq(Pieces)
          /\ Len(rel) = IF Len(base) + 1 <= Len(path) THEN Len(path) - (Len(base) + 1) + 1 ELSE 0
          /\ \A i \in 1 .. Len(path) - (Len(base) + 1) + 1 : rel[i] = path[Len(base) + 1 + i - 1]
      BY <1>1, <2>1, SubSeqProperties
    <2>3. \A i \in 1 .. Len(base) : path[i] \in Pieces
      BY <1>1, <1>3
    <2>4. /\ pre \in Seq(Pieces)
          /\ Len(pre) = IF 1 <= Len(base) THEN Len(base) - 1 + 1 ELSE 0
          /\ \A i \in 1 .. Len(base) - 1 + 1 : pre[i] = path[1 + i - 1]
      BY <1>1, <2>3, SubSeqProperties
    <2> HIDE DEF rel, pre
    <2>5. Len(rel) = Len(path) - Len(base)
      <3>1. PICK p \in Nat, b \in Nat : p = Len(path) /\ b = Len(base)
        BY <1>1
      <3>2. Len(rel) = IF b + 1 <= p THEN p - (b + 1) + 1 ELSE 0
        BY <2>2, <3>1
      <3> QED BY <1>3, <3>1, <3>2
    <2>8. Len(pre) = Len(base)
      <3>1. PICK b \in Nat : b = Len(base)
        BY <1>1
      <3>2. Len(pre) = IF 1 <= b THEN b - 1 + 1 ELSE 0
        BY <2>4, <3>1
      <3> QED BY <3>1, <3>2
    <2>6. ASSUME NEW i \in 1 .. Len(rel)
          PROVE  rel[i] = path[Len(base) + i]
      <3>1. Len(path) - (Len(base) + 1) + 1 = Len(rel) /\ Len(base) + 1 + i - 1 = Len(base) + i
        BY <1>1, <1>3, <2>5
      <3> QED BY <2>2, <3>1
    <2>7. \A i \in 1 .. Len(pre) : pre[i] = path[i]
      BY <1>1, <2>4, <2>8
    <2> QED BY <2>2, <2>4, <2>5, <2>6, <2>7, <2>8
  <1>4. ASSUME path = base \o x
        PROVE  Len(base) <= Len(path) /\ pre = base /\ rel = x
    <2>1. Len(base) <= Len(path)
      BY <1>1, <1>2, <1>4
    <2>2. /\ rel \in Seq(Pieces) /\ pre \in Seq(Pieces)
          /\ Len(rel) = Len(path) - Len(base) /\ Len(pre) = Len(base)
          /\ \A i \in 1 .. Len(rel) : rel[i] = path[Len(base) + i]
          /\ \A i \in 1 .. Len(pre) : pre[i] = path[i]
      BY <1>3, <2>1
    <2> HIDE DEF rel, pre
    <2>3. \A i \in 1 .. Len(pre) : pre[i] = base[i]
      BY <1>1, <1>2, <1>4, <2>2
    <2>4. Len(rel) = Len(x) /\ \A i \in 1 .. Len(rel) : rel[i] = x[i]
      BY <1>1, <1>2, <1>4, <2>2
    <2>5. pre = base
      BY <2>2, <2>3, SeqEqual
    <2>6. rel = x
      BY <2>2, <2>4, SeqEqual
    <2> QED BY <2>1, <2>5, <2>6
  <1>5. ASSUME Len(base) <= Len(path), pre = base, rel = x
        PROVE  path = base \o x
    <2>1. /\ Len(rel) = Len(path) - Len(base) /\ Len(pre) = Len(base)
          /\ \A i \in 1 .. Len(rel) : rel[i] = path[Len(base) + i]
          /\ \A i \in 1 .. Len(pre) : pre[i] = path[i]
      BY <1>3, <1>5
    <2> HIDE DEF rel, pre
    <2>2. Len(path) = Len(base \o x)
      BY <1>1, <1>2, <1>5, <2>1
    <2>3. ASSUME NEW i \in 1 .. Len(path)
          PROVE  path[i] = (base \o x)[i]
      <3>1. CASE i <= Len(base)
        BY <1>1, <1>2, <1>5, <2>1, <2>2, <3>1
      <3>2. CASE i > Len(base)
        <4>1. i - Len(base) \in 1 .. Len(rel)
          BY <1>1, <2>1, <3>2
        <4>2. rel[i - Len(base)] = path[Len(base) + (i - Len(base))]
          BY <2>1, <4>1
        <4>3. Len(base) + (i - Len(base)) = i
          BY <1>1
        <4>4. x[i - Len(base)] = path[i]
          BY <1>5, <4>2, <4>3
        <4>5. i \in 1 .. Len(base) + Len(x) /\ ~(i <= Len(base))
          BY <1>1, <1>2, <2>2, <3>2
        <4> QED BY <1>2, <4>4, <4>5
      <3>3. i \in Nat /\ (i <= Len(base) \/ i > Len(base))
        BY <1>1
      <3> QED BY <3>1, <3>2, <3>3
    <2> QED BY <1>2, <2>2, <2>3, SeqEqual
  <1> HIDE DEF rel, pre
  <1>6. StartsWith(path, base) <=> Len(base) <= Len(path) /\ pre = base
    BY DEF StartsWith, pre
  <1> QED BY <1>4, <1>5, <1>6 DEF rel

(* An endpoint that validate accepts has neither of the well-known paths.  *)
LEMMA WellKnownIsFree ==
    ASSUME NEW e, NEW par, validate(e, par), NEW n \in Served(par)
    PROVE  e[n] # OpenIDConfiguration /\ e[n] # ServerMetadata
  <1> DEFINE x == e[n]
  <1>1. WellFormed(x) /\ ~BelowWellKnown(x)
    BY DEF validate
  <1> HIDE DEF x
  <1>2. ASSUME NEW y, x = <<"/.well-known", y>>
        PROVE  y \in Tails
    <2>1. Len(x) = 2 /\ x[1] = "/.well-known" /\ x[2] = y /\ 2 \in DOMAIN x
      BY <1>2
    <2>2. x[2] \in Segments \union Tails
      BY <1>1, <2>1 DEF WellFormed
    <2> QED BY <1>1, <2>1, <2>2 DEF BelowWellKnown
  <1>3. OpenIDConfiguration[2] \notin Tails /\ ServerMetadata[2] \notin Tails
    BY PiecesAssumption
  <1>4. /\ OpenIDConfiguration[2] = "/openid-configuration"
        /\ ServerMetadata[2] = "/oauth-authorization-server"
    BY DEF OpenIDConfiguration, ServerMetadata
  <1> QED BY <1>2, <1>3, <1>4 DEF x, OpenIDConfiguration, ServerMetadata

(* What is appended does not change the first piece.                       *)
LEMMA FirstStays ==
    ASSUME NEW S, NEW s \in Seq(S), NEW t \in Seq(S), s # <<>>
    PROVE  (s \o t)[1] = s[1]
  <1>1. Len(s) \in Nat \ {0} /\ Len(t) \in Nat
    BY EmptySeq, LenProperties
  <1> QED BY <1>1

(* A path is routed as discovery says, the metadata of RFC 8414 first.     *)
AsPublished(e, par, base, path) ==
    /\ \A n \in Names : route(e, par, base, path) = n <=>
         /\ n \in Served(par) /\ base \o e[n] = path
         /\ path # ServerMetadata \o base
    /\ route(e, par, base, path) = "discovery" <=>
         path \in {base \o OpenIDConfiguration, ServerMetadata \o base}

(* The well-known paths are paths.                                         *)
LEMMA WellKnownPaths ==
    /\ OpenIDConfiguration \in Seq(Pieces) /\ ServerMetadata \in Seq(Pieces)
    /\ ServerMetadata # <<>> /\ ServerMetadata[1] = "/.well-known"
  <1>1. \A x, y \in Pieces : <<x, y>> \in Seq(Pieces)
    OBVIOUS
  <1>2. OpenIDConfiguration \in Seq(Pieces)
    BY <1>1, Zenon DEF OpenIDConfiguration, Pieces
  <1>3. ServerMetadata \in Seq(Pieces)
    BY <1>1, Zenon DEF ServerMetadata, Pieces
  <1>4. ServerMetadata # <<>> /\ ServerMetadata[1] = "/.well-known"
    BY DEF ServerMetadata
  <1> QED BY <1>2, <1>3, <1>4

(* Only below an issuer in /.well-known can the URL of an endpoint be that *)
(* of the metadata of RFC 8414.                                            *)
LEMMA MetadataIsFree ==
    ASSUME NEW e \in [Names -> Seq(Pieces)], NEW par, validate(e, par),
           NEW base \in Seq(Pieces), NEW n \in Served(par),
           base \o e[n] = ServerMetadata \o base
    PROVE  base # <<>> /\ base[1] = "/.well-known"
  <1>1. e[n] \in Seq(Pieces)
    BY DEF Served, Names
  <1>2. CASE base = <<>>
    <2>1. base \o e[n] = e[n] /\ ServerMetadata \o base = ServerMetadata
      BY <1>1, <1>2, WellKnownPaths, ConcatEmptySeq
    <2> QED BY <2>1, WellKnownIsFree
  <1>3. CASE base # <<>>
    <2>1. (base \o e[n])[1] = base[1]
      BY <1>1, <1>3, FirstStays
    <2>2. (ServerMetadata \o base)[1] = ServerMetadata[1]
      BY WellKnownPaths, FirstStays, Zenon
    <2>3. base[1] = ServerMetadata[1]
      BY <2>1, <2>2, Zenon
    <2> QED BY <1>3, <2>3, WellKnownPaths
  <1> QED BY <1>2, <1>3

(***************************************************************************)
(* Provider.route serves exactly what discovery publishes: an endpoint at  *)
(* its URL and nowhere else, discovery at its two URLs, no endpoint of a   *)
(* feature that is not configured.                                         *)
(***************************************************************************)
LEMMA RouteIsPublished ==
    ASSUME NEW e \in [Names -> Seq(Pieces)], NEW par, validate(e, par),
           NEW base \in Seq(Pieces), NEW path \in Seq(Pieces)
    PROVE  AsPublished(e, par, base, path)
  <1> DEFINE rel == SubSeq(path, Len(base) + 1, Len(path))
             at  == route(e, par, base, path)
             pick == CHOOSE n \in Served(par) : rel = e[n]
  <1>1. OpenIDConfiguration \in Seq(Pieces) /\ ServerMetadata \in Seq(Pieces)
    BY WellKnownPaths
  <1>2. Served(par) \subseteq Names /\ "discovery" \notin Names /\ "none" \notin Names
    BY DEF Served, Names
  <1>3. \A n \in Served(par) : e[n] \in Seq(Pieces)
    BY <1>2
  <1>5. \A n \in Served(par) : base \o e[n] = path <=> StartsWith(path, base) /\ rel = e[n]
    BY <1>3, CutPrefix
  <1>6. base \o OpenIDConfiguration = path <=>
            StartsWith(path, base) /\ rel = OpenIDConfiguration
    BY <1>1, CutPrefix
  <1>7. \A n, m \in Served(par) : e[n] = e[m] => n = m
    BY DEF validate
  <1>8. \A n \in Served(par) : e[n] # OpenIDConfiguration
    BY WellKnownIsFree
  <1>9. at = IF path = ServerMetadata \o base THEN "discovery"
             ELSE IF ~StartsWith(path, base) THEN "none"
             ELSE IF \E n \in Served(par) : rel = e[n] THEN pick
             ELSE IF rel = OpenIDConfiguration THEN "discovery"
             ELSE "none"
    BY Zenon DEF route
  <1> HIDE DEF rel, at, pick
  <1>10. CASE path = ServerMetadata \o base
    <2>1. at = "discovery"
      BY <1>9, <1>10
    <2> QED BY <1>2, <1>10, <2>1 DEF at, AsPublished
  <1>11. CASE path # ServerMetadata \o base /\ ~StartsWith(path, base)
    <2>1. at = "none"
      BY <1>9, <1>11
    <2> QED BY <1>2, <1>5, <1>6, <1>11, <2>1 DEF at, AsPublished
  <1>12. ASSUME path # ServerMetadata \o base, StartsWith(path, base),
                NEW m \in Served(par), rel = e[m]
         PROVE  at = m
    <2>1. at = pick
      BY <1>9, <1>12
    <2>2. pick \in Served(par) /\ rel = e[pick]
      BY <1>12, Zenon DEF pick
    <2> QED BY <1>7, <1>12, <2>1, <2>2
  <1>13. ASSUME path # ServerMetadata \o base, StartsWith(path, base),
                \A n \in Served(par) : rel # e[n]
         PROVE  at = IF rel = OpenIDConfiguration THEN "discovery" ELSE "none"
    BY <1>9, <1>13
  <1>14. CASE /\ path # ServerMetadata \o base /\ StartsWith(path, base)
              /\ \E m \in Served(par) : rel = e[m]
    <2>1. PICK m \in Served(par) : rel = e[m]
      BY <1>14
    <2>2. at = m
      BY <1>12, <1>14, <2>1
    <2>3. rel # OpenIDConfiguration
      BY <1>8, <2>1
    <2> QED BY <1>2, <1>5, <1>6, <1>7, <1>14, <2>1, <2>2, <2>3 DEF at, AsPublished
  <1>15. CASE /\ path # ServerMetadata \o base /\ StartsWith(path, base)
              /\ \A m \in Served(par) : rel # e[m]
    <2>1. at = IF rel = OpenIDConfiguration THEN "discovery" ELSE "none"
      BY <1>13, <1>15
    <2> QED BY <1>2, <1>5, <1>6, <1>15, <2>1 DEF at, AsPublished
  <1> QED BY <1>10, <1>11, <1>14, <1>15

----------------------------------------------------------------------------
(* The configuration that New accepts.                                     *)

ConfigOK(c) ==
    /\ New(c)
    /\ c.endpoints \in [Names -> Seq(Pieces)]
    /\ c.base \in Seq(Pieces)
    /\ validate(c.endpoints, c.par # "")
    /\ c.idTokenScopeClaims \in BOOLEAN

(* setDefaults leaves no field empty, and once it has been applied it      *)
(* changes nothing.                                                        *)
LEMMA DefaultsOnce ==
    ASSUME NEW e \in [Names -> Seq(STRING)]
    PROVE  /\ setDefaults(e) \in [Names -> Seq(Pieces)]
           /\ setDefaults(setDefaults(e)) = setDefaults(e)
  <1>1. \A n \in Names : Default[n] \in Seq(Pieces) /\ Default[n] # <<>>
    <2>1. \A x \in Pieces : <<x>> \in Seq(Pieces) /\ <<x>> # <<>>
      OBVIOUS
    <2>2. \A n \in Names : \E x \in Pieces : Default[n] = <<x>>
      <3>1. /\ Default["authorization"] = <<"/authorize">> /\ Default["token"] = <<"/token">>
            /\ Default["userinfo"] = <<"/userinfo">> /\ Default["introspection"] = <<"/introspect">>
            /\ Default["revocation"] = <<"/revoke">> /\ Default["jwks"] = <<"/jwks">>
            /\ Default["par"] = <<"/par">>
        BY DEF Default
      <3>2. {"/authorize", "/token", "/userinfo", "/introspect", "/revoke", "/jwks", "/par"}
                \subseteq Pieces
        BY DEF Pieces
      <3> QED BY <3>1, <3>2, Zenon DEF Names
    <2> QED BY <2>1, <2>2
  <1>2. \A n \in Names : e[n] \in Seq(Pieces)
    <2>1. \A n \in Names : e[n] \in Seq(STRING)
      OBVIOUS
    <2>2. STRING \subseteq Pieces
      BY DEF Pieces
    <2> QED BY <2>1, <2>2, SeqMonotonic
  <1>3. \A n \in Names : setDefaults(e)[n] = IF e[n] = <<>> THEN Default[n] ELSE e[n]
    BY DEF setDefaults
  <1>4. setDefaults(e) \in [Names -> Seq(Pieces)]
    BY <1>1, <1>2 DEF setDefaults
  <1>5. \A n \in Names : setDefaults(e)[n] # <<>>
    BY <1>1, <1>3
  <1>6. setDefaults(setDefaults(e)) = [n \in Names |-> setDefaults(e)[n]]
    BY <1>5 DEF setDefaults
  <1> QED BY <1>4, <1>6

(* New would accept the configuration that it keeps.                       *)
LEMMA ConfiguredOK ==
    ASSUME NEW c \in Configs, New(c)
    PROVE  ConfigOK(Configured(c))
  <1> DEFINE d == Configured(c)
  <1>1. c \in Config
    BY ConfigsAssumption
  <1>2. c.endpoints \in [Names -> Seq(STRING)] /\ c.base \in Seq(STRING)
    BY <1>1 DEF Config
  <1>3. /\ d.endpoints = setDefaults(c.endpoints)
        /\ d.format = IF c.format = "" THEN "opaque" ELSE c.format
        /\ d.base = c.base /\ d.par = c.par /\ d.scopeClaims = c.scopeClaims
        /\ d.grants = c.grants /\ d.formats = c.formats
        /\ d.lifetime = setDefault(c.lifetime)
        /\ d.scheme = c.scheme /\ d.host = c.host /\ d.extra = c.extra
        /\ d.idTokenScopeClaims = c.idTokenScopeClaims
    BY <1>1 DEF Configured, Config
  <1> HIDE DEF d
  <1>4. /\ d.endpoints \in [Names -> Seq(Pieces)]
        /\ setDefaults(d.endpoints) = d.endpoints
    BY <1>2, <1>3, DefaultsOnce
  <1>5. validate(d.endpoints, d.par # "")
    BY <1>3 DEF New
  <1>6. d.format = "" \/ knownFormat(d, d.format)
    <2>1. c.format = "" \/ knownFormat(c, c.format)
      BY DEF New
    <2> QED BY <1>3, <2>1 DEF knownFormat, BuiltInFormats
  <1>7. resolveIssuer(d)
    BY <1>3 DEF New, resolveIssuer
  <1>11. setDefault(d.lifetime) >= 1000
    <2>1. c.lifetime \in Int /\ setDefault(c.lifetime) >= 1000
      BY <1>1 DEF Config, New
    <2>2. setDefault(setDefault(c.lifetime)) = setDefault(c.lifetime)
      BY <2>1 DEF setDefault
    <2> QED BY <1>3, <2>1, <2>2
  <1>8. New(d)
    BY <1>3, <1>4, <1>5, <1>6, <1>7, <1>11 DEF New
  <1>9. d.base \in Seq(Pieces)
    <2>1. STRING \subseteq Pieces
      BY DEF Pieces
    <2> QED BY <1>2, <1>3, <2>1, SeqMonotonic
  <1>10. d.idTokenScopeClaims \in BOOLEAN
    BY <1>1, <1>3 DEF Config
  <1> QED BY <1>4, <1>5, <1>8, <1>9, <1>10 DEF ConfigOK, d

----------------------------------------------------------------------------
(* Client authentication.                                                  *)

(* A set with two different elements has more than one.                    *)
LEMMA TwoElements ==
    ASSUME NEW S, IsFiniteSet(S), NEW x \in S, NEW y \in S, x # y
    PROVE  Cardinality(S) > 1
  <1>1. IsFiniteSet({x}) /\ Cardinality({x}) = 1
    BY FS_Singleton
  <1>2. IsFiniteSet({x} \union {y}) /\ Cardinality({x} \union {y}) = 2
    <2>1. y \notin {x}
      OBVIOUS
    <2>2. /\ IsFiniteSet({x} \union {y})
          /\ Cardinality({x} \union {y}) = Cardinality({x}) + 1
      BY <1>1, <2>1, FS_AddElement
    <2> QED BY <1>1, <2>2
  <1>3. Cardinality({x} \union {y}) <= Cardinality(S)
    BY FS_Subset
  <1> QED BY <1>2, <1>3, FS_CardinalityType

(* authenticateClient goes on only with at most one kind of credential.    *)
LEMMA OneMethod ==
    ASSUME NEW q, ~(Cardinality(MethodsUsed(q)) > 1)
    PROVE  /\ q.basic # NoBasic => MethodsUsed(q) = {"basic"}
           /\ q.post # "" => MethodsUsed(q) = {"post"}
           /\ q.assertion # "" => MethodsUsed(q) = {"assertion"}
           /\ q.basic = NoBasic /\ q.post = "" /\ q.assertion = "" => MethodsUsed(q) = {}
  <1> DEFINE M == MethodsUsed(q)
  <1>1. M \subseteq {"basic", "post", "assertion"}
    BY DEF MethodsUsed
  <1>2. /\ "basic" \in M <=> q.basic # NoBasic
        /\ "post" \in M <=> q.post # ""
        /\ "assertion" \in M <=> q.assertion # ""
    BY DEF MethodsUsed
  <1> HIDE DEF M
  <1>3. IsFiniteSet(M)
    <2>1. IsFiniteSet({"basic", "post", "assertion"})
      <3>1. IsFiniteSet({"basic"})
        BY FS_Singleton
      <3>2. IsFiniteSet({"basic"} \union {"post"})
        BY <3>1, FS_AddElement
      <3>3. IsFiniteSet(({"basic"} \union {"post"}) \union {"assertion"})
        BY <3>2, FS_AddElement
      <3>4. ({"basic"} \union {"post"}) \union {"assertion"} = {"basic", "post", "assertion"}
        OBVIOUS
      <3> QED BY <3>3, <3>4
    <2> QED BY <1>1, <2>1, FS_Subset
  <1>4. \A x, y \in M : x = y
    BY <1>3, TwoElements DEF M
  <1>5. M = {} \/ \E x \in {"basic", "post", "assertion"} : M = {x}
    BY <1>1, <1>4
  <1> QED BY <1>2, <1>5 DEF M

(***************************************************************************)
(* Who is authenticated is registered, is named by no other ID, and used   *)
(* the one kind of credential the registration has.                        *)
(***************************************************************************)
LEMMA AuthenticatedOK ==
    ASSUME reg \in Registrations \union {None}, NEW q, Authenticated(q)
    PROVE  /\ reg \in Registrations /\ usable(reg)
           /\ q.id \in {"", ClientID}
           /\ \/ MethodsUsed(q) \in {{"basic"}, {"post"}} /\ reg.secret = "hash" /\ usesSecret(reg)
              \/ /\ MethodsUsed(q) = {"assertion"}
                 /\ reg.jwks /\ authMethod(reg) = "private_key_jwt"
              \/ MethodsUsed(q) = {} /\ isPublic(reg)
  <1> DEFINE found == client(Named(q))
  <1>1. authenticateClient(reg, found, q) = "ok"
    BY DEF Authenticated
  <1>2. found \in {"unknown", "invalid", "ok"}
    BY DEF client
  <1>3. found = "ok" => reg \in Registrations /\ usable(reg) /\ Named(q) = ClientID
    BY DEF client
  <1> HIDE DEF found
  <1>4. found # "ok" => lookupAuthenticatingClient(found) # "ok"
    BY <1>2 DEF lookupAuthenticatingClient
  <1>5. ~(Cardinality(MethodsUsed(q)) > 1)
    BY <1>1 DEF authenticateClient
  <1>6. ASSUME NEW s, authenticateWithSecret(reg, found, s) = "ok"
        PROVE  found = "ok" /\ usesSecret(reg) /\ reg.secret = "hash"
    BY <1>4, <1>6 DEF authenticateWithSecret, verifySecret
  <1>7. CASE q.basic # NoBasic
    <2>1. q.id \in {"", q.basic.id} /\ authenticateWithSecret(reg, found, q.basic.secret) = "ok"
      BY <1>1, <1>5, <1>7 DEF authenticateClient
    <2>2. Named(q) = q.basic.id
      BY <1>7 DEF Named
    <2>3. MethodsUsed(q) = {"basic"}
      BY <1>5, <1>7, OneMethod
    <2> QED BY <1>3, <1>6, <2>1, <2>2, <2>3
  <1>8. CASE q.basic = NoBasic /\ q.post # ""
    <2>1. authenticateWithSecret(reg, found, q.post) = "ok"
      BY <1>1, <1>5, <1>8 DEF authenticateClient
    <2>2. Named(q) = q.id
      BY <1>8 DEF Named
    <2>3. MethodsUsed(q) = {"post"}
      BY <1>5, <1>8, OneMethod
    <2> QED BY <1>3, <1>6, <2>1, <2>2, <2>3
  <1>9. CASE q.basic = NoBasic /\ q.post = "" /\ q.assertion # ""
    <2>1. found = "ok" /\ authMethod(reg) = "private_key_jwt" /\ q.id \in {"", q.sub}
      BY <1>1, <1>4, <1>5, <1>9 DEF authenticateClient
    <2>2. Named(q) = q.sub
      BY <1>9 DEF Named
    <2>3. MethodsUsed(q) = {"assertion"}
      BY <1>5, <1>9, OneMethod
    <2>4. reg.jwks
      BY <1>3, <2>1 DEF usable, validateClient, usesSecret, SecretMethods, isPublic
    <2> QED BY <1>3, <2>1, <2>2, <2>3, <2>4
  <1>10. CASE q.basic = NoBasic /\ q.post = "" /\ q.assertion = ""
    <2>1. found = "ok" /\ isPublic(reg)
      BY <1>1, <1>4, <1>5, <1>10 DEF authenticateClient
    <2>2. Named(q) = q.id
      BY <1>10 DEF Named
    <2>3. MethodsUsed(q) = {}
      BY <1>5, <1>10, OneMethod
    <2> QED BY <1>3, <2>1, <2>2, <2>3
  <1> QED BY <1>7, <1>8, <1>9, <1>10

----------------------------------------------------------------------------
(* Redirect URIs.                                                          *)

(* Where an answer may be sent, and how.                                   *)
Deliverable(c, uri, mode) ==
    /\ uri \in URI
    /\ matchRedirectURI(c, uri)
    /\ mode = "form_post" => isHTTPURL(uri)

(* A URI that matches a usable registration is one of its redirect URIs,   *)
(* but for the port of a loopback address.                                 *)
LEMMA MatchesRegistered ==
    ASSUME NEW c \in Registrations, validateClient(c), NEW uri \in URI, matchRedirectURI(c, uri)
    PROVE  RegisteredFor(c, uri)
  <1>1. PICK u \in c.redirects : uri = u \/ loopbackMatch(u, uri)
    BY DEF matchRedirectURI
  <1>2. u \in URI /\ validateRedirectURI(u)
    BY RequestsAssumption DEF validateClient
  <1>3. CASE uri = u
    <2>1. [uri EXCEPT !.port = u.port] = u
      BY <1>2, <1>3 DEF URI
    <2> QED BY <1>3, <2>1 DEF RegisteredFor
  <1>4. CASE loopbackMatch(u, uri)
    <2>1. /\ uri.scheme = u.scheme /\ uri.host = u.host /\ uri.path = u.path
          /\ uri.user = u.user /\ uri.fragment = u.fragment
      BY <1>2, <1>4 DEF loopbackMatch, validateRedirectURI, URI
    <2>2. [uri EXCEPT !.port = u.port] = u
      <3> DEFINE v == [uri EXCEPT !.port = u.port]
      <3>1. v = [scheme |-> uri.scheme, host |-> uri.host, port |-> u.port, path |-> uri.path,
                 user |-> uri.user, fragment |-> uri.fragment]
        BY DEF URI
      <3>2. u = [scheme |-> u.scheme, host |-> u.host, port |-> u.port, path |-> u.path,
                 user |-> u.user, fragment |-> u.fragment]
        BY <1>2 DEF URI
      <3> QED BY <2>1, <3>1, <3>2
    <2> QED BY <1>4, <2>2 DEF loopbackMatch, RegisteredFor
  <1> QED BY <1>1, <1>3, <1>4

(* authorizationTarget finds a client and a place for its errors.          *)
LEMMA TargetOK ==
    ASSUME reg \in Registrations \union {None}, NEW p \in AuthParams,
           authorizationTarget(p) # None
    PROVE  /\ reg \in Registrations /\ usable(reg)
           /\ Deliverable(reg, authorizationTarget(p).uri, authorizationTarget(p).mode)
           /\ authorizationTarget(p).mode \in STRING \union {"query"}
  <1> DEFINE uri  == RedirectURI(p)
             mode == ResponseMode(p, uri)
  <1>1. client(p.id) = "ok" /\ uri # None
    BY DEF authorizationTarget
  <1>2. authorizationTarget(p).uri = uri /\ authorizationTarget(p).mode = mode
    BY DEF authorizationTarget
  <1>3. reg \in Registrations /\ usable(reg)
    BY <1>1 DEF client
  <1>4. p \in AuthParam /\ reg.redirects \subseteq URI
    BY <1>3, RequestsAssumption
  <1>5. uri \in URI /\ matchRedirectURI(reg, uri)
    <2>1. CASE p.redirect # None
      <3>1. p.redirect \in URI
        BY <1>4, <2>1 DEF AuthParam
      <3> QED BY <1>1, <2>1, <3>1 DEF RedirectURI
    <2>2. CASE p.redirect = None
      <3>1. Cardinality(reg.redirects) = 1 /\ uri = CHOOSE u \in reg.redirects : TRUE
        BY <1>1, <2>2 DEF RedirectURI
      <3>2. reg.redirects # {}
        BY <3>1, FS_EmptySet
      <3>3. uri \in reg.redirects
        BY <3>1, <3>2
      <3> QED BY <1>4, <3>3 DEF matchRedirectURI
    <2> QED BY <2>1, <2>2
  <1> HIDE DEF uri
  <1>6. mode \in STRING \union {"query"} /\ (mode = "form_post" => isHTTPURL(uri))
    <2>1. p.mode \in STRING /\ p.objectMode \in STRING
      BY <1>4 DEF AuthParam
    <2> QED BY <2>1 DEF ResponseMode
  <1> QED BY <1>2, <1>3, <1>5, <1>6 DEF Deliverable

----------------------------------------------------------------------------
(* Authorization requests.                                                 *)

Request ==
    [uri : URI, mode : STRING \union {"query"}, scopes : SUBSET STRING,
     claims : ClaimsRequest, challenge : BOOLEAN, nonce : BOOLEAN,
     subject : STRING, asked : AuthParams, stage : {"parsed", "serving", "saved"},
     path : Paths \union {<<>>}, parsedWith : Registrations \union {None}]

(* A claims request that was reduced from another one still has its        *)
(* entries that affect authentication.                                     *)
Reduced(c, from) ==
    /\ c.id \subseteq from.id /\ c.userinfo \subseteq from.userinfo
    /\ from.id \intersect {"acr", "sub"} \subseteq c.id
    /\ c.essential = from.essential /\ c.sub = from.sub

(* subject is the end-user that the client asked for, or "".               *)
AsksForUser(asked, subject) ==
    /\ "sub" \in asked.claims.id => asked.claims.sub \in {"", subject}
    /\ asked.hint \in {"", subject}

RequestOK(r) ==
    /\ r \in Request
    /\ Reduced(r.claims, r.asked.claims)
    /\ AsksForUser(r.asked, r.subject)

(* With the configuration c, the request was routed to serveAuthorization  *)
(* and names a redirect URI that was registered when it was parsed.        *)
ServedOK(c, r) ==
    /\ r.path \in Paths /\ route(c.endpoints, c.par # "", c.base, r.path) = "authorization"
    /\ r.parsedWith \in Registrations /\ validateClient(r.parsedWith)
    /\ Deliverable(r.parsedWith, r.uri, r.mode)

(* What claimsForClient keeps and what it drops.                           *)
LEMMA ReducedOK ==
    ASSUME NEW sc, NEW scopes, NEW c \in ClaimsRequest
    PROVE  LET d == claimsForClient(sc, scopes, c)
           IN  /\ d \in ClaimsRequest
               /\ Reduced(d, c)
               /\ d.id \union d.userinfo \subseteq Mapped(sc, scopes) \union {"sub", "acr", "auth_time"}
  <1> DEFINE keep == Mapped(sc, scopes) \union {"sub", "acr", "auth_time"}
             d    == claimsForClient(sc, scopes, c)
  <1>1. d = [c EXCEPT !.id = @ \intersect keep, !.userinfo = @ \intersect keep]
    BY DEF claimsForClient, filter
  <1>2. "sub" \in keep /\ "acr" \in keep
    OBVIOUS
  <1> HIDE DEF keep, d
  <1>3. /\ d.id = c.id \intersect keep /\ d.userinfo = c.userinfo \intersect keep
        /\ d.essential = c.essential /\ d.sub = c.sub
    BY <1>1 DEF ClaimsRequest
  <1>4. d \in ClaimsRequest
    BY <1>1 DEF ClaimsRequest
  <1>5. Reduced(d, c)
    BY <1>2, <1>3 DEF Reduced
  <1>6. d.id \union d.userinfo \subseteq keep
    BY <1>3
  <1> QED BY <1>4, <1>5, <1>6 DEF d, keep

(* Reducing twice is reducing.                                             *)
LEMMA ReducedTwice ==
    ASSUME NEW c, NEW d, NEW e, Reduced(d, c), Reduced(e, d)
    PROVE  Reduced(e, c)
  BY DEF Reduced

(* A request that was parsed names the end-user its client asked for.      *)
LEMMA ParsedOK ==
    ASSUME reg \in Registrations, NEW p \in AuthParams, NEW t,
           t.uri \in URI, t.mode \in STRING \union {"query"}, parseable(p, t)
    PROVE  /\ RequestOK(parsed(p, t))
           /\ parsed(p, t).stage = "parsed"
           /\ parsed(p, t).uri = t.uri /\ parsed(p, t).mode = t.mode
  <1> DEFINE claims == claimsForClient(cfg.scopeClaims, reg.scopes, p.claims)
             r == parsed(p, t)
  <1>1. p \in AuthParam
    BY RequestsAssumption
  <1>2. /\ p.claims \in ClaimsRequest /\ p.challenge \in BOOLEAN /\ p.nonce \in BOOLEAN
        /\ p.scopes \in SUBSET STRING /\ p.hint \in STRING
    BY <1>1 DEF AuthParam
  <1>3. claims \in ClaimsRequest /\ Reduced(claims, p.claims)
    BY <1>2, ReducedOK
  <1>4. ~Conflict(p, claims)
    BY DEF parseable
  <1> HIDE DEF claims
  <1>5. r = [uri |-> t.uri, mode |-> t.mode, scopes |-> scopesOf(p), claims |-> claims,
             challenge |-> p.challenge, nonce |-> p.nonce,
             subject |-> IF requestedSub(claims) # "" THEN requestedSub(claims) ELSE p.hint,
             asked |-> p, stage |-> "parsed", path |-> <<>>, parsedWith |-> None]
    BY DEF parsed, claims
  <1>6. (IF requestedSub(claims) # "" THEN requestedSub(claims) ELSE p.hint) \in STRING
    BY <1>2, <1>3 DEF requestedSub, ClaimsRequest
  <1>7. scopesOf(p) \in SUBSET STRING
    BY <1>2 DEF scopesOf
  <1> HIDE DEF r
  <1>8. r \in Request
    BY <1>2, <1>3, <1>5, <1>6, <1>7 DEF Request
  <1>9. Reduced(r.claims, r.asked.claims)
    BY <1>3, <1>5
  <1>10. AsksForUser(r.asked, r.subject)
    <2>1. "sub" \in p.claims.id => requestedSub(claims) = p.claims.sub
      BY <1>3 DEF Reduced, requestedSub
    <2>2. r.asked = p /\ r.subject = IF requestedSub(claims) # "" THEN requestedSub(claims) ELSE p.hint
      BY <1>5
    <2> QED BY <1>4, <2>1, <2>2 DEF AsksForUser, Conflict
  <1>11. r.stage = "parsed" /\ r.uri = t.uri /\ r.mode = t.mode
    BY <1>5
  <1> QED BY <1>8, <1>9, <1>10, <1>11 DEF RequestOK, r

(* A request at another stage is as good.                                  *)
LEMMA StagedOK ==
    ASSUME NEW r, RequestOK(r), NEW s \in Request,
           s.claims = r.claims, s.asked = r.asked, s.subject = r.subject
    PROVE  RequestOK(s)
  BY DEF RequestOK

(* Reducing a pending request to the current registration.                 *)
LEMMA CurrentOK ==
    ASSUME NEW r, RequestOK(r)
    PROVE  LET s == Current(r)
           IN  /\ RequestOK(s)
               /\ s.uri = r.uri /\ s.mode = r.mode /\ s.scopes = r.scopes
               /\ s.challenge = r.challenge /\ s.subject = r.subject /\ s.asked = r.asked
               /\ s.claims.id \union s.claims.userinfo \subseteq
                    Mapped(cfg.scopeClaims, reg.scopes) \union {"sub", "acr", "auth_time"}
  <1> DEFINE claims == claimsForClient(cfg.scopeClaims, reg.scopes, r.claims)
             s == Current(r)
  <1>1. r \in Request /\ r.claims \in ClaimsRequest
    BY DEF RequestOK, Request
  <1>2. /\ claims \in ClaimsRequest /\ Reduced(claims, r.claims)
        /\ claims.id \union claims.userinfo \subseteq
                    Mapped(cfg.scopeClaims, reg.scopes) \union {"sub", "acr", "auth_time"}
    BY <1>1, ReducedOK
  <1>3. s = [r EXCEPT !.claims = claims]
    BY DEF Current
  <1> HIDE DEF claims, s
  <1>4. /\ s.uri = r.uri /\ s.mode = r.mode /\ s.scopes = r.scopes
        /\ s.challenge = r.challenge /\ s.subject = r.subject /\ s.asked = r.asked
        /\ s.claims = claims
    BY <1>1, <1>3 DEF Request
  <1>5. s \in Request
    BY <1>1, <1>2, <1>3 DEF Request
  <1>6. Reduced(s.claims, s.asked.claims)
    BY <1>2, <1>4, ReducedTwice DEF RequestOK
  <1>7. AsksForUser(s.asked, s.subject)
    BY <1>4 DEF RequestOK
  <1> QED BY <1>2, <1>4, <1>5, <1>6, <1>7 DEF RequestOK, s

----------------------------------------------------------------------------
(* Grants.                                                                 *)

Grant ==
    [scopes : SUBSET STRING, subject : STRING, acr : STRING, challenge : BOOLEAN,
     claims : ClaimsRequest \union {NoClaims}, asked : AuthParams,
     approved : SUBSET STRING, registered : Registrations]

(* Claims requested by name that a token carries were asked for, approved, *)
(* and covered by the registration at the approval.                        *)
ClaimsOK(sc, t) ==
    /\ t.claims.id \subseteq t.asked.claims.id /\ t.claims.userinfo \subseteq t.asked.claims.userinfo
    /\ t.claims.id \union t.claims.userinfo \subseteq
            t.approved \intersect Mapped(sc, t.registered.scopes)

(* The login of an OpenID Connect grant is the one that was asked for.     *)
LoginOK(t) ==
    /\ "acr" \in t.asked.claims.id /\ t.asked.claims.essential => t.acr = "gold"
    /\ AsksForUser(t.asked, t.subject)

GrantOK(sc, t) ==
    /\ t \in Grant
    /\ t.scopes \subseteq t.registered.scopes
    /\ ClaimsOK(sc, t)
    /\ "openid" \in t.scopes => LoginOK(t)
    /\ isPublic(t.registered) => t.challenge

(* What Approve puts into a code.                                          *)
CodeOf(r, a) ==
    [scopes |-> a.scopes, subject |-> a.subject, acr |-> a.acr, challenge |-> r.challenge,
     claims |-> IF "openid" \in r.scopes THEN filter(r.claims, a.claims) ELSE NoClaims,
     asked |-> r.asked, approved |-> a.claims, registered |-> reg]

(* An approval that Approve accepts makes a grant within what was asked.   *)
LEMMA ApprovedOK ==
    ASSUME reg \in Registrations, NEW r, RequestOK(r), NEW a \in Approvals,
           checkRequest(r), validateApproval(Current(r), a)
    PROVE  GrantOK(cfg.scopeClaims, CodeOf(Current(r), a))
  <1> DEFINE s == Current(r)
             mapped == Mapped(cfg.scopeClaims, reg.scopes)
             kept == IF "openid" \in s.scopes THEN filter(s.claims, a.claims) ELSE NoClaims
             t == CodeOf(s, a)
  <1>1. /\ RequestOK(s)
        /\ s.scopes = r.scopes /\ s.challenge = r.challenge
        /\ s.claims.id \union s.claims.userinfo \subseteq mapped \union {"sub", "acr", "auth_time"}
    BY CurrentOK
  <1>2. /\ a.scopes \subseteq s.scopes
        /\ a.claims \subseteq requestedNames(s.claims)
        /\ "openid" \in s.scopes =>
            /\ s.subject \in {"", a.subject}
            /\ requestedEssentialACR(s.claims) => a.acr = "gold"
    BY DEF validateApproval
  <1>3. /\ a.scopes \in SUBSET STRING /\ a.claims \in SUBSET STRING
        /\ a.subject \in STRING /\ a.acr \in STRING
    BY RequestsAssumption DEF Approval
  <1>4. /\ r.scopes \subseteq reg.scopes
        /\ r.challenge \/ checkPKCEPolicy(reg, "openid" \in r.scopes, r.nonce)
    BY DEF checkRequest
  <1> HIDE DEF s, mapped
  <1>5. /\ s.claims \in ClaimsRequest /\ s.asked \in AuthParams /\ s.challenge \in BOOLEAN
        /\ Reduced(s.claims, s.asked.claims) /\ AsksForUser(s.asked, s.subject)
    BY <1>1 DEF RequestOK, Request
  <1>6. a.claims \subseteq mapped
    BY <1>1, <1>2 DEF requestedNames, protocolClaims
  <1>7. /\ kept \in ClaimsRequest \union {NoClaims}
        /\ kept.id \subseteq s.claims.id \intersect a.claims
        /\ kept.userinfo \subseteq s.claims.userinfo \intersect a.claims
    BY <1>5 DEF filter, NoClaims, ClaimsRequest
  <1> HIDE DEF kept
  <1>8. t = [scopes |-> a.scopes, subject |-> a.subject, acr |-> a.acr,
             challenge |-> s.challenge, claims |-> kept, asked |-> s.asked,
             approved |-> a.claims, registered |-> reg]
    BY DEF CodeOf, kept
  <1> HIDE DEF t
  <1>9. t \in Grant
    BY <1>3, <1>5, <1>7, <1>8 DEF Grant
  <1>10. t.scopes \subseteq t.registered.scopes
    BY <1>1, <1>2, <1>4, <1>8
  <1>11. ClaimsOK(cfg.scopeClaims, t)
    BY <1>5, <1>6, <1>7, <1>8 DEF ClaimsOK, Reduced, mapped
  <1>12. ASSUME "openid" \in t.scopes PROVE LoginOK(t)
    <2>1. "openid" \in s.scopes
      BY <1>2, <1>8, <1>12
    <2>2. "acr" \in s.asked.claims.id /\ s.asked.claims.essential => a.acr = "gold"
      BY <1>2, <1>5, <2>1 DEF Reduced, requestedEssentialACR
    <2>3. AsksForUser(s.asked, a.subject)
      BY <1>2, <1>5, <2>1 DEF AsksForUser
    <2> QED BY <1>8, <2>2, <2>3 DEF LoginOK
  <1>13. ASSUME isPublic(t.registered) PROVE t.challenge
    <2>1. isPublic(reg)
      BY <1>8, <1>13
    <2>2. ~checkPKCEPolicy(reg, "openid" \in r.scopes, r.nonce)
      BY <2>1 DEF checkPKCEPolicy, pkcePolicy
    <2> QED BY <1>1, <1>4, <1>8, <2>2
  <1> QED BY <1>9, <1>10, <1>11, <1>12, <1>13 DEF GrantOK, s, t

(* The access token of an exchange: the grant with fewer scopes.           *)
LEMMA NarrowedOK ==
    ASSUME NEW sc, NEW t, GrantOK(sc, t), NEW scopes, scopes \subseteq t.scopes
    PROVE  LET at == [t EXCEPT !.scopes = scopes]
           IN  /\ GrantOK(sc, at)
               /\ at.scopes = scopes /\ at.subject = t.subject /\ at.acr = t.acr
               /\ at.challenge = t.challenge /\ at.claims = t.claims /\ at.asked = t.asked
               /\ at.approved = t.approved /\ at.registered = t.registered
  <1> DEFINE at == [t EXCEPT !.scopes = scopes]
  <1>1. t \in Grant
    BY DEF GrantOK
  <1>2. /\ at.scopes = scopes /\ at.subject = t.subject /\ at.acr = t.acr
        /\ at.challenge = t.challenge /\ at.claims = t.claims /\ at.asked = t.asked
        /\ at.approved = t.approved /\ at.registered = t.registered
    BY <1>1 DEF Grant
  <1>3. at \in Grant
    BY <1>1 DEF Grant
  <1> HIDE DEF at
  <1>4. ClaimsOK(sc, at)
    BY <1>2 DEF ClaimsOK, GrantOK
  <1>5. "openid" \in at.scopes => LoginOK(at)
    BY <1>2 DEF LoginOK, GrantOK
  <1> QED BY <1>2, <1>3, <1>4, <1>5 DEF GrantOK, at

----------------------------------------------------------------------------
(* The claims of responses.                                                *)

(* Discovery lists every claim that a scope maps to.                       *)
LEMMA MappedAreSupported ==
    ASSUME NEW sc, NEW scopes
    PROVE  Mapped(sc, scopes) \subseteq supportedClaims(sc)
  <1> SUFFICES ASSUME NEW x \in scopes, NEW n \in scopeClaims(sc, x)
               PROVE  n \in supportedClaims(sc)
    BY DEF Mapped
  <1> DEFINE own == UNION {sc[s] : s \in DOMAIN sc}
             std == UNION {standardScopeClaims[s] : s \in DOMAIN standardScopeClaims}
             pro == {"iss", "sub", "acr", "auth_time"}
  <1>1. supportedClaims(sc) = pro \union std \union own
    BY Zenon DEF supportedClaims
  <1>2. n \in own \/ n \in std
    <2>1. CASE x \in DOMAIN sc
      <3>1. n \in sc[x]
        BY <2>1, Zenon DEF scopeClaims
      <3> QED BY <2>1, <3>1, Zenon
    <2>2. CASE x \notin DOMAIN sc
      <3>1. x \in DOMAIN standardScopeClaims /\ n \in standardScopeClaims[x]
        BY <2>2 DEF scopeClaims
      <3> QED BY <3>1, Zenon
    <2> QED BY <2>1, <2>2
  <1> HIDE DEF own, std, pro
  <1> QED BY <1>1, <1>2

(* The claims of an ID token for a grant.                                  *)
LEMMA IDTokenOK ==
    ASSUME NEW sc, NEW held, NEW too \in BOOLEAN, NEW t, ClaimsOK(sc, t), NEW extra,
           NEW n \in DOMAIN issueIDToken(sc, held, too, t, extra)
    PROVE  LET by == issueIDToken(sc, held, too, t, extra)[n]
           IN  /\ by # "hook" => n \in supportedClaims(sc)
               /\ by = "application" =>
                    /\ n \notin protocolClaims
                    /\ \/ too /\ n \in Mapped(sc, t.scopes)
                       \/ /\ n \in t.asked.claims.id /\ n \in t.approved
                          /\ n \in Mapped(sc, t.registered.scopes)
  <1> DEFINE mine == {"iss", "sub", "auth_time"} \union (IF t.acr # "" THEN {"acr"} ELSE {})
             user == endUserClaims(held, allowedClaims(sc, t.scopes, t.claims.id, too))
             all  == issueIDToken(sc, held, too, t, extra)
  <1>1. all = [m \in user \union extra \union mine |->
                IF m \in mine THEN "provider" ELSE IF m \in extra THEN "hook" ELSE "application"]
    BY DEF issueIDToken
  <1>2. mine \subseteq supportedClaims(sc)
    BY DEF supportedClaims
  <1>3. \A m \in user : /\ m \notin protocolClaims
                        /\ \/ too /\ m \in Mapped(sc, t.scopes)
                           \/ m \in t.claims.id
    BY DEF endUserClaims, allowedClaims
  <1> HIDE DEF mine, user, all
  <1>4. /\ n \in user \union extra \union mine
        /\ all[n] = IF n \in mine THEN "provider" ELSE IF n \in extra THEN "hook" ELSE "application"
    BY <1>1 DEF all
  <1>5. all[n] = "application" => n \in user
    BY <1>4
  <1>6. all[n] # "hook" => n \in user \/ n \in mine
    BY <1>4
  <1>7. n \in user => \/ too /\ n \in Mapped(sc, t.scopes)
                      \/ /\ n \in t.asked.claims.id /\ n \in t.approved
                         /\ n \in Mapped(sc, t.registered.scopes)
    BY <1>3 DEF ClaimsOK
  <1>8. n \in user => n \in supportedClaims(sc)
    BY <1>7, MappedAreSupported
  <1> QED BY <1>2, <1>3, <1>5, <1>6, <1>7, <1>8 DEF all

(* The claims of a UserInfo response for a grant.                          *)
LEMMA UserInfoOK ==
    ASSUME NEW sc, NEW held, NEW t, ClaimsOK(sc, t), NEW n \in DOMAIN userInfo(sc, held, t)
    PROVE  /\ n \in supportedClaims(sc)
           /\ userInfo(sc, held, t)[n] = "application" =>
                /\ n \notin protocolClaims
                /\ \/ n \in Mapped(sc, t.scopes)
                   \/ /\ n \in t.asked.claims.userinfo /\ n \in t.approved
                      /\ n \in Mapped(sc, t.registered.scopes)
  <1> DEFINE user == endUserClaims(held, allowedClaims(sc, t.scopes, t.claims.userinfo, TRUE))
             all  == userInfo(sc, held, t)
  <1>1. all = [m \in user \union {"sub"} |-> IF m = "sub" THEN "provider" ELSE "application"]
    BY DEF userInfo
  <1>2. "sub" \in supportedClaims(sc)
    BY DEF supportedClaims
  <1>3. \A m \in user : /\ m \notin protocolClaims
                        /\ m \in Mapped(sc, t.scopes) \/ m \in t.claims.userinfo
    BY DEF endUserClaims, allowedClaims
  <1> HIDE DEF user, all
  <1>4. /\ n \in user \union {"sub"}
        /\ all[n] = IF n = "sub" THEN "provider" ELSE "application"
    BY <1>1 DEF all
  <1>5. n \in user => \/ n \in Mapped(sc, t.scopes)
                      \/ /\ n \in t.asked.claims.userinfo /\ n \in t.approved
                         /\ n \in Mapped(sc, t.registered.scopes)
    BY <1>3 DEF ClaimsOK
  <1>6. n \in user => n \in supportedClaims(sc)
    BY <1>5, MappedAreSupported
  <1> QED BY <1>2, <1>3, <1>4, <1>5, <1>6 DEF all

----------------------------------------------------------------------------
(* The inductive invariant.                                                *)

(* What the provider keeps between requests. *)
StateOK ==
    /\ ConfigOK(cfg)
    /\ reg \in Registrations \union {None}
    /\ pending # None => RequestOK(pending)
    /\ pending # None /\ pending.stage = "serving" => ServedOK(cfg, pending)
    /\ code # None => GrantOK(cfg.scopeClaims, code)
    /\ refresh # None => GrantOK(cfg.scopeClaims, refresh)
    /\ access # None => access.subject = "" \/ GrantOK(cfg.scopeClaims, access)

(* What its last response says. *)
OutOK ==
    /\ out # None => /\ out.kind \in Kinds
                     /\ out.path # <<>> => out.path \in Paths /\ out.at = At(out.path)
    /\ CredentialsProveTheClient
    /\ AnswersStayRegistered
    /\ PublicCodesAreProven
    /\ ReleaseIsApproved
    /\ LoginIsAsAsked

Inductive == StateOK /\ OutOK

(* Initially there is no grant and no response.                            *)
LEMMA InitInductive == Init => Inductive
  <1> SUFFICES ASSUME Init PROVE Inductive
    OBVIOUS
  <1>1. ConfigOK(cfg)
    <2>1. PICK c \in Configs : New(c) /\ cfg = Configured(c)
      BY DEF Init
    <2> QED BY <2>1, ConfiguredOK
  <1>2. StateOK
    BY <1>1 DEF Init, StateOK
  <1>3. OutOK
    BY DEF Init, OutOK, CredentialsProveTheClient, AnswersStayRegistered, PublicCodesAreProven,
           ReleaseIsApproved, LoginIsAsAsked
  <1> QED BY <1>2, <1>3 DEF Inductive

(* Without a response there is nothing to show.                            *)
LEMMA NoOut ==
    ASSUME out' = None
    PROVE  OutOK'
  BY DEF OutOK, CredentialsProveTheClient, AnswersStayRegistered, PublicCodesAreProven,
         ReleaseIsApproved, LoginIsAsAsked

(* Responses without tokens, claims or redirection.                        *)
LEMMA PlainOut ==
    ASSUME UNCHANGED cfg, NEW path \in Paths,
           out'.path = path, out'.at = At(path), out'.claims = <<>>,
           out'.kind \in {"page", "interact", "error", "document"}
    PROVE  OutOK'
  <1>1. /\ out'.kind \in Kinds
        /\ out'.kind \notin {"redirect", "failed", "tokens", "refreshed", "served", "claims"}
    BY DEF Kinds
  <1>2. DOMAIN out'.claims = {}
    OBVIOUS
  <1>3. out'.path \in Paths /\ out'.at = At(out'.path)
    OBVIOUS
  <1>4. (out # None => /\ out.kind \in Kinds
                       /\ out.path # <<>> => out.path \in Paths /\ out.at = At(out.path))'
    BY <1>1, <1>3 DEF At, PAR
  <1>5. CredentialsProveTheClient'
    BY <1>1 DEF CredentialsProveTheClient
  <1>6. AnswersStayRegistered'
    BY <1>1 DEF AnswersStayRegistered
  <1>7. PublicCodesAreProven'
    BY <1>1 DEF PublicCodesAreProven
  <1>8. ReleaseIsApproved'
    BY <1>2 DEF ReleaseIsApproved
  <1>9. LoginIsAsAsked'
    BY <1>2 DEF LoginIsAsAsked
  <1> QED BY <1>4, <1>5, <1>6, <1>7, <1>8, <1>9 DEF OutOK

(* Redirections to where a registration c allows: the current one, or the  *)
(* one that a request that cannot be saved was parsed with.                *)
LEMMA RedirectOut ==
    ASSUME UNCHANGED <<cfg, reg>>, NEW c \in Registrations, validateClient(c),
           Deliverable(c, out'.to, out'.mode),
           out'.path = <<>> \/ (out'.path \in Paths /\ out'.at = At(out'.path)),
           out'.claims = <<>>,
           \/ out'.kind = "redirect" /\ c = reg
           \/ out'.kind = "failed" /\ c = out'.parsedWith
    PROVE  OutOK'
  <1>1. out'.kind \in Kinds
    BY DEF Kinds
  <1>2. DOMAIN out'.claims = {}
    OBVIOUS
  <1>4. (out # None => /\ out.kind \in Kinds
                       /\ out.path # <<>> => out.path \in Paths /\ out.at = At(out.path))'
    BY <1>1 DEF At, PAR
  <1>5. CredentialsProveTheClient'
    BY DEF CredentialsProveTheClient
  <1>6. AnswersStayRegistered'
    <2>1. RegisteredFor(c, out'.to)
      BY MatchesRegistered DEF Deliverable
    <2>2. out'.mode = "form_post" => out'.to.scheme \in {"http", "https"}
      BY DEF Deliverable, isHTTPURL
    <2>3. \/ out'.kind = "redirect" /\ c = reg'
          \/ out'.kind = "failed" /\ c = out'.parsedWith
      OBVIOUS
    <2> QED BY <2>1, <2>2, <2>3 DEF AnswersStayRegistered, RegisteredFor
  <1>7. PublicCodesAreProven'
    BY DEF PublicCodesAreProven
  <1>8. ReleaseIsApproved'
    BY <1>2 DEF ReleaseIsApproved
  <1>9. LoginIsAsAsked'
    BY <1>2 DEF LoginIsAsAsked
  <1> QED BY <1>4, <1>5, <1>6, <1>7, <1>8, <1>9 DEF OutOK

(* Responses to authenticated clients; the claims are for the caller.      *)
LEMMA ClientOut ==
    ASSUME StateOK, UNCHANGED <<cfg, reg>>, NEW path \in Paths,
           out'.path = path, out'.at = At(path), Authenticated(out'.q),
           out'.at = "introspection" => ~isPublic(reg),
           out'.kind \in {"tokens", "refreshed", "served"},
           PublicCodesAreProven', ReleaseIsApproved', LoginIsAsAsked'
    PROVE  OutOK'
  <1>1. out'.kind \in Kinds /\ out'.kind \notin {"redirect", "failed"}
    BY DEF Kinds
  <1>2. out'.path \in Paths /\ out'.at = At(out'.path)
    OBVIOUS
  <1>4. (out # None => /\ out.kind \in Kinds
                       /\ out.path # <<>> => out.path \in Paths /\ out.at = At(out.path))'
    BY <1>1, <1>2 DEF At, PAR
  <1>5. CredentialsProveTheClient'
    <2>1. /\ out'.q.id \in {"", ClientID}
          /\ \/ /\ MethodsUsed(out'.q) \in {{"basic"}, {"post"}}
                /\ reg.secret = "hash" /\ usesSecret(reg)
             \/ /\ MethodsUsed(out'.q) = {"assertion"}
                /\ reg.jwks /\ authMethod(reg) = "private_key_jwt"
             \/ MethodsUsed(out'.q) = {} /\ isPublic(reg)
      BY AuthenticatedOK DEF StateOK
    <2> QED BY <2>1 DEF CredentialsProveTheClient
  <1>6. AnswersStayRegistered'
    BY <1>1 DEF AnswersStayRegistered
  <1> QED BY <1>4, <1>5, <1>6 DEF OutOK

(* Tokens for a code or a refresh token t: the claims are those of an ID   *)
(* token for a narrower access token, or there are none.                   *)
LEMMA TokensOut ==
    ASSUME StateOK, UNCHANGED <<cfg, reg>>, NEW path \in Paths,
           out'.path = path, out'.at = At(path), At(path) = "token", Authenticated(out'.q),
           NEW t, GrantOK(cfg.scopeClaims, t), checkClientGrant(t),
           NEW scopes, scopes \subseteq t.scopes,
           out'.of = [t EXCEPT !.scopes = scopes], NEW extra,
           \/ out'.claims = <<>>
           \/ "openid" \in t.scopes /\ out'.claims = IDToken(out'.of, extra),
           \/ out'.kind = "tokens" /\ out'.verifier = t.challenge
           \/ out'.kind = "refreshed"
    PROVE  OutOK'
  <1> DEFINE sc == cfg.scopeClaims
  <1>1. PICK at : at = out'.of
    OBVIOUS
  <1>2. /\ GrantOK(sc, at)
        /\ at.scopes = scopes /\ at.subject = t.subject /\ at.acr = t.acr
        /\ at.challenge = t.challenge /\ at.asked = t.asked
        /\ at.approved = t.approved /\ at.registered = t.registered
    BY <1>1, NarrowedOK
  <1>3. PublicCodesAreProven'
    <2>1. out'.kind = "tokens" /\ isPublic(at.registered) => out'.verifier /\ at.asked # None
      <3>1. t.asked \in AuthParams
        BY DEF GrantOK, Grant
      <3>2. isPublic(t.registered) => t.challenge
        BY DEF GrantOK
      <3> QED BY <1>2, <3>1, <3>2, RequestsAssumption
    <2> QED BY <1>1, <2>1 DEF PublicCodesAreProven
  <1>4. ReleaseIsApproved'
    <2>1. ASSUME NEW n \in DOMAIN out'.claims
          PROVE  /\ out'.claims[n] # "hook" => n \in supportedClaims(sc)
                 /\ out'.claims[n] = "application" =>
                      /\ n \notin protocolClaims
                      /\ \/ cfg.idTokenScopeClaims /\ n \in Mapped(sc, at.scopes)
                         \/ /\ n \in at.asked.claims.id /\ n \in at.approved
                            /\ n \in Mapped(sc, at.registered.scopes)
      <3>1. out'.claims = issueIDToken(sc, Held, cfg.idTokenScopeClaims, at, extra)
        <4>1. out'.claims # <<>>
          BY <2>1
        <4> QED BY <1>1, <4>1 DEF IDToken
      <3>2. cfg.idTokenScopeClaims \in BOOLEAN /\ ClaimsOK(sc, at)
        BY <1>2 DEF StateOK, ConfigOK, GrantOK
      <3> QED BY <2>1, <3>1, <3>2, IDTokenOK
    <2>2. out'.kind # "claims"
      OBVIOUS
    <2>3. at.scopes \subseteq reg.scopes
      BY <1>2 DEF checkClientGrant
    <2> QED BY <1>1, <2>1, <2>2, <2>3 DEF ReleaseIsApproved, AskedFor
  <1>5. LoginIsAsAsked'
    <2>1. DOMAIN out'.claims # {} => LoginOK(t)
      BY DEF GrantOK
    <2> QED BY <1>1, <1>2, <2>1 DEF LoginIsAsAsked, LoginOK, AsksForUser
  <1>6. out'.at = "introspection" => ~isPublic(reg)
    OBVIOUS
  <1> QED BY <1>3, <1>4, <1>5, <1>6, ClientOut

(* The fields of a response.                                               *)
LEMMA ResponseFields ==
    ASSUME NEW at, NEW path, NEW kind
    PROVE  LET o == Response(at, path, kind)
           IN  o.at = at /\ o.path = path /\ o.kind = kind /\ o.claims = <<>>
  BY DEF Response

(* Steps of the authorization endpoint and of the application.             *)
LEMMA AuthorizationStep ==
    ASSUME Inductive,
           \/ \E path \in To("authorization"), p \in AuthParams :
                ErrorPage(path, p) \/ ErrorRedirect(path, p) \/ Authorize(path, p)
           \/ \E p \in AuthParams : ParseAuthorizationRequest(p)
           \/ Save
           \/ SaveFails
           \/ \E a \in Approvals : Approve(a)
           \/ Deny
    PROVE  Inductive'
  <1>0. reg \in Registrations \union {None}
    BY DEF Inductive, StateOK
  <1>1. ASSUME NEW path \in Paths, At(path) = "authorization", NEW p \in AuthParams,
               ErrorPage(path, p)
        PROVE  Inductive'
    <2>1. UNCHANGED <<cfg, reg, pending, code, access, refresh>>
      BY <1>1 DEF ErrorPage
    <2>2. out' = Response("authorization", path, "page")
      BY <1>1 DEF ErrorPage
    <2>3. /\ out'.at = "authorization" /\ out'.path = path
          /\ out'.kind = "page" /\ out'.claims = <<>>
      BY <2>2, ResponseFields
    <2>4. OutOK'
      BY <1>1, <2>1, <2>3, PlainOut
    <2>5. StateOK'
      BY <2>1 DEF Inductive, StateOK
    <2> QED BY <2>4, <2>5 DEF Inductive
  <1>2. ASSUME NEW path \in Paths, At(path) = "authorization", NEW p \in AuthParams,
               ErrorRedirect(path, p)
        PROVE  Inductive'
    <2>1. UNCHANGED <<cfg, reg, pending, code, access, refresh>>
      BY <1>2 DEF ErrorRedirect
    <2>2. PICK t : t = authorizationTarget(p)
      OBVIOUS
    <2>3. t # None /\ out' = Redirect("authorization", path, "redirect", t)
      BY <1>2, <2>2 DEF ErrorRedirect
    <2>4. /\ out'.at = "authorization" /\ out'.path = path /\ out'.to = t.uri
          /\ out'.mode = t.mode /\ out'.kind = "redirect" /\ out'.claims = <<>>
      BY <2>3 DEF Redirect, Response
    <2>5. reg \in Registrations /\ usable(reg) /\ Deliverable(reg, t.uri, t.mode)
      BY <1>0, <2>2, <2>3, TargetOK
    <2>6. OutOK'
      BY <1>2, <2>1, <2>4, <2>5, RedirectOut DEF usable
    <2>7. StateOK'
      BY <2>1 DEF Inductive, StateOK
    <2> QED BY <2>6, <2>7 DEF Inductive
  <1>7. ASSUME NEW p \in AuthParams, NEW t, t = authorizationTarget(p), t # None, parseable(p, t)
        PROVE  /\ reg \in Registrations /\ usable(reg) /\ Deliverable(reg, t.uri, t.mode)
               /\ RequestOK(parsed(p, t)) /\ parsed(p, t).stage = "parsed"
               /\ parsed(p, t).uri = t.uri /\ parsed(p, t).mode = t.mode
    <2>1. /\ reg \in Registrations /\ usable(reg) /\ Deliverable(reg, t.uri, t.mode)
          /\ t.mode \in STRING \union {"query"}
      BY <1>0, <1>7, TargetOK
    <2>2. t.uri \in URI
      BY <2>1 DEF Deliverable
    <2> QED BY <1>7, <2>1, <2>2, ParsedOK
  <1>3. ASSUME NEW path \in Paths, At(path) = "authorization", NEW p \in AuthParams,
               Authorize(path, p)
        PROVE  Inductive'
    <2>1. UNCHANGED <<cfg, reg, code, access, refresh>> /\ out' = None
      BY <1>3 DEF Authorize, Idle
    <2>2. PICK t : t = authorizationTarget(p)
      OBVIOUS
    <2>3. PICK r : r = parsed(p, t)
      OBVIOUS
    <2>4. /\ t # None /\ parseable(p, t)
          /\ pending' = [r EXCEPT !.stage = "serving", !.path = path, !.parsedWith = reg]
      BY <1>3, <2>2, <2>3 DEF Authorize
    <2>5. /\ reg \in Registrations /\ usable(reg) /\ Deliverable(reg, t.uri, t.mode)
          /\ RequestOK(r) /\ r.uri = t.uri /\ r.mode = t.mode
      BY <1>7, <2>2, <2>3, <2>4
    <2>6. /\ RequestOK(pending') /\ pending'.path = path /\ pending'.parsedWith = reg
          /\ pending'.uri = t.uri /\ pending'.mode = t.mode
      <3>1. PICK s : s = pending'
        OBVIOUS
      <3>2. s = [r EXCEPT !.stage = "serving", !.path = path, !.parsedWith = reg]
        BY <2>4, <3>1
      <3>3. /\ RequestOK(s) /\ s.path = path /\ s.parsedWith = reg
            /\ s.uri = r.uri /\ s.mode = r.mode
        <4>1. r \in Request
          BY <2>5 DEF RequestOK
        <4>2. s \in Request
          BY <2>5, <3>2, <4>1 DEF Request
        <4>3. /\ s.path = path /\ s.parsedWith = reg /\ s.uri = r.uri /\ s.mode = r.mode
              /\ s.claims = r.claims /\ s.asked = r.asked /\ s.subject = r.subject
          BY <3>2, <4>1 DEF Request
        <4> QED BY <2>5, <4>2, <4>3, StagedOK
      <3> QED BY <2>5, <3>1, <3>3
    <2>7. ServedOK(cfg', pending')
      BY <1>3, <2>1, <2>5, <2>6 DEF ServedOK, usable, At, PAR
    <2>8. OutOK'
      BY <2>1, NoOut
    <2>9. StateOK'
      BY <2>1, <2>6, <2>7 DEF Inductive, StateOK
    <2> QED BY <2>8, <2>9 DEF Inductive
  <1>8. ASSUME NEW p \in AuthParams, ParseAuthorizationRequest(p)
        PROVE  Inductive'
    <2>1. UNCHANGED <<cfg, reg, code, access, refresh>> /\ out' = None
      BY <1>8 DEF ParseAuthorizationRequest, Idle
    <2>2. PICK t : t = authorizationTarget(p)
      OBVIOUS
    <2>3. t # None /\ parseable(p, t) /\ pending' = parsed(p, t)
      BY <1>8, <2>2 DEF ParseAuthorizationRequest
    <2>4. RequestOK(pending') /\ pending'.stage = "parsed"
      BY <1>7, <2>2, <2>3
    <2>5. OutOK'
      BY <2>1, NoOut
    <2>6. StateOK'
      BY <2>1, <2>4 DEF Inductive, StateOK
    <2> QED BY <2>5, <2>6 DEF Inductive
  <1>4. CASE Save
    <2>1. UNCHANGED <<cfg, reg, code, access, refresh>>
      BY <1>4 DEF Save
    <2>2. PICK p, r : p = pending /\ r = Current(p)
      OBVIOUS
    <2>3. /\ p # None
          /\ pending' = [r EXCEPT !.stage = "saved", !.path = <<>>, !.parsedWith = None]
          /\ out' = IF Serving THEN Response("authorization", p.path, "interact") ELSE None
      BY <1>4, <2>2 DEF Save
    <2>4. RequestOK(r)
      BY <2>2, <2>3, CurrentOK DEF Inductive, StateOK
    <2>5. RequestOK(pending') /\ pending'.stage = "saved"
      <3>1. PICK s : s = pending'
        OBVIOUS
      <3>2. s = [r EXCEPT !.stage = "saved", !.path = <<>>, !.parsedWith = None]
        BY <2>3, <3>1
      <3>3. RequestOK(s) /\ s.stage = "saved"
        <4>1. r \in Request
          BY <2>4 DEF RequestOK
        <4>2. s \in Request
          BY <3>2, <4>1 DEF Request
        <4>3. /\ s.stage = "saved"
              /\ s.claims = r.claims /\ s.asked = r.asked /\ s.subject = r.subject
          BY <3>2, <4>1 DEF Request
        <4> QED BY <2>4, <4>2, <4>3, StagedOK
      <3> QED BY <3>1, <3>3
    <2>6. OutOK'
      <3>1. CASE Serving
        <4>1. p.path \in Paths /\ At(p.path) = "authorization"
          BY <2>2, <3>1 DEF Inductive, StateOK, Serving, ServedOK, At, PAR
        <4>2. /\ out'.at = "authorization" /\ out'.path = p.path
              /\ out'.kind = "interact" /\ out'.claims = <<>>
          BY <2>3, <3>1, ResponseFields
        <4> QED BY <2>1, <4>1, <4>2, PlainOut
      <3>2. CASE ~Serving
        BY <2>3, <3>2, NoOut
      <3> QED BY <3>1, <3>2
    <2>7. StateOK'
      BY <2>1, <2>5 DEF Inductive, StateOK
    <2> QED BY <2>6, <2>7 DEF Inductive
  <1>9. CASE SaveFails
    <2>1. UNCHANGED <<cfg, reg, code, access, refresh>> /\ pending' = None
      BY <1>9 DEF SaveFails
    <2>2. PICK p : p = pending
      OBVIOUS
    <2>3. out' = [Redirect("authorization", p.path, "failed", p) EXCEPT !.parsedWith = p.parsedWith]
      BY <1>9, <2>2 DEF SaveFails
    <2>4. ServedOK(cfg, p)
      BY <1>9, <2>2 DEF SaveFails, Serving, Inductive, StateOK
    <2>5. /\ out'.at = "authorization" /\ out'.path = p.path /\ out'.to = p.uri
          /\ out'.mode = p.mode /\ out'.kind = "failed" /\ out'.claims = <<>>
          /\ out'.parsedWith = p.parsedWith
      BY <2>3 DEF Redirect, Response
    <2>6. /\ p.parsedWith \in Registrations /\ validateClient(p.parsedWith)
          /\ Deliverable(p.parsedWith, p.uri, p.mode)
          /\ p.path \in Paths /\ At(p.path) = "authorization"
      BY <2>4 DEF ServedOK, At, PAR
    <2>7. OutOK'
      BY <2>1, <2>5, <2>6, RedirectOut
    <2>8. StateOK'
      BY <2>1 DEF Inductive, StateOK
    <2> QED BY <2>7, <2>8 DEF Inductive
  <1>5. ASSUME NEW a \in Approvals, Approve(a)
        PROVE  Inductive'
    <2>1. UNCHANGED <<cfg, reg, access, refresh>> /\ pending' = None
      BY <1>5 DEF Approve
    <2>2. PICK p : p = pending
      OBVIOUS
    <2>3. PICK r : r = Current(p)
      OBVIOUS
    <2>4. /\ p # None /\ client(ClientID) = "ok" /\ checkRequest(p) /\ validateApproval(r, a)
          /\ code' = CodeOf(r, a)
          /\ out' = Redirect("approve", <<>>, "redirect", r)
      BY <1>5, <2>2, <2>3 DEF Approve, CodeOf
    <2>5. reg \in Registrations /\ usable(reg)
      BY <1>0, <2>4 DEF client
    <2>6. RequestOK(p)
      BY <2>2, <2>4 DEF Inductive, StateOK
    <2>7. GrantOK(cfg.scopeClaims, code')
      BY <2>3, <2>4, <2>5, <2>6, ApprovedOK
    <2>8. /\ out'.path = <<>> /\ out'.to = r.uri /\ out'.mode = r.mode
          /\ out'.kind = "redirect" /\ out'.claims = <<>>
      BY <2>4 DEF Redirect, Response
    <2>9. Deliverable(reg, r.uri, r.mode)
      <3>1. r.uri = p.uri /\ r.mode = p.mode
        BY <2>3, <2>6, CurrentOK
      <3>2. p.uri \in URI
        BY <2>6 DEF RequestOK, Request
      <3> QED BY <2>4, <3>1, <3>2 DEF Deliverable, checkRequest, checkDelivery
    <2>10. OutOK'
      BY <2>1, <2>5, <2>8, <2>9, RedirectOut DEF usable
    <2>11. StateOK'
      BY <2>1, <2>7 DEF Inductive, StateOK
    <2> QED BY <2>10, <2>11 DEF Inductive
  <1>6. CASE Deny
    <2>1. UNCHANGED <<cfg, reg, code, access, refresh>> /\ pending' = None
      BY <1>6 DEF Deny
    <2>2. PICK p : p = pending
      OBVIOUS
    <2>3. /\ p # None /\ client(ClientID) = "ok" /\ checkDelivery(p)
          /\ out' = Redirect("deny", <<>>, "redirect", p)
      BY <1>6, <2>2 DEF Deny
    <2>4. reg \in Registrations /\ usable(reg)
      BY <1>0, <2>3 DEF client
    <2>5. /\ out'.path = <<>> /\ out'.to = p.uri /\ out'.mode = p.mode
          /\ out'.kind = "redirect" /\ out'.claims = <<>>
      BY <2>3 DEF Redirect, Response
    <2>6. Deliverable(reg, p.uri, p.mode)
      <3>1. p.uri \in URI
        BY <2>2, <2>3 DEF Inductive, StateOK, RequestOK, Request
      <3> QED BY <2>3, <3>1 DEF Deliverable, checkDelivery
    <2>7. OutOK'
      BY <2>1, <2>4, <2>5, <2>6, RedirectOut DEF usable
    <2>8. StateOK'
      BY <2>1 DEF Inductive, StateOK
    <2> QED BY <2>7, <2>8 DEF Inductive
  <1> QED BY <1>1, <1>2, <1>3, <1>4, <1>5, <1>6, <1>8, <1>9 DEF To

(* Steps of the token endpoint.                                            *)
LEMMA TokenStep ==
    ASSUME Inductive, NEW path \in Paths, At(path) = "token", NEW q \in Credentials,
           \/ \E v \in BOOLEAN, scopes \in ScopeSets, extra \in ExtraClaims :
                ExchangeCode(path, q, v, scopes, extra)
           \/ \E scopes \in ScopeSets, extra \in ExtraClaims :
                ExchangeRefresh(path, q, scopes, extra)
           \/ \E scopes \in ScopeSets : ExchangeClientCredentials(path, q, scopes)
           \/ TokenRefuses(path, q)
    PROVE  Inductive'
  <1>0. StateOK
    BY DEF Inductive
  <1>1. ASSUME NEW v \in BOOLEAN, NEW scopes, NEW extra,
               ExchangeCode(path, q, v, scopes, extra)
        PROVE  Inductive'
    <2>1. UNCHANGED <<cfg, reg, pending>> /\ code' = None
      BY <1>1 DEF ExchangeCode
    <2>2. PICK t : t = code
      OBVIOUS
    <2>3. PICK at : at = [t EXCEPT !.scopes = scopes]
      OBVIOUS
    <2>4. /\ t # None /\ Authenticated(q) /\ verifyPKCE(t, v) /\ scopes \subseteq t.scopes
          /\ checkClientGrant(t)
          /\ access' = at
          /\ refresh' = IF withRefresh(t) THEN t ELSE None
          /\ out' = Tokens(path, q, v,
                           IF "openid" \in t.scopes THEN IDToken(at, extra) ELSE <<>>, at)
      BY <1>1, <2>2, <2>3 DEF ExchangeCode
    <2>5. GrantOK(cfg.scopeClaims, t)
      BY <1>0, <2>2, <2>4 DEF StateOK
    <2>6. GrantOK(cfg.scopeClaims, at)
      BY <2>3, <2>4, <2>5, NarrowedOK
    <2>7. /\ out'.path = path /\ out'.at = "token" /\ out'.q = q /\ out'.verifier = v
          /\ out'.kind = "tokens" /\ out'.of = at
          /\ out'.claims = IF "openid" \in t.scopes THEN IDToken(at, extra) ELSE <<>>
      BY <2>4 DEF Tokens, Response
    <2>8. out'.kind = "tokens" /\ out'.verifier = t.challenge
      BY <2>4, <2>7 DEF verifyPKCE
    <2>11. \/ out'.claims = <<>>
           \/ "openid" \in t.scopes /\ out'.claims = IDToken(out'.of, extra)
      BY <2>7
    <2>12. /\ out'.path = path /\ out'.at = At(path) /\ Authenticated(out'.q)
           /\ scopes \subseteq t.scopes /\ out'.of = [t EXCEPT !.scopes = scopes]
      BY <2>3, <2>4, <2>7
    <2>9. OutOK'
      BY <1>0, <2>1, <2>4, <2>5, <2>8, <2>11, <2>12, TokensOut
    <2>10. StateOK'
      BY <1>0, <2>1, <2>4, <2>5, <2>6 DEF StateOK
    <2> QED BY <2>9, <2>10 DEF Inductive
  <1>2. ASSUME NEW scopes, NEW extra, ExchangeRefresh(path, q, scopes, extra)
        PROVE  Inductive'
    <2>1. UNCHANGED <<cfg, reg, pending, code, refresh>>
      BY <1>2 DEF ExchangeRefresh
    <2>2. PICK t : t = refresh
      OBVIOUS
    <2>3. PICK at : at = [t EXCEPT !.scopes = scopes]
      OBVIOUS
    <2>4. /\ t # None /\ Authenticated(q) /\ scopes \subseteq t.scopes
          /\ checkClientGrant(t)
          /\ access' = at
          /\ out' = [Tokens(path, q, FALSE,
                            IF "openid" \in scopes THEN IDToken(at, extra) ELSE <<>>, at)
                     EXCEPT !.kind = "refreshed"]
      BY <1>2, <2>2, <2>3 DEF ExchangeRefresh
    <2>5. GrantOK(cfg.scopeClaims, t)
      BY <1>0, <2>2, <2>4 DEF StateOK
    <2>6. GrantOK(cfg.scopeClaims, at)
      BY <2>3, <2>4, <2>5, NarrowedOK
    <2>7. /\ out'.path = path /\ out'.at = "token" /\ out'.q = q
          /\ out'.kind = "refreshed" /\ out'.of = at
          /\ out'.claims = IF "openid" \in scopes THEN IDToken(at, extra) ELSE <<>>
      BY <2>4 DEF Tokens, Response
    <2>8. \/ out'.claims = <<>>
          \/ "openid" \in t.scopes /\ out'.claims = IDToken(at, extra)
      BY <2>4, <2>7
    <2>9. OutOK'
      BY <1>0, <2>1, <2>3, <2>4, <2>5, <2>7, <2>8, TokensOut
    <2>10. StateOK'
      BY <1>0, <2>1, <2>4, <2>6 DEF StateOK
    <2> QED BY <2>9, <2>10 DEF Inductive
  <1>3. ASSUME NEW scopes, ExchangeClientCredentials(path, q, scopes)
        PROVE  Inductive'
    <2>1. UNCHANGED <<cfg, reg, pending, code, refresh>>
      BY <1>3 DEF ExchangeClientCredentials
    <2>2. PICK t : t = access'
      OBVIOUS
    <2>3. /\ Authenticated(q) /\ ~isPublic(reg) /\ scopes \subseteq reg.scopes
          /\ t = [scopes |-> scopes, subject |-> "", acr |-> "", challenge |-> FALSE,
                  claims |-> NoClaims, asked |-> None, approved |-> {}, registered |-> reg]
          /\ out' = Tokens(path, q, FALSE, <<>>, t)
      BY <1>3, <2>2 DEF ExchangeClientCredentials
    <2>4. t.subject = "" /\ t.registered = reg /\ t.scopes \subseteq reg.scopes
      BY <2>3
    <2>5. /\ out'.path = path /\ out'.at = "token" /\ out'.q = q
          /\ out'.kind = "tokens" /\ out'.of = t /\ out'.claims = <<>>
      BY <2>3 DEF Tokens, Response
    <2>6. DOMAIN out'.claims = {}
      BY <2>5
    <2>7. PublicCodesAreProven'
      BY <2>3, <2>4, <2>5 DEF PublicCodesAreProven
    <2>8. ReleaseIsApproved'
      BY <2>1, <2>4, <2>5, <2>6 DEF ReleaseIsApproved
    <2>9. LoginIsAsAsked'
      BY <2>6 DEF LoginIsAsAsked
    <2>10. OutOK'
      BY <1>0, <2>1, <2>3, <2>5, <2>7, <2>8, <2>9, ClientOut
    <2>11. StateOK'
      BY <1>0, <2>1, <2>2, <2>4 DEF StateOK
    <2> QED BY <2>10, <2>11 DEF Inductive
  <1>4. CASE TokenRefuses(path, q)
    <2>1. UNCHANGED <<cfg, reg, pending, code, access, refresh>>
      BY <1>4 DEF TokenRefuses
    <2>2. out' = [Response("token", path, "error") EXCEPT !.q = q]
      BY <1>4 DEF TokenRefuses
    <2>3. /\ out'.path = path /\ out'.at = "token"
          /\ out'.kind = "error" /\ out'.claims = <<>>
      BY <2>2 DEF Response
    <2>4. OutOK'
      BY <2>1, <2>3, PlainOut
    <2>5. StateOK'
      BY <1>0, <2>1 DEF StateOK
    <2> QED BY <2>4, <2>5 DEF Inductive
  <1> QED BY <1>1, <1>2, <1>3, <1>4

(* Steps of the other endpoints, of the client store and of the user agent. *)
LEMMA OtherStep ==
    ASSUME Inductive,
           \/ Delivered
           \/ \E path \in To("userinfo") : UserInfo(path)
           \/ \E at \in {"introspection", "revocation", "par"} :
                \E path \in To(at), q \in Credentials : Before /\ CallEndpoint(at, path, q)
           \/ \E at \in {"discovery", "jwks", "none"} :
                \E path \in To(at) : Before /\ Document(at, path)
           \/ \E c \in Registrations \union {None} : SetClient(c)
    PROVE  Inductive'
  <1>0. StateOK
    BY DEF Inductive
  <1>1. CASE Delivered
    <2>1. UNCHANGED <<cfg, reg, pending, code, access, refresh>>
      BY <1>1 DEF Delivered
    <2>2. OutOK'
      BY <1>1, NoOut DEF Delivered
    <2>3. StateOK'
      BY <1>0, <2>1 DEF StateOK
    <2> QED BY <2>2, <2>3 DEF Inductive
  <1>2. ASSUME NEW path \in Paths, At(path) = "userinfo", UserInfo(path)
        PROVE  Inductive'
    <2>1. UNCHANGED <<cfg, reg, pending, code, access, refresh>>
      BY <1>2 DEF UserInfo
    <2>2. StateOK'
      BY <1>0, <2>1 DEF StateOK
    <2>3. PICK t : t = access
      OBVIOUS
    <2>4. CASE "openid" \in t.scopes /\ t.subject # ""
      <3> DEFINE sc == cfg.scopeClaims
      <3>1. t # None /\ out' = [Response("userinfo", path, "claims") EXCEPT
                                    !.claims = userInfo(sc, Held, t), !.of = t]
        BY <1>2, <2>3, <2>4 DEF UserInfo
      <3>2. /\ out'.path = path /\ out'.at = "userinfo" /\ out'.kind = "claims"
            /\ out'.of = t /\ out'.claims = userInfo(sc, Held, t)
        BY <3>1 DEF Response
      <3>3. ClaimsOK(sc, t)
        BY <1>0, <2>3, <2>4, <3>1 DEF StateOK, GrantOK
      <3>4. out'.path \in Paths /\ out'.at = At(out'.path) /\ out'.kind \in Kinds
        BY <1>2, <3>2 DEF Kinds
      <3>5. (out # None => /\ out.kind \in Kinds
                           /\ out.path # <<>> => out.path \in Paths /\ out.at = At(out.path))'
        BY <2>1, <3>4 DEF At, PAR
      <3>6. CredentialsProveTheClient'
        BY <3>2 DEF CredentialsProveTheClient
      <3>7. AnswersStayRegistered'
        BY <3>2 DEF AnswersStayRegistered
      <3>8. PublicCodesAreProven'
        BY <3>2 DEF PublicCodesAreProven
      <3>9. LoginIsAsAsked'
        BY <3>2 DEF LoginIsAsAsked
      <3>10. ReleaseIsApproved'
        <4>1. ASSUME NEW n \in DOMAIN out'.claims
              PROVE  /\ n \in supportedClaims(sc)
                     /\ out'.claims[n] = "application" =>
                          /\ n \notin protocolClaims
                          /\ \/ n \in Mapped(sc, t.scopes)
                             \/ /\ n \in t.asked.claims.userinfo /\ n \in t.approved
                                /\ n \in Mapped(sc, t.registered.scopes)
          BY <3>2, <3>3, <4>1, UserInfoOK
        <4> QED BY <2>1, <3>2, <4>1 DEF ReleaseIsApproved, AskedFor
      <3>11. OutOK'
        BY <3>5, <3>6, <3>7, <3>8, <3>9, <3>10 DEF OutOK
      <3> QED BY <2>2, <3>11 DEF Inductive
    <2>5. CASE ~("openid" \in t.scopes /\ t.subject # "")
      <3>1. out' = Response("userinfo", path, "error")
        BY <1>2, <2>3, <2>5 DEF UserInfo
      <3>2. /\ out'.path = path /\ out'.at = "userinfo"
            /\ out'.kind = "error" /\ out'.claims = <<>>
        BY <3>1, ResponseFields
      <3>3. OutOK'
        BY <1>2, <2>1, <3>2, PlainOut
      <3> QED BY <2>2, <3>3 DEF Inductive
    <2> QED BY <2>4, <2>5
  <1>3. ASSUME NEW at \in {"introspection", "revocation", "par"}, NEW path \in Paths,
               At(path) = at, NEW q \in Credentials, CallEndpoint(at, path, q)
        PROVE  Inductive'
    <2>1. UNCHANGED <<cfg, reg, pending, code, access, refresh>>
      BY <1>3 DEF CallEndpoint
    <2>2. StateOK'
      BY <1>0, <2>1 DEF StateOK
    <2>3. CASE Authenticated(q) /\ (at = "introspection" => ~isPublic(reg))
      <3>1. out' = [Response(at, path, "served") EXCEPT !.q = q]
        BY <1>3, <2>3 DEF CallEndpoint
      <3>2. /\ out'.path = path /\ out'.at = at /\ out'.q = q
            /\ out'.kind = "served" /\ out'.claims = <<>>
        BY <3>1 DEF Response
      <3>3. DOMAIN out'.claims = {}
        BY <3>2
      <3>4. PublicCodesAreProven' /\ LoginIsAsAsked'
        BY <3>2 DEF PublicCodesAreProven, LoginIsAsAsked
      <3>5. ReleaseIsApproved'
        BY <3>2, <3>3 DEF ReleaseIsApproved
      <3>6. OutOK'
        BY <1>0, <1>3, <2>1, <2>3, <3>2, <3>4, <3>5, ClientOut
      <3> QED BY <2>2, <3>6 DEF Inductive
    <2>4. CASE ~(Authenticated(q) /\ (at = "introspection" => ~isPublic(reg)))
      <3>1. out' = [Response(at, path, "error") EXCEPT !.q = q]
        BY <1>3, <2>4 DEF CallEndpoint
      <3>2. /\ out'.path = path /\ out'.at = at
            /\ out'.kind = "error" /\ out'.claims = <<>>
        BY <3>1 DEF Response
      <3>3. OutOK'
        BY <1>3, <2>1, <3>2, PlainOut
      <3> QED BY <2>2, <3>3 DEF Inductive
    <2> QED BY <2>3, <2>4
  <1>4. ASSUME NEW at, NEW path \in Paths, At(path) = at, Document(at, path)
        PROVE  Inductive'
    <2>1. UNCHANGED <<cfg, reg, pending, code, access, refresh>>
      BY <1>4 DEF Document
    <2>2. out' = Response(at, path, "document")
      BY <1>4 DEF Document
    <2>3. /\ out'.path = path /\ out'.at = at
          /\ out'.kind = "document" /\ out'.claims = <<>>
      BY <2>2, ResponseFields
    <2>4. OutOK'
      BY <1>4, <2>1, <2>3, PlainOut
    <2>5. StateOK'
      BY <1>0, <2>1 DEF StateOK
    <2> QED BY <2>4, <2>5 DEF Inductive
  <1>5. ASSUME NEW c \in Registrations \union {None}, SetClient(c)
        PROVE  Inductive'
    <2>1. UNCHANGED <<cfg, pending, code, access, refresh, out>> /\ reg' = c /\ out = None
      BY <1>5 DEF SetClient, Idle
    <2>2. OutOK'
      BY <2>1, NoOut
    <2>3. StateOK'
      BY <1>0, <2>1 DEF StateOK
    <2> QED BY <2>2, <2>3 DEF Inductive
  <1> QED BY <1>1, <1>2, <1>3, <1>4, <1>5 DEF To

(* Every step of the provider keeps the invariant.                         *)
LEMMA StepInductive == Inductive /\ [Next]_vars => Inductive'
  <1> SUFFICES ASSUME Inductive, [Next]_vars PROVE Inductive'
    OBVIOUS
  <1>1. CASE UNCHANGED vars
    <2>1. UNCHANGED <<cfg, reg, pending, code, access, refresh, out>>
      BY <1>1 DEF vars
    <2>2. StateOK'
      BY <2>1 DEF Inductive, StateOK
    <2>3. OutOK'
      <3>1. (out # None => /\ out.kind \in Kinds
                           /\ out.path # <<>> => out.path \in Paths /\ out.at = At(out.path))'
        BY <2>1 DEF Inductive, OutOK, At, PAR
      <3>2. CredentialsProveTheClient'
        BY <2>1 DEF Inductive, OutOK, CredentialsProveTheClient
      <3>3. AnswersStayRegistered'
        BY <2>1 DEF Inductive, OutOK, AnswersStayRegistered
      <3>4. PublicCodesAreProven'
        BY <2>1 DEF Inductive, OutOK, PublicCodesAreProven
      <3>5. ReleaseIsApproved'
        BY <2>1 DEF Inductive, OutOK, ReleaseIsApproved, AskedFor
      <3>6. LoginIsAsAsked'
        BY <2>1 DEF Inductive, OutOK, LoginIsAsAsked
      <3> QED BY <3>1, <3>2, <3>3, <3>4, <3>5, <3>6 DEF OutOK
    <2> QED BY <2>2, <2>3 DEF Inductive
  <1>2. CASE \/ \E path \in To("authorization"), p \in AuthParams :
                    ErrorPage(path, p) \/ ErrorRedirect(path, p) \/ Authorize(path, p)
             \/ \E p \in AuthParams : ParseAuthorizationRequest(p)
             \/ Save
             \/ SaveFails
             \/ \E a \in Approvals : Approve(a)
             \/ Deny
    BY <1>2, AuthorizationStep
  <1>3. CASE \E path \in To("token"), q \in Credentials :
                \/ \E v \in BOOLEAN, scopes \in ScopeSets, extra \in ExtraClaims :
                    ExchangeCode(path, q, v, scopes, extra)
                \/ \E scopes \in ScopeSets, extra \in ExtraClaims :
                    ExchangeRefresh(path, q, scopes, extra)
                \/ \E scopes \in ScopeSets : ExchangeClientCredentials(path, q, scopes)
                \/ TokenRefuses(path, q)
    BY <1>3, TokenStep DEF To
  <1>4. CASE \/ Delivered
             \/ \E path \in To("userinfo") : UserInfo(path)
             \/ \E at \in {"introspection", "revocation", "par"} :
                  \E path \in To(at), q \in Credentials : Before /\ CallEndpoint(at, path, q)
             \/ \E at \in {"discovery", "jwks", "none"} :
                  \E path \in To(at) : Before /\ Document(at, path)
             \/ \E c \in Registrations \union {None} : SetClient(c)
    BY <1>4, OtherStep
  <1> QED BY <1>1, <1>2, <1>3, <1>4 DEF Next

----------------------------------------------------------------------------
(* Theorems.                                                               *)

(* The invariant of the provider: what it keeps between requests and what  *)
(* its last response says, whichever requests are made and however the     *)
(* registration changes in between.                                        *)
THEOREM InductiveInvariant == Spec => []Inductive
  BY InitInductive, StepInductive, PTL DEF Spec

(* The configuration stays one that New accepts, and codes and refresh     *)
(* tokens have scopes that their client was registered for.                *)
THEOREM TypeCorrect == Spec => []TypeOK
  <1>1. Inductive => TypeOK
    <2> SUFFICES ASSUME Inductive PROVE TypeOK
      OBVIOUS
    <2>1. New(cfg) /\ reg \in Registrations \union {None}
      BY DEF Inductive, StateOK, ConfigOK
    <2>2. pending # None => pending.asked \in AuthParams
      BY DEF Inductive, StateOK, RequestOK, Request
    <2>3. ASSUME NEW t \in {code, refresh} \ {None}
          PROVE  /\ t.asked \in AuthParams
                 /\ t.registered \in Registrations
                 /\ t.scopes \subseteq t.registered.scopes
      <3>1. t # None /\ (t = code \/ t = refresh)
        OBVIOUS
      <3>2. StateOK
        BY DEF Inductive
      <3>3. CASE t = code
        BY <3>1, <3>2, <3>3 DEF StateOK, GrantOK, Grant
      <3>4. CASE t = refresh
        BY <3>1, <3>2, <3>4 DEF StateOK, GrantOK, Grant
      <3> QED BY <3>1, <3>3, <3>4
    <2>4. out # None => out.kind \in Kinds
      BY DEF Inductive, OutOK
    <2> QED BY <2>1, <2>2, <2>3, <2>4 DEF TypeOK
  <1> QED BY <1>1, InductiveInvariant, PTL

(* Whatever the endpoints and the path of the issuer are, as long as New   *)
(* accepts them, route and discovery agree on every path.                  *)
THEOREM RoutingIsDiscovery == Spec => []RequestsReachTheirEndpoint
  <1>1. Inductive => RequestsReachTheirEndpoint
    <2> SUFFICES ASSUME Inductive, out # None, out.path # <<>>
                 PROVE  LET urls == Published(cfg.endpoints, PAR, cfg.base)
                            metadata == ServerMetadata \o cfg.base
                        IN  /\ \A n \in Names :
                                out.at = n <=> /\ n \in DOMAIN urls /\ urls[n] = out.path
                                               /\ out.path # metadata
                            /\ out.at = "discovery" <=>
                                out.path \in {cfg.base \o OpenIDConfiguration, metadata}
                            /\ (\E n \in DOMAIN urls : urls[n] = metadata) =>
                                cfg.base # <<>> /\ cfg.base[1] = "/.well-known"
      BY DEF RequestsReachTheirEndpoint
    <2>1. PICK e, base, par, path : e = cfg.endpoints /\ base = cfg.base /\ par = PAR /\ path = out.path
      OBVIOUS
    <2>2. /\ e \in [Names -> Seq(Pieces)] /\ base \in Seq(Pieces)
          /\ validate(e, par)
      BY <2>1 DEF Inductive, StateOK, ConfigOK, PAR
    <2>3. path \in Seq(Pieces)
      <3>1. STRING \subseteq Pieces
        BY DEF Pieces
      <3>2. path \in Seq(STRING)
        BY <2>1, RequestsAssumption DEF Inductive, OutOK
      <3> QED BY <3>1, <3>2, SeqMonotonic
    <2>4. out.at = route(e, par, base, path)
      BY <2>1 DEF Inductive, OutOK, At
    <2>5. /\ \A n \in Names : out.at = n <=> /\ n \in Served(par) /\ base \o e[n] = path
                                           /\ path # ServerMetadata \o base
          /\ out.at = "discovery" <=>
                path \in {base \o OpenIDConfiguration, ServerMetadata \o base}
      <3>1. /\ \A n \in Names : route(e, par, base, path) = n <=>
                    /\ n \in Served(par) /\ base \o e[n] = path
                    /\ path # ServerMetadata \o base
            /\ route(e, par, base, path) = "discovery" <=>
                    path \in {base \o OpenIDConfiguration, ServerMetadata \o base}
        <4>1. AsPublished(e, par, base, path)
          BY <2>2, <2>3, RouteIsPublished
        <4> QED BY <4>1 DEF AsPublished
      <3> QED BY <2>4, <3>1, Zenon
    <2>6. \A n \in Served(par) : base \o e[n] = ServerMetadata \o base =>
            base # <<>> /\ base[1] = "/.well-known"
      BY <2>2, MetadataIsFree
    <2> QED BY <2>1, <2>5, <2>6 DEF Published
  <1> QED BY <1>1, InductiveInvariant, PTL

(* Nobody passes client authentication with less or other than the one     *)
(* credential of the client's registration, whatever is combined.          *)
THEOREM CredentialsAreProof == Spec => []CredentialsProveTheClient
  <1>1. Inductive => CredentialsProveTheClient
    BY DEF Inductive, OutOK
  <1> QED BY <1>1, InductiveInvariant, PTL

(* No code, refusal or form leaves for a URI that is not registered when   *)
(* it is sent, and no error of serveAuthorization for one that was not     *)
(* registered when its request was parsed.                                 *)
THEOREM AnswersAreRegistered == Spec => []AnswersStayRegistered
  <1>1. Inductive => AnswersStayRegistered
    BY DEF Inductive, OutOK
  <1> QED BY <1>1, InductiveInvariant, PTL

(* A public client's code is worth nothing without its verifier, also when *)
(* the client becomes public after it asked.                               *)
THEOREM PublicClientsUsePKCE == Spec => []PublicCodesAreProven
  <1>1. Inductive => PublicCodesAreProven
    BY DEF Inductive, OutOK
  <1> QED BY <1>1, InductiveInvariant, PTL

(* No claim is released that was not asked for and approved, whatever the  *)
(* configuration maps scopes to and the application returns.               *)
THEOREM ClaimsAreApproved == Spec => []ReleaseIsApproved
  <1>1. Inductive => ReleaseIsApproved
    BY DEF Inductive, OutOK
  <1> QED BY <1>1, InductiveInvariant, PTL

(* The requested end-user and essential acr survive every reduction of the *)
(* claims request up to the ID token.                                      *)
THEOREM LoginsAreAsAsked == Spec => []LoginIsAsAsked
  <1>1. Inductive => LoginIsAsAsked
    BY DEF Inductive, OutOK
  <1> QED BY <1>1, InductiveInvariant, PTL
=================================================================================
