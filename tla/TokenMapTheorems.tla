--------------------------- MODULE TokenMapTheorems ---------------------------
(* What the Storage operations of TokenMap do to a map of tokens. *)
EXTENDS TokenMap, TLAPS

(* A step that only removes tokens or marks them as consumed. *)
Keeps(m, n) ==
    \A v \in Values :
        \/ n[v] = NotFound
        \/ /\ m[v] # NotFound
           /\ n[v].grant = m[v].grant
           /\ m[v].consumed => n[v].consumed

(* Doing nothing keeps every token. *)
LEMMA KeepsSame == ASSUME NEW m \in TokenMaps PROVE Keeps(m, m)
  BY DEF Keeps

(* collectLocked yields a map and keeps what it does not drop. *)
LEMMA CollectedKeeps ==
    ASSUME NEW m \in TokenMaps, NEW t \in Nat
    PROVE  Collected(m, t) \in TokenMaps /\ Keeps(m, Collected(m, t))
  BY DEF Collected, TokenMaps, Has, Keeps

(* CreateToken changes one key. *)
LEMMA WithTokenType ==
    ASSUME NEW m \in TokenMaps, NEW w \in Values, NEW t \in Token
    PROVE  /\ WithToken(m, w, t) \in TokenMaps
           /\ \A v \in Values :
                WithToken(m, w, t)[v] = IF v = w THEN t ELSE m[v]
  BY DEF WithToken, TokenMaps

(* ConsumeToken marks one token and keeps the others. *)
LEMMA WithConsumedKeeps ==
    ASSUME NEW m \in TokenMaps, NEW w \in Values, m[w] # NotFound
    PROVE  /\ WithConsumed(m, w) \in TokenMaps
           /\ Keeps(m, WithConsumed(m, w))
           /\ WithConsumed(m, w)[w].consumed
           /\ WithConsumed(m, w)[w] # NotFound
           /\ \A v \in Values \ {w} : WithConsumed(m, w)[v] = m[v]
<1>1. m[w] \in Token
  BY DEF TokenMaps
<1>2. [m[w] EXCEPT !.consumed = TRUE] \in Token
  BY <1>1 DEF Token
<1>3. WithConsumed(m, w) = [m EXCEPT ![w] = [m[w] EXCEPT !.consumed = TRUE]]
  BY DEF WithConsumed
<1>4. /\ [m[w] EXCEPT !.consumed = TRUE].grant = m[w].grant
      /\ [m[w] EXCEPT !.consumed = TRUE].consumed
  BY <1>1 DEF Token
<1> QED
  BY <1>1, <1>2, <1>3, <1>4, NotFoundAssumption DEF TokenMaps, Keeps

(* RevokeToken removes one token. *)
LEMMA WithoutTokenKeeps ==
    ASSUME NEW m \in TokenMaps, NEW w \in Values
    PROVE  WithoutToken(m, w) \in TokenMaps /\ Keeps(m, WithoutToken(m, w))
  BY DEF WithoutToken, TokenMaps, Keeps

(* RevokeGrant removes every token of the grant and keeps the others. *)
LEMMA WithoutGrantKeeps ==
    ASSUME NEW m \in TokenMaps, NEW g \in Grants
    PROVE  /\ WithoutGrant(m, g) \in TokenMaps
           /\ Keeps(m, WithoutGrant(m, g))
           /\ \A v \in Values : WithoutGrant(m, g)[v] # NotFound =>
                                    WithoutGrant(m, g)[v].grant # g
  BY DEF WithoutGrant, TokenMaps, Keeps, Has
==============================================================================
