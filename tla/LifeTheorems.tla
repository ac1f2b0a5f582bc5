---------------------------- MODULE LifeTheorems ----------------------------
(***************************************************************************)
(* What the two abstract specifications promise.  The refinement theorems  *)
(* GrantLifeRefined and RequestLifeRefined say that the handlers implement *)
(* GrantLife and RequestLife; the theorems below say what a reader may     *)
(* conclude from that without looking at a handler.                        *)
(***************************************************************************)
EXTENDS Integers, TLAPS

CONSTANTS Values, Grants, Secret, Gone, IDs

VARIABLES held, used, ended, place, answers

Grant == INSTANCE GrantLife
Request == INSTANCE RequestLife

-----------------------------------------------------------------------------
(* Revocation is complete and final: no value is valid in a grant that     *)
(* ended, neither one that was valid before nor one issued since.          *)
(* (RevokeGrant, and the exchanges of token.go that race with it.)         *)
EndedGrantsAreEmpty == \A v \in Values : held[v] \notin ended

(* A value that is gone never comes back, a value never changes its grant, *)
(* a used code or refresh token stays used and an ended grant ended.       *)
NothingComesBack ==
    /\ \A v \in Values : held[v] # Secret => held'[v] \in {held[v], Gone}
    /\ used \subseteq used'
    /\ ended \subseteq ended'

GrantStates == Grant!LifeOK /\ EndedGrantsAreEmpty

(* A step of the abstract grant keeps its types and the ended grants empty. *)
LEMMA GrantStep ==
    ASSUME Secret \notin Grants, Gone \notin Grants,
           GrantStates, [Grant!Next]_(Grant!life)
    PROVE  GrantStates' /\ (NothingComesBack \/ UNCHANGED Grant!life)
<1> USE DEF GrantStates, Grant!LifeOK, EndedGrantsAreEmpty, NothingComesBack
<1>1. CASE UNCHANGED Grant!life  BY <1>1 DEF Grant!life
<1>2. CASE Grant!Drop  BY <1>2 DEF Grant!Drop
<1>3. ASSUME NEW g \in Grants, Grant!Start(g)
      PROVE  GrantStates' /\ NothingComesBack
  BY <1>3 DEF Grant!Start, Grant!Disclose
<1>4. ASSUME NEW g \in Grants, Grant!End(g)
      PROVE  GrantStates' /\ NothingComesBack
  BY <1>4 DEF Grant!End
<1>5. ASSUME NEW v \in Values, NEW g \in Grants, Grant!Exchange(v, g)
      PROVE  GrantStates' /\ NothingComesBack
  BY <1>5 DEF Grant!Exchange, Grant!Disclose
<1> QED  BY <1>1, <1>2, <1>3, <1>4, <1>5 DEF Grant!Next

(* Both facts hold of the first state and of every state after it.         *)
LEMMA GrantStatesHold ==
    ASSUME Secret \notin Grants, Gone \notin Grants
    PROVE  Grant!Spec => []GrantStates
<1>1. Grant!Init => GrantStates
  BY DEF Grant!Init, GrantStates, Grant!LifeOK, EndedGrantsAreEmpty
<1>2. GrantStates /\ [Grant!Next]_(Grant!life) => GrantStates'
  BY GrantStep
<1> QED  BY <1>1, <1>2, PTL DEF Grant!Spec

(* Whatever implements GrantLife revokes completely: for any values and    *)
(* grants, no value is valid in an ended grant (RevokeGrant).              *)
THEOREM RevocationIsComplete ==
    ASSUME Secret \notin Grants, Gone \notin Grants
    PROVE  Grant!Spec => []EndedGrantsAreEmpty
<1>1. GrantStates => EndedGrantsAreEmpty  BY DEF GrantStates
<1> QED  BY <1>1, GrantStatesHold, PTL

(* Whatever implements GrantLife never revives a token and never moves it  *)
(* to another grant (ConsumeToken, RevokeToken, RevokeGrant).              *)
THEOREM TokensDoNotReturn ==
    ASSUME Secret \notin Grants, Gone \notin Grants
    PROVE  Grant!Spec => [][NothingComesBack]_(Grant!life)
<1>1. GrantStates /\ [Grant!Next]_(Grant!life) => [NothingComesBack]_(Grant!life)
  BY GrantStep
<1> QED  BY <1>1, GrantStatesHold, PTL DEF Grant!Spec

-----------------------------------------------------------------------------
(* A request gets at most one response, and none while it can still be     *)
(* redeemed or completed (Approve, Deny, errors of HandleAuthorize).       *)
AnsweredOnceWhenTaken ==
    \A v \in IDs : answers[v] = 0 \/ (answers[v] = 1 /\ place[v] = "taken")

(* A request that was taken is never open again, and an answer is never    *)
(* taken back or repeated.                                                 *)
NothingReopens ==
    \A v \in IDs :
        /\ place[v] = "taken" => place'[v] = "taken"
        /\ answers[v] = 1 => answers'[v] = 1

RequestStates ==
    /\ place \in [IDs -> {"unknown", "open", "taken"}]
    /\ answers \in [IDs -> {0, 1}]
    /\ AnsweredOnceWhenTaken

(* A step of the abstract request keeps its types, answers a request once  *)
(* and only when it takes it, and reopens nothing.                         *)
LEMMA RequestStep ==
    ASSUME RequestStates, [Request!Next]_(Request!life)
    PROVE  RequestStates' /\ NothingReopens
<1> USE DEF RequestStates, AnsweredOnceWhenTaken, NothingReopens,
            Request!Leave, Request!Leaving
<1>1. CASE UNCHANGED Request!life  BY <1>1 DEF Request!life
<1>2. CASE Request!Take  BY <1>2 DEF Request!Take
<1>3. ASSUME NEW v \in IDs, Request!Open(v)  PROVE RequestStates' /\ NothingReopens
  <2>1. \A x \in IDs : place[x] = "taken" => place'[x] = "taken"
    BY <1>3 DEF Request!Open
  <2> QED  BY <1>3, <2>1 DEF Request!Open
<1>4. ASSUME NEW v \in IDs, NEW w \in IDs, Request!Answer(v, w)
      PROVE  RequestStates' /\ NothingReopens
  <2>1. \A x \in IDs : place[x] = "taken" => place'[x] = "taken"
    BY <1>4 DEF Request!Answer
  <2> QED  BY <1>4, <2>1 DEF Request!Answer
<1> QED  BY <1>1, <1>2, <1>3, <1>4 DEF Request!Next

(* These facts hold of the first state and of every state after it.        *)
LEMMA RequestStatesHold == Request!Spec => []RequestStates
<1>1. Request!Init => RequestStates
  BY DEF Request!Init, RequestStates, AnsweredOnceWhenTaken
<1>2. RequestStates /\ [Request!Next]_(Request!life) => RequestStates'
  BY RequestStep
<1> QED  BY <1>1, <1>2, PTL DEF Request!Spec

(* Whatever implements RequestLife answers each request at most once, and  *)
(* never one that can still be completed (Approve, Deny).                  *)
THEOREM OneAnswerWhenTaken == Request!Spec => []AnsweredOnceWhenTaken
<1>1. RequestStates => AnsweredOnceWhenTaken  BY DEF RequestStates
<1> QED  BY <1>1, RequestStatesHold, PTL

(* Whatever implements RequestLife never reopens a request                 *)
(* (completeRequest, redeemPushedRequest).                                 *)
THEOREM RequestsDoNotReopen == Request!Spec => [][NothingReopens]_(Request!life)
<1>1. RequestStates /\ [Request!Next]_(Request!life) => [NothingReopens]_(Request!life)
  BY RequestStep
<1> QED  BY <1>1, RequestStatesHold, PTL DEF Request!Spec
=============================================================================
