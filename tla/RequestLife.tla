----------------------------- MODULE RequestLife -----------------------------
(***************************************************************************)
(* What the authorization endpoint of grantor promises about a pushed or   *)
(* saved authorization request, without handlers, checks or failures.  A   *)
(* request is open from the moment its ID is handed out until it is taken  *)
(* to be completed, or expires.  It is never open again, and it gets at    *)
(* most one response.                                                      *)
(*                                                                         *)
(* AuthorizationLife shows that the handlers of authorize.go, par.go and   *)
(* approve.go implement this specification.                                *)
(***************************************************************************)
EXTENDS Integers

CONSTANT IDs

VARIABLES
    place,    \* "unknown", "open" or "taken"
    answers   \* the responses sent about each request

life == <<place, answers>>

Init ==
    /\ place = [v \in IDs |-> "unknown"]
    /\ answers = [v \in IDs |-> 0]

(* Requests leave for good: redeemed, completed or expired. *)
Leaving(S) ==
    /\ place' \in [IDs -> {"unknown", "open", "taken"}]
    /\ \A v \in S : place'[v] # place[v] => place[v] = "open" /\ place'[v] = "taken"

Leave == Leaving(IDs)

(* SaveAuthorizationRequest or pushAuthorization hands out the ID; the     *)
(* store may drop expired requests on this occasion.                       *)
Open(v) ==
    /\ place[v] = "unknown" /\ place'[v] = "open"
    /\ Leaving(IDs \ {v})
    /\ UNCHANGED answers

Take == Leave /\ UNCHANGED answers

(* One response answers a saved request and the pushed request it came     *)
(* from, which was taken before.                                           *)
Answer(v, w) ==
    /\ answers[v] = 0 /\ answers[w] = 0
    /\ place[v] # "unknown" /\ place[w] # "unknown"
    /\ answers' = [answers EXCEPT ![v] = 1, ![w] = 1]
    /\ Leave
    /\ place'[v] = "taken" /\ place'[w] = "taken"

Next ==
    \/ Take
    \/ \E v \in IDs : Open(v)
    \/ \E v, w \in IDs : Answer(v, w)

Spec == Init /\ [][Next]_life
==============================================================================
