-------------------------- MODULE AuthorizationLife --------------------------
(***************************************************************************)
(* Authorization implements RequestLife.  A request whose ID was handed    *)
(* out is open while the store has it; who completes it, what the checks   *)
(* say and which calls fail is hidden.                                     *)
(***************************************************************************)
EXTENDS Authorization

placeBar == [v \in IDs |-> IF v \notin disclosed THEN "unknown"
                           ELSE IF Has(v) THEN "open" ELSE "taken"]

Life == INSTANCE RequestLife WITH place <- placeBar, answers <- answered

(***************************************************************************)
(* However Approve, Deny and redeemPushedRequest interleave, fail or crash,*)
(* a request that was completed, redeemed or dropped is never open again,  *)
(* and one response answers it and the pushed request it came from.        *)
(***************************************************************************)
ImplementsRequestLife == Life!Spec
==============================================================================
