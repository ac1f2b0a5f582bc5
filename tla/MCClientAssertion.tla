-------------------------- MODULE MCClientAssertion --------------------------
(* Constants for model checking ClientAssertion. *)
EXTENDS ClientAssertion, TLC

Signed(sub, jti, exp) ==
    [iss |-> sub, sub |-> sub, aud |-> {"as"}, jti |-> jti, exp |-> exp, key |-> "k1"]

(* One jti in two assertions of a client and in one of another client, one *)
(* assertion that expires too far ahead, and ones made for two audiences,  *)
(* signed with another key or by another client.                           *)
MCAssertions ==
    {Signed("app", "j", 1), Signed("app", "j", 2), Signed("web", "j", 1),
     Signed("app", "j", 4),
     [Signed("app", "j", 1) EXCEPT !.aud = {"as", "bs"}],
     [Signed("app", "j", 1) EXCEPT !.key = "k2"],
     [Signed("app", "j", 1) EXCEPT !.iss = "web"]}

MCOne == {Signed("app", "j", 1)}

MCRegistered == {[method |-> "private_key_jwt", keys |-> {"k1"}]}

(* A client may lose its key and the method. *)
MCRegistrations ==
    MCRegistered \union {[method |-> "other", keys |-> {"k2"}]}

MCSymmetry == Permutations(Procs)
==============================================================================
