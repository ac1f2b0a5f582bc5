---------------------------- MODULE MCKeyRotation ----------------------------
(* Constants for model checking KeyRotation. *)
EXTENDS KeyRotation, TLC

(* Two RSA keys and a key of another algorithm. *)
MCAlg == [k \in Keys |-> IF k \in {"r1", "r2"} THEN "RS256" ELSE "ES256"]

MCSymmetry == Permutations(Procs)
==============================================================================
