---------------------------- MODULE MCIdempotency ----------------------------
(* Instances of Idempotency for TLC.                                       *)
EXTENDS Idempotency, TLC

Symmetry == Permutations(Callers) \cup Permutations(Keys)
               \cup Permutations(Endpoints) \cup Permutations(Bodies)
               \cup Permutations(Handlers)
==============================================================================
