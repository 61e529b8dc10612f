----------------------------- MODULE MCKnockFlow -----------------------------
(* Values of the constants of KnockFlow for TLC. *)
EXTENDS KnockFlow, TLC

HandlerSymmetry == Permutations(Handlers)
=============================================================================
