----------------------------- MODULE MCUpvalues -----------------------------
(* Instances of Upvalues.tla for TLC. *)
EXTENDS UpvaluesInv, TLC

Symmetry == Permutations(Variable) \cup Permutations(Upvalue) \cup Permutations(Closure)
=============================================================================
