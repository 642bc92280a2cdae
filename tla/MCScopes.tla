------------------------------ MODULE MCScopes ------------------------------
(* Instances of Scopes.tla for TLC. *)
EXTENDS ScopesInv, TLC

Symmetry == Permutations(Name \ SuperNames)

Locals(f) == Len(compilers[f].locals)

\* Two functions fill one of their arrays of locals; of three, either none has
\* two locals besides slot 0, or the outer two have what overflows the upvalues
\* of the inner. A program is followed past an error in the script only.
Bound ==
  /\ hadError => Top = 1
  /\ Top = 2 => Locals(1) + Locals(2) <= 5
  /\ Top = 3 => /\ compilers[2].scopeDepth = 1 /\ compilers[3].scopeDepth = 1
                /\ \/ \A f \in 1..3 : Locals(f) <= 2
                   \/ Locals(1) + Locals(2) <= 5 /\ Locals(3) = 1
=============================================================================
