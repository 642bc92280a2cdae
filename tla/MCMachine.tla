----------------------------- MODULE MCMachine -----------------------------
(* Instances of Machine.tla for TLC: a function, a class with a method and  *)
(* one that may inherit from it, override the method and have an            *)
(* initializer.                                                             *)
EXTENDS MachineInv

MCFunction == {"f", "a_get", "b_get", "b_init"}
MCArity == [f \in MCFunction |-> IF f = "b_get" THEN 0 ELSE 1]
MCMethodName == [f \in MCFunction |-> CASE f = "f" -> NONE [] f = "b_init" -> "init" [] OTHER -> "get"]
MCOwner == [f \in MCFunction |-> CASE f = "f" -> 0 [] f = "a_get" -> 1 [] OTHER -> 2]

\* Programs whose frames hold three values at most are followed: slot 0, an argument or a local,
\* and a temporary.
FewValues == \A k \in DOMAIN vm.frames : vm.frames[k].counted <= 3
=============================================================================
