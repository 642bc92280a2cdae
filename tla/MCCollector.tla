---------------------------- MODULE MCCollector ----------------------------
(* Instances of Collector.tla for TLC: small heaps of model values. *)
EXTENDS Collector, TLC

CONSTANTS o1, o2, o3

MCObj == {o1, o2, o3}

\* Closures that capture one another through upvalues; the compiler keeps its functions.
ClosureKinds == {"function", "closure", "upvalue"}

\* Classes, their instances, and strings as names.
ClassKinds == {"string", "class", "instance"}

MCKinds == ClosureKinds \cup ClassKinds
MCRoots == {"stack", "openUpvalues", "globals"}
StringRoots == {"stack"}

\* A heap holds one family of kinds at a time; those of closures stay out of the globals.
InUse == {kind[o] : o \in allocated} \cup (IF request.op = "none" THEN {} ELSE {request.kind})
OneFamily == /\ InUse \subseteq ClosureKinds \/ InUse \subseteq ClassKinds
             /\ \A r \in roots : r[1] = "globals" => kind[r[2]] \in ClassKinds

\* As many roots as there are objects, whichever they are of.
FewRoots == Cardinality(roots) <= 3

\* Addresses differ in nothing, so the lowest one that is free will do.
Lower == (o1 :> {}) @@ (o2 :> {o1}) @@ (o3 :> {o1, o2})
LowestFirst == \A o \in Obj : kind[o] = "free" /\ kind'[o] # "free" => Lower[o] \subseteq allocated
=============================================================================
