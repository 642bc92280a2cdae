-------------------------------- MODULE Heap --------------------------------
(***************************************************************************)
(* What clox's memory manager promises the rest of the interpreter, with   *)
(* no marks, no lists and no phases: "heap" is the set of blocks that are  *)
(* allocated, "reach" the set of objects the running program can get to.   *)
(* A collection takes away everything out of reach and nothing else, in    *)
(* one step.  Collector.tla (clox/memory.c, clox/object.c) implements it.  *)
(***************************************************************************)

CONSTANT Obj            \* the addresses an object can have

VARIABLES heap, reach

vars == <<heap, reach>>

Init == heap = {} /\ reach = {}

\* A new object gets an address nothing else occupies.
New == \E o \in Obj \ heap : heap' = heap \cup {o} /\ reach' = reach \cup {o}

\* Storing and overwriting pointers never brings an object back into reach,
\* except one the intern table still remembers, which is then allocated.
Mutate == heap' = heap /\ reach' \subseteq heap

Collect == heap' = reach /\ reach' = reach

Shutdown == heap' = {} /\ reach' = {}

Next == New \/ Mutate \/ Collect \/ Shutdown

Spec == Init /\ [][Next]_vars
=============================================================================
