----------------------------- MODULE Collector -----------------------------
(***************************************************************************)
(* The mark-sweep collector of clox/memory.c over the objects of           *)
(* clox/object.h, with the allocation path of clox/object.c that triggers  *)
(* it and the mutator (the virtual machine and the compiler) reduced to    *)
(* what it does to pointers: it stores them, overwrites them, makes them   *)
(* roots, drops them, and asks for memory.                                 *)
(*                                                                         *)
(* Every allocation is two steps of the mutator with at most one           *)
(* collection between them, because reallocate() may collect before it     *)
(* returns: "request" holds what the allocating C function keeps in its    *)
(* locals meanwhile.  A collection runs to its end, one loop turn a step.  *)
(*                                                                         *)
(* Abstracted: every block and every growth of a buffer is one byte; the   *)
(* gray stack and the root tables are sets (their order decides nothing);  *)
(* the buffers of strings and closures are allocated with the object.      *)
(***************************************************************************)
EXTENDS Integers, FiniteSets, FiniteSetsExt

CONSTANTS
  Obj,         \* addresses malloc can return; bounds the heap
  NULL,
  Kinds,       \* the kinds of object the program allocates
  RootsInUse,  \* the root tables the program stores into
  LastSlot,    \* addresses of strings whose entry is the last of vm.strings
  ConvertsLeft,\* the program adds a string to a number or a boolean on its left
  FirstGC,     \* vm.nextGC as initVM sets it
  StressGC,    \* the build flag DEBUG_STRESS_GC
  MaxBytes     \* bounds vm.bytesAllocated

\* ObjType
AllKinds == {"bound", "class", "closure", "function", "instance", "native",
             "string", "upvalue"}

\* The kinds a Lox variable can hold: functions and upvalues never leave the VM.
Values == AllKinds \ {"function", "upvalue"}

\* The pointer fields of each struct of object.h; a table or an array is one field.
Fields == [bound    |-> {"receiver", "method"},
           class    |-> {"name", "methods"},
           closure  |-> {"function", "upvalues"},
           function |-> {"name", "constants"},
           instance |-> {"klass", "fields"},
           native   |-> {},
           string   |-> {},
           upvalue  |-> {"closed"}]

\* The kinds of object each field may point at.
Holds == [receiver  |-> {"instance"},
          method    |-> {"closure"},
          name      |-> {"string"},
          methods   |-> {"string", "closure"},
          function  |-> {"function"},
          upvalues  |-> {"upvalue"},
          constants |-> {"string", "function"},
          klass     |-> {"class"},
          fields    |-> Values,
          closed    |-> Values]

\* The fields a constructor of object.c fills from its arguments, for good.
Arguments == [k \in AllKinds |->
                CASE k = "bound"    -> {"receiver", "method"}
                  [] k = "class"    -> {"name"}
                  [] k = "closure"  -> {"function"}
                  [] k = "instance" -> {"klass"}
                  [] OTHER          -> {}]

\* The fields a later assignment replaces; the others are only added to.
Overwritten == {"methods", "fields", "closed"}

\* The root tables of markRoots and what they point at.
RootHolds == [stack        |-> AllKinds \ {"upvalue"},
              frames       |-> {"closure"},
              openUpvalues |-> {"upvalue"},
              globals      |-> Values,
              compiler     |-> {"function"},
              initString   |-> {"string"}]

\* Where its creator puts a new object before it allocates again.
FirstRoot == [k \in AllKinds |-> CASE k = "upvalue"  -> "openUpvalues"
                                   [] k = "function" -> "compiler"
                                   [] OTHER          -> "stack"]

\* The kinds whose table or array grows after they are made.
Growing == {"class", "instance", "function"}

FieldNames == DOMAIN Holds
RootNames  == DOMAIN RootHolds
Pointers   == FieldNames \X Obj

ASSUME CollectorAssumption ==
  /\ NULL \notin Obj
  /\ Kinds \subseteq AllKinds
  /\ RootsInUse \subseteq RootNames
  /\ LastSlot \subseteq Obj
  /\ {StressGC, ConvertsLeft} \subseteq BOOLEAN
  /\ FirstGC \in Nat /\ MaxBytes \in Nat

VARIABLES
  kind,            \* type of the object at an address, "free" if there is none
  refs,            \* the pointers stored in an object, by field
  buffer,          \* bytes of the table or array an object owns
  isMarked,
  next,            \* the list of all objects
  objects,         \* vm.objects, the head of that list
  roots,           \* the pointers stored in root tables, by table
  interns,         \* keys of vm.strings: weak pointers
  gray,            \* vm.grayStack
  pc,              \* "run", or the phase of an allocation or a collection
  object, previous,\* locals of sweep
  request,         \* locals of the function that allocates
  bytesAllocated, nextGC,
  leaked           \* bytes freeObject has lost track of

mutVars  == <<roots, refs, interns>>
listVars == <<next, objects, kind, buffer>>
gcVars   == <<isMarked, gray, object, previous>>
memVars  == <<bytesAllocated, nextGC, leaked>>
vars     == <<mutVars, listVars, gcVars, memVars, pc, request>>

allocated == {o \in Obj : kind[o] # "free"}

NoRequest == [op |-> "none", kind |-> "string", refs |-> {}, obj |-> NULL]

-----------------------------------------------------------------------------
(* What the program can get to *)

PointsAt(f, o) == {p[2] : p \in f[o]}
ClosedIn(S, f) == \A o \in S : PointsAt(f, o) \subseteq S

\* The least set that holds R and whatever its members point at.
ReachFrom(R, f) ==
  {o \in Obj : \A S \in SUBSET Obj : R \subseteq S /\ ClosedIn(S, f) => o \in S}

Children(o) == PointsAt(refs, o)
Closed(S)   == ClosedIn(S, refs)
Roots       == {r[2] : r \in roots}
Reachable   == ReachFrom(Roots, refs)

\* The objects from o on in the list of all objects.
ListFrom(o) ==
  {x \in Obj : \A S \in SUBSET Obj :
     (/\ o \in S \cup {NULL}
      /\ \A y \in S : next[y] \in S \cup {NULL}) => x \in S}

Init == /\ kind = [o \in Obj |-> "free"]
        /\ refs = [o \in Obj |-> {}]
        /\ buffer = [o \in Obj |-> 0]
        /\ isMarked = [o \in Obj |-> FALSE]
        /\ next = [o \in Obj |-> NULL]
        /\ objects = NULL /\ object = NULL /\ previous = NULL
        /\ roots = {} /\ interns = {} /\ gray = {}
        /\ pc = "run" /\ request = NoRequest
        /\ bytesAllocated = 0 /\ nextGC = FirstGC /\ leaked = 0

-----------------------------------------------------------------------------
(* The mutator *)

\* object o, of its field f and what f points at: assignments that only add
Store(o, f, t) ==
  /\ pc = "run"
  /\ f \in Fields[kind[o]] \ Arguments[kind[o]]
  /\ kind[t] \in Holds[f]
  /\ refs' = [refs EXCEPT ![o] = @ \cup {<<f, t>>}]
  /\ UNCHANGED <<roots, interns, listVars, gcVars, memVars, pc, request>>

\* Assignments that replace a pointer without adding another.
Erase(o, f, t) ==
  /\ pc = "run"
  /\ f \in Overwritten
  /\ <<f, t>> \in refs[o]
  /\ refs' = [refs EXCEPT ![o] = @ \ {<<f, t>>}]
  /\ UNCHANGED <<roots, interns, listVars, gcVars, memVars, pc, request>>

\* push, call, OP_DEFINE_GLOBAL, initCompiler: an object in reach becomes a root.
Root(r, t) ==
  /\ pc = "run"
  /\ kind[t] \in RootHolds[r]
  /\ roots' = roots \cup {<<r, t>>}
  /\ UNCHANGED <<refs, interns, listVars, gcVars, memVars, pc, request>>

\* pop, OP_RETURN, closeUpvalues, endCompiler, resetStack; initString stays.
Unroot(r, t) ==
  /\ pc = "run"
  /\ r # "initString"
  /\ <<r, t>> \in roots
  /\ roots' = roots \ {<<r, t>>}
  /\ UNCHANGED <<refs, interns, listVars, gcVars, memVars, pc, request>>

\* copyString and takeString answer with a string that vm.strings has already;
\* nothing else need point at it.
FindString(s) ==
  /\ pc = "run"
  /\ s \in interns
  /\ roots' = roots \cup {<<"stack", s>>}
  /\ UNCHANGED <<refs, interns, listVars, gcVars, memVars, pc, request>>

-----------------------------------------------------------------------------
(* Allocation *)

\* The half of reallocate before the block is there.
Request(req) ==
  /\ pc = "run"
  /\ bytesAllocated < MaxBytes
  /\ request' = req
  /\ bytesAllocated' = bytesAllocated + 1
  /\ pc' = IF StressGC \/ bytesAllocated' > nextGC THEN "mark" ELSE "finish"
  /\ UNCHANGED <<refs, interns, listVars, gcVars, nextGC, leaked>>

Reallocate(req) == Request(req) /\ UNCHANGED roots

\* A constructor of object.c: args says which object goes into which field.
NewObject(k, args) ==
  /\ allocated # Obj
  /\ \A f \in Arguments[k] : kind[args[f]] \in Holds[f]
  /\ Reallocate([op |-> "new", kind |-> k, obj |-> NULL,
                 refs |-> {<<f, args[f]>> : f \in Arguments[k]}])

\* coerce_and_concatenate_string makes a string of a number or a boolean that is added to
\* string s. If that is the left operand, s is no more on the stack, but in a C local.
Coerce(s) ==
  LET req == [op |-> "new", kind |-> "string", obj |-> NULL, refs |-> {}] IN
  /\ allocated # Obj
  /\ kind[s] = "string" /\ <<"stack", s>> \in roots
  /\ IF ConvertsLeft
     THEN Request([req EXCEPT !.obj = s]) /\ roots' = roots \ {<<"stack", s>>}
     ELSE Reallocate(req)

\* adjustCapacity and writeValueArray for a table or array of object o.
Grow(o) ==
  /\ kind[o] \in Growing
  /\ Reallocate([op |-> "grow", kind |-> kind[o], obj |-> o, refs |-> {}])

\* allocateObject after reallocate, the constructor that called it, and its
\* caller up to where it stores the new object, and the operand it has popped. A
\* string goes into vm.strings.
FinishNew(o) ==
  LET k == request.kind IN
  /\ pc = "finish" /\ request.op = "new"
  /\ o \notin allocated
  /\ kind' = [kind EXCEPT ![o] = k]
  /\ refs' = [refs EXCEPT ![o] = request.refs]
  /\ isMarked' = [isMarked EXCEPT ![o] = FALSE]
  /\ next' = [next EXCEPT ![o] = objects]
  /\ objects' = o
  /\ roots' = roots \cup {<<FirstRoot[k], o>>} \cup ({"stack"} \X ({request.obj} \ {NULL}))
  /\ interns' = IF k = "string" THEN interns \cup {o} ELSE interns
  /\ pc' = "run" /\ request' = NoRequest
  /\ UNCHANGED <<buffer, gray, object, previous, memVars>>

FinishGrow ==
  /\ pc = "finish" /\ request.op = "grow"
  /\ buffer' = [buffer EXCEPT ![request.obj] = @ + 1]
  /\ pc' = "run" /\ request' = NoRequest
  /\ UNCHANGED <<mutVars, kind, next, objects, gcVars, memVars>>

-----------------------------------------------------------------------------
(* A collection *)

(* Operators whose names end in what they get wrong are seeded faults: each  *)
(* replaces the definition after it in one run, which must then fail.        *)

TracedNoUpvalues == [Fields EXCEPT !["closure"] = {"function"}]

\* The fields blackenObject follows, written apart from Fields: that the two
\* agree is what the properties find out.
Traced == [bound    |-> {"receiver", "method"},
           class    |-> {"name", "methods"},
           closure  |-> {"function", "upvalues"},
           function |-> {"name", "constants"},
           instance |-> {"klass", "fields"},
           native   |-> {},
           string   |-> {},
           upvalue  |-> {"closed"}]

MarkedRootsNoGlobals == {"stack", "frames", "openUpvalues", "compiler", "initString"}

\* The tables markRoots goes through.
MarkedRoots == {"stack", "frames", "openUpvalues", "globals", "compiler",
                "initString"}

WhiteAlways(S) == S
WhiteNever(S)  == {}

\* markObject for every pointer of a set: what is marked already stays as it is.
White(S) == {o \in S : ~isMarked[o]}

Mark(S) == isMarked' = [o \in Obj |-> isMarked[o] \/ o \in S]

MarkRoots ==
  LET found == {r[2] : r \in {x \in roots : x[1] \in MarkedRoots}} IN
  /\ pc = "mark"
  /\ Mark(found)
  /\ gray' = White(found)
  /\ pc' = "trace"
  /\ UNCHANGED <<mutVars, listVars, object, previous, memVars, request>>

\* One turn of traceReferences.
BlackenObject(o) ==
  LET found == {p[2] : p \in {x \in refs[o] : x[1] \in Traced[kind[o]]}} IN
  /\ pc = "trace"
  /\ o \in gray
  /\ Mark(found)
  /\ gray' = (gray \ {o}) \cup White(found)
  /\ UNCHANGED <<mutVars, listVars, object, previous, memVars, pc, request>>

RemoveWhiteNever ==
  /\ pc = "trace"
  /\ gray = {}
  /\ object' = objects
  /\ previous' = NULL
  /\ pc' = "sweep"
  /\ UNCHANGED <<mutVars, listVars, isMarked, gray, memVars, request>>

\* The end of traceReferences, then tableRemoveWhite(&vm.strings), whose loop
\* stops one slot short, then the first lines of sweep.
RemoveWhite ==
  /\ pc = "trace"
  /\ gray = {}
  /\ interns' = {s \in interns : isMarked[s] \/ s \in LastSlot}
  /\ object' = objects
  /\ previous' = NULL
  /\ pc' = "sweep"
  /\ UNCHANGED <<roots, refs, listVars, isMarked, gray, memVars, request>>

FreedNoBuffer(o) == 1

\* What freeObject gives back to bytesAllocated: the object and its buffer,
\* except that nothing frees the method table of a class.
Freed(o) == 1 + (IF kind[o] = "class" THEN 0 ELSE buffer[o])
Lost(o)  == IF kind[o] = "class" THEN buffer[o] ELSE 0

FreeObjectShrinks(o) ==
  /\ kind' = [kind EXCEPT ![o] = "free"]
  /\ refs' = [refs EXCEPT ![o] = {}]
  /\ buffer' = [buffer EXCEPT ![o] = @ - 1]
  /\ bytesAllocated' = bytesAllocated - Freed(o)
  /\ leaked' = leaked + Lost(o)

FreeObject(o) ==
  /\ kind' = [kind EXCEPT ![o] = "free"]
  /\ refs' = [refs EXCEPT ![o] = {}]
  /\ buffer' = [buffer EXCEPT ![o] = 0]
  /\ bytesAllocated' = bytesAllocated - Freed(o)
  /\ leaked' = leaked + Lost(o)

SweepMarkedStays ==
  /\ pc = "sweep" /\ object # NULL
  /\ isMarked[object]
  /\ previous' = object
  /\ object' = next[object]
  /\ UNCHANGED <<mutVars, listVars, isMarked, gray, memVars, pc, request>>

SweepMarked ==
  /\ pc = "sweep" /\ object # NULL
  /\ isMarked[object]
  /\ isMarked' = [isMarked EXCEPT ![object] = FALSE]
  /\ previous' = object
  /\ object' = next[object]
  /\ UNCHANGED <<mutVars, listVars, gray, memVars, pc, request>>

UnlinkKeepsHead(o) ==
  /\ next' = [next EXCEPT ![o] = NULL]
  /\ UNCHANGED objects

\* The list without the object that follows "previous", which is freed next.
Unlink(o) ==
  /\ next' = [x \in Obj |-> IF x = o THEN NULL
                            ELSE IF x = previous THEN next[o] ELSE next[x]]
  /\ objects' = IF previous = NULL THEN next[o] ELSE objects

SweepUnreached ==
  /\ pc = "sweep" /\ object # NULL
  /\ ~isMarked[object]
  /\ object' = next[object]
  /\ Unlink(object)
  /\ FreeObject(object)
  /\ UNCHANGED <<roots, interns, isMarked, gray, previous, nextGC, pc, request>>

\* The end of sweep and of collectGarbage.
SweepDone ==
  /\ pc = "sweep" /\ object = NULL
  /\ nextGC' = 2 * bytesAllocated
  /\ pc' = "finish"
  /\ UNCHANGED <<mutVars, listVars, gcVars, bytesAllocated, leaked, request>>

-----------------------------------------------------------------------------
(* The end of the program *)

\* freeVM up to freeObjects; main then only returns.
FreeVM ==
  /\ pc = "run"
  /\ roots' = {} /\ interns' = {}
  /\ object' = objects
  /\ pc' = "freeing"
  /\ UNCHANGED <<refs, listVars, isMarked, gray, previous, memVars, request>>

\* One turn of freeObjects, which leaves vm.objects as it is.
FreeNext ==
  /\ pc = "freeing" /\ object # NULL
  /\ object' = next[object]
  /\ next' = [next EXCEPT ![object] = NULL]
  /\ FreeObject(object)
  /\ UNCHANGED <<roots, interns, objects, isMarked, gray, previous, nextGC,
                 pc, request>>

FreeDone ==
  /\ pc = "freeing" /\ object = NULL
  /\ pc' = "freed"
  /\ UNCHANGED <<mutVars, listVars, gcVars, memVars, request>>

Mutator ==
  LET live == Reachable IN
  \/ \E o, t \in live, f \in FieldNames : Store(o, f, t) \/ Erase(o, f, t)
  \/ \E t \in live, r \in RootsInUse : Root(r, t) \/ Unroot(r, t)
  \/ \E s \in Obj : FindString(s)

Allocate ==
  LET live == Reachable IN
  \/ \E k \in Kinds : \E args \in [Arguments[k] -> live] : NewObject(k, args)
  \/ \E s \in live : Coerce(s)
  \/ \E o \in live : Grow(o)
  \/ \E o \in Obj : FinishNew(o)
  \/ FinishGrow

Collect ==
  \/ MarkRoots
  \/ \E o \in Obj : BlackenObject(o)
  \/ RemoveWhite
  \/ SweepMarked \/ SweepUnreached \/ SweepDone

Next == Mutator \/ Allocate \/ Collect \/ FreeVM \/ FreeNext \/ FreeDone

Spec == Init /\ [][Next]_vars

\* Once reallocate has called collectGarbage the C code goes on by itself.
FairSpec == Spec /\ WF_vars(Collect)

-----------------------------------------------------------------------------
(* Properties *)

TypeOK ==
  /\ kind \in [Obj -> AllKinds \cup {"free"}]
  /\ refs \in [Obj -> SUBSET Pointers]
  /\ buffer \in [Obj -> Nat]
  /\ isMarked \in [Obj -> BOOLEAN]
  /\ next \in [Obj -> Obj \cup {NULL}]
  /\ {objects, object, previous} \subseteq Obj \cup {NULL}
  /\ roots \subseteq RootNames \X Obj
  /\ interns \subseteq Obj
  /\ gray \subseteq Obj
  /\ pc \in {"run", "mark", "trace", "sweep", "finish", "freeing", "freed"}
  /\ request \in [op : {"none", "new", "grow"}, kind : AllKinds,
                  refs : SUBSET Pointers, obj : Obj \cup {NULL}]
  /\ bytesAllocated \in Int /\ nextGC \in Int /\ leaked \in Int

\* What the allocating function holds on to besides the roots.
Held == {p[2] : p \in request.refs} \cup ({request.obj} \ {NULL})

\* A pointer the program can follow, or a C function will use after it has
\* asked for memory, points at a block that has not been freed (memory.c,
\* all of it; the roots and fields that mark phase must not miss).
NoDangling == Reachable \cup Held \subseteq allocated

\* The list that sweep and freeObjects walk holds exactly the allocated
\* objects, at every step of sweep and freeObjects too: none is lost, none freed twice.
ListIntact ==
  allocated = ListFrom(IF pc \in {"freeing", "freed"} THEN object ELSE objects)

\* Every string vm.strings can answer with is allocated, so that copyString
\* and takeString never return a freed one (table.c:117-137 reads its bytes).
InternsAllocated == pc # "sweep" => interns \subseteq allocated

\* Outside a collection no object is marked: a mark left behind would keep
\* an object, and hide its children from the next collection (memory.c:38).
MarksClear == pc \in {"run", "finish"} => \A o \in allocated : ~isMarked[o]

\* No object that is done with points at one not yet found (memory.c:184-189).
TriColor == pc = "trace" =>
  \A o \in allocated : isMarked[o] /\ o \notin gray
                       => \A c \in Children(o) : isMarked[c]

\* vm.bytesAllocated is what the blocks take, plus what freeObject has lost
\* count of, plus the block being asked for; so it never wraps below zero.
BytesAccounted ==
  LET Size(o) == 1 + buffer[o] IN
  bytesAllocated = leaked + MapThenSumSet(Size, allocated)
                   + (IF request.op = "none" THEN 0 ELSE 1)

\* The promise of Heap.tla: a collection takes what is out of reach and
\* nothing else. Sweep and freeObjects are seen as the step they start with.
Promise == INSTANCE Heap WITH
             heap  <- IF pc \in {"sweep", "freeing"} THEN Reachable ELSE allocated,
             reach <- Reachable
KeepsPromise == Promise!Spec

\* A collection that starts ends, whatever the heap looks like: cycles too.
CollectionEnds == pc = "mark" ~> pc = "finish"
=============================================================================
