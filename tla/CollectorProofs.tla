-------------------------- MODULE CollectorProofs --------------------------
(***************************************************************************)
(* Proofs about the collector of clox/memory.c for every heap size, every  *)
(* program and every setting of the build flags and bounds.                *)
(***************************************************************************)
EXTENDS CollectorInv, FiniteSetTheorems, WellFoundedInduction, TLAPS

-----------------------------------------------------------------------------
(* Reachability *)

\* A set that holds the roots and is closed under pointers holds all in reach.
LEMMA ReachLeast ==
  ASSUME NEW R, NEW f, NEW S \in SUBSET Obj, R \subseteq S, ClosedIn(S, f)
  PROVE  ReachFrom(R, f) \subseteq S
BY DEF ReachFrom

\* What is in reach holds the roots and is itself closed under pointers.
LEMMA ReachClosed ==
  ASSUME NEW R \in SUBSET Obj, NEW f \in [Obj -> SUBSET Pointers]
  PROVE  /\ R \subseteq ReachFrom(R, f)
         /\ ClosedIn(ReachFrom(R, f), f)
         /\ ReachFrom(R, f) \subseteq Obj
<1>1. R \subseteq ReachFrom(R, f) /\ ReachFrom(R, f) \subseteq Obj
  BY DEF ReachFrom
<1>2. ASSUME NEW o \in ReachFrom(R, f), NEW c \in PointsAt(f, o)
      PROVE  c \in ReachFrom(R, f)
  <2>1. o \in Obj /\ c \in Obj
    BY <1>2 DEF ReachFrom, PointsAt, Pointers
  <2>2. ASSUME NEW S \in SUBSET Obj, R \subseteq S, ClosedIn(S, f)
        PROVE  c \in S
    BY <1>2, <2>2 DEF ReachFrom, ClosedIn
  <2>3. QED BY <2>1, <2>2 DEF ReachFrom
<1>3. QED BY <1>1, <1>2 DEF ClosedIn

\* Pointers of objects out of reach do not matter.
LEMMA ReachSame ==
  ASSUME NEW R \in SUBSET Obj,
         NEW f \in [Obj -> SUBSET Pointers], NEW g \in [Obj -> SUBSET Pointers],
         \A o \in ReachFrom(R, f) : g[o] = f[o]
  PROVE  ReachFrom(R, g) = ReachFrom(R, f)
<1>1. ClosedIn(ReachFrom(R, f), g)
  BY ReachClosed DEF ClosedIn, PointsAt
<1>2. ReachFrom(R, g) \subseteq ReachFrom(R, f)
  BY <1>1, ReachClosed, ReachLeast
<1>3. ClosedIn(ReachFrom(R, g), f)
  BY <1>2, ReachClosed DEF ClosedIn, PointsAt
<1>4. ReachFrom(R, f) \subseteq ReachFrom(R, g)
  BY <1>3, ReachClosed, ReachLeast
<1>5. QED BY <1>2, <1>4

-----------------------------------------------------------------------------
(* Type correctness *)

\* The initial state has the types that TypeOK states.
LEMMA InitTypeOK == Init => TypeOK
BY CollectorAssumption DEF Init, TypeOK, NoRequest, AllKinds

LEMMA FieldsTyped ==
  /\ \A k \in AllKinds : Arguments[k] \subseteq FieldNames
  /\ \A k \in AllKinds : Fields[k] \subseteq FieldNames
  /\ \A k \in AllKinds : FirstRoot[k] \in RootNames
BY DEF AllKinds, Arguments, Fields, FirstRoot, FieldNames, RootNames, Holds, RootHolds

LEMMA ReachableTyped == Reachable \subseteq Obj
BY DEF Reachable, ReachFrom

\* Every action of the mutator keeps the types.
LEMMA MutatorTypeOK == TypeOK /\ Mutator => TypeOK'
<1> SUFFICES ASSUME TypeOK, Mutator PROVE TypeOK'
  OBVIOUS
<1> USE CollectorAssumption DEF mutVars, listVars, gcVars, memVars
<1>1. ASSUME NEW o \in Reachable, NEW t \in Reachable, NEW f \in FieldNames,
             Store(o, f, t) \/ Erase(o, f, t)
      PROVE  TypeOK'
  BY <1>1, ReachableTyped DEF Store, Erase, TypeOK, Pointers
<1>2. ASSUME NEW t \in Reachable, NEW r \in RootsInUse, Root(r, t) \/ Unroot(r, t)
      PROVE  TypeOK'
  BY <1>2, ReachableTyped DEF Root, Unroot, TypeOK
<1>3. ASSUME NEW s \in Obj, FindString(s) PROVE TypeOK'
  BY <1>3 DEF FindString, TypeOK, RootNames, RootHolds
<1>4. QED BY <1>1, <1>2, <1>3 DEF Mutator

LEMMA AllocateTypeOK == TypeOK /\ Allocate => TypeOK'
<1> SUFFICES ASSUME TypeOK, Allocate PROVE TypeOK'
  OBVIOUS
<1> USE CollectorAssumption DEF mutVars, listVars, gcVars, memVars
<1>1. ASSUME NEW k \in Kinds, NEW args \in [Arguments[k] -> Reachable],
             NewObject(k, args)
      PROVE  TypeOK'
  <2>1. {<<f, args[f]>> : f \in Arguments[k]} \subseteq Pointers
    BY FieldsTyped, ReachableTyped DEF Pointers
  <2>2. request' \in [op : {"none", "new", "grow"}, kind : AllKinds,
                      refs : SUBSET Pointers, obj : Obj \cup {NULL}]
    BY <1>1, <2>1 DEF NewObject, Reallocate, Request
  <2>3. QED BY <1>1, <2>2 DEF NewObject, Reallocate, Request, TypeOK
<1>2. ASSUME NEW o \in Reachable, Grow(o) PROVE TypeOK'
  <2>1. request' \in [op : {"none", "new", "grow"}, kind : AllKinds,
                      refs : SUBSET Pointers, obj : Obj \cup {NULL}]
    BY <1>2, ReachableTyped DEF Grow, Reallocate, Request, Growing, AllKinds
  <2>2. QED BY <1>2, <2>1 DEF Grow, Reallocate, Request, TypeOK
<1>0. NoRequest \in [op : {"none", "new", "grow"}, kind : AllKinds,
                     refs : SUBSET Pointers, obj : Obj \cup {NULL}]
  BY DEF NoRequest, AllKinds
<1>3. ASSUME NEW o \in Obj, FinishNew(o) PROVE TypeOK'
  <2>1. /\ roots \subseteq RootNames \X Obj /\ request.kind \in AllKinds
        /\ {request.obj} \ {NULL} \subseteq Obj /\ "stack" \in RootNames
    BY DEF TypeOK, RootNames, RootHolds
  <2>2. ({"stack"} \X ({request.obj} \ {NULL})) \subseteq RootNames \X Obj
    BY <2>1
  <2>3. {<<FirstRoot[request.kind], o>>} \subseteq RootNames \X Obj
    BY <2>1, FieldsTyped
  <2>4. roots' \subseteq RootNames \X Obj
    BY <1>3, <2>1, <2>2, <2>3 DEF FinishNew
  <2>5. QED BY <1>0, <1>3, <2>4 DEF FinishNew, TypeOK
<1>4. CASE FinishGrow
  <2>1. buffer' \in [Obj -> Nat]
    <3>1. buffer \in [Obj -> Nat]
      BY DEF TypeOK
    <3>2. buffer' = [buffer EXCEPT ![request.obj] = @ + 1]
      BY <1>4 DEF FinishGrow
    <3>3. ASSUME NEW o \in Obj PROVE buffer'[o] \in Nat
      BY <3>1, <3>2, <3>3
    <3>4. QED BY <3>1, <3>2, <3>3
  <2>2. QED BY <1>0, <1>4, <2>1 DEF FinishGrow, TypeOK
<1>5. ASSUME NEW s \in Reachable, Coerce(s) PROVE TypeOK'
  <2>1. request' \in [op : {"none", "new", "grow"}, kind : AllKinds,
                      refs : SUBSET Pointers, obj : Obj \cup {NULL}]
    BY <1>5, ReachableTyped DEF Coerce, Reallocate, Request, AllKinds
  <2>2. roots' \subseteq roots
    BY <1>5 DEF Coerce, Reallocate
  <2>3. QED BY <1>5, <2>1, <2>2 DEF Coerce, Reallocate, Request, TypeOK
<1>6. QED BY <1>1, <1>2, <1>3, <1>4, <1>5 DEF Allocate

LEMMA FreeObjectTypeOK ==
  ASSUME TypeOK, NEW o \in Obj, FreeObject(o)
  PROVE  /\ kind' \in [Obj -> AllKinds \cup {"free"}]
         /\ refs' \in [Obj -> SUBSET Pointers]
         /\ buffer' \in [Obj -> Nat]
         /\ bytesAllocated' \in Int /\ leaked' \in Int
BY DEF FreeObject, Freed, Lost, TypeOK

LEMMA CollectTypeOK == TypeOK /\ Collect => TypeOK'
<1> SUFFICES ASSUME TypeOK, Collect PROVE TypeOK'
  OBVIOUS
<1> USE CollectorAssumption DEF mutVars, listVars, gcVars, memVars
<1>1. CASE MarkRoots
  BY <1>1 DEF MarkRoots, Mark, White, TypeOK
<1>2. ASSUME NEW o \in Obj, BlackenObject(o) PROVE TypeOK'
  BY <1>2 DEF BlackenObject, Mark, White, TypeOK, Pointers
<1>3. CASE RemoveWhite
  BY <1>3 DEF RemoveWhite, TypeOK
<1>4. CASE SweepMarked
  BY <1>4 DEF SweepMarked, TypeOK
<1>5. CASE SweepUnreached
  <2>1. object \in Obj
    BY <1>5 DEF SweepUnreached, TypeOK
  <2>2. next' \in [Obj -> Obj \cup {NULL}] /\ objects' \in Obj \cup {NULL}
    BY <1>5, <2>1 DEF SweepUnreached, Unlink, TypeOK
  <2>3. QED BY <1>5, <2>1, <2>2, FreeObjectTypeOK DEF SweepUnreached, TypeOK
<1>6. CASE SweepDone
  BY <1>6 DEF SweepDone, TypeOK
<1>7. QED BY <1>1, <1>2, <1>3, <1>4, <1>5, <1>6 DEF Collect

LEMMA FreeTypeOK == TypeOK /\ (FreeVM \/ FreeNext \/ FreeDone) => TypeOK'
<1> SUFFICES ASSUME TypeOK, FreeVM \/ FreeNext \/ FreeDone PROVE TypeOK'
  OBVIOUS
<1> USE CollectorAssumption DEF mutVars, listVars, gcVars, memVars
<1>1. CASE FreeVM
  BY <1>1 DEF FreeVM, TypeOK
<1>2. CASE FreeNext
  <2>1. object \in Obj
    BY <1>2 DEF FreeNext, TypeOK
  <2>2. QED BY <1>2, <2>1, FreeObjectTypeOK DEF FreeNext, TypeOK
<1>3. CASE FreeDone
  BY <1>3 DEF FreeDone, TypeOK
<1>4. QED BY <1>1, <1>2, <1>3

LEMMA NextTypeOK == TypeOK /\ [Next]_vars => TypeOK'
<1> SUFFICES ASSUME TypeOK, [Next]_vars PROVE TypeOK'
  OBVIOUS
<1>1. CASE UNCHANGED vars
  BY <1>1 DEF vars, mutVars, listVars, gcVars, memVars, TypeOK
<1>2. QED
  BY <1>1, MutatorTypeOK, AllocateTypeOK, CollectTypeOK, FreeTypeOK DEF Next

\* Every variable keeps its type in every behaviour of the collector, the
\* counters of memory.c included, whatever malloc and the program do.
THEOREM TypeCorrect == Spec => []TypeOK
<1>1. QED BY InitTypeOK, NextTypeOK, PTL DEF Spec

-----------------------------------------------------------------------------
(* The inductive invariant *)

LEMMA InitIInv == LastSlot = {} /\ ~ConvertsLeft /\ Init => IInv
<1> SUFFICES ASSUME LastSlot = {}, ~ConvertsLeft, Init PROVE IInv
  OBVIOUS
<1>1. TypeOK
  BY InitTypeOK
<1>2. allocated = {} /\ Roots = {} /\ marked = {}
  BY DEF Init, allocated, Roots, marked
<1>3. RequestLive
  BY DEF RequestLive, Init, Held, NoRequest
<1>4. WellPlaced /\ HeapClosed /\ NoMarks /\ Tracing /\ NoRoots
  BY <1>2 DEF Init, WellPlaced, HeapClosed, NoMarks, Tracing, NoRoots, Closed, ClosedIn
<1>5. Ranked(Int)
  <2>1. [o \in Obj |-> 0] \in [Obj -> Int]
    OBVIOUS
  <2>2. Ordered([o \in Obj |-> 0], objects)
    BY <1>2 DEF Ordered, Init
  <2>3. QED BY <2>1, <2>2 DEF Ranked, Init
<1>6. QED BY <1>1, <1>3, <1>4, <1>5 DEF IInv, Inv

\* As long as nothing is being swept, all the program can get to is allocated.
LEMMA ReachableAllocated ==
  ASSUME TypeOK, HeapClosed, pc \notin {"sweep", "freeing", "freed"}
  PROVE  Reachable \subseteq allocated
<1>1. allocated \in SUBSET Obj
  BY DEF allocated
<1>2. QED BY <1>1, ReachLeast DEF HeapClosed, Reachable, Closed

LEMMA ReachableClosed ==
  ASSUME TypeOK
  PROVE  /\ Roots \subseteq Reachable
         /\ Closed(Reachable)
         /\ Roots \in SUBSET Obj
<1>1. Roots \in SUBSET Obj
  BY DEF Roots, TypeOK
<1>2. refs \in [Obj -> SUBSET Pointers]
  BY DEF TypeOK
<1>3. QED BY <1>1, <1>2, ReachClosed DEF Reachable, Closed

\* Steps that leave the list alone keep its order.
LEMMA RankedSame ==
  ASSUME Ranked(Int), UNCHANGED <<kind, next, objects>>,
         pc \notin {"freeing", "freed"}, pc' \notin {"sweep", "freeing", "freed"}
  PROVE  Ranked(Int)'
<1>1. PICK rank \in [Obj -> Int] : Ordered(rank, objects)
  BY DEF Ranked
<1>2. Ordered(rank, objects)'
  BY <1>1 DEF Ordered, allocated
<1>3. QED BY <1>2 DEF Ranked

LEMMA MutatorIInv == IInv /\ Mutator => IInv'
<1> SUFFICES ASSUME IInv, Mutator PROVE IInv'
  OBVIOUS
<1> USE DEF mutVars, listVars, gcVars, memVars
<1>1. /\ pc = "run" /\ pc' = "run"
      /\ UNCHANGED <<listVars, gcVars, memVars, request>>
  BY DEF Mutator, Store, Erase, Root, Unroot, FindString
<1>2. TypeOK /\ TypeOK'
  BY MutatorTypeOK DEF IInv, Inv
<1>3. allocated' = allocated /\ marked' = marked
  BY <1>1 DEF allocated, marked
<1>4. Reachable \subseteq allocated
  BY <1>1, <1>2, ReachableAllocated DEF IInv, Inv
<1>5. RequestLive'
  BY <1>1 DEF IInv, Inv, RequestLive, Held, NoRequest
<1>6. NoMarks' /\ Tracing' /\ NoRoots'
  BY <1>1, <1>3 DEF IInv, Inv, NoMarks, Tracing, NoRoots
<1>7. Ranked(Int)'
  BY <1>1, RankedSame DEF IInv, Inv
<1>8. WellPlaced' /\ HeapClosed'
  <2>0. /\ WellPlaced /\ Roots \subseteq allocated /\ interns \subseteq allocated
        /\ \A o \in allocated : \A p \in refs[o] : p[2] \in allocated
    BY <1>1 DEF IInv, Inv, HeapClosed, Closed, ClosedIn, PointsAt
  <2> SUFFICES /\ WellPlaced'
               /\ Roots' \subseteq allocated /\ interns' \subseteq allocated
               /\ \A o \in allocated : \A p \in refs'[o] : p[2] \in allocated
    BY <1>3 DEF HeapClosed, Closed, ClosedIn, PointsAt
  <2>1. ASSUME NEW o \in Reachable, NEW t \in Reachable, NEW f \in FieldNames,
               Store(o, f, t)
        PROVE  /\ WellPlaced'
               /\ Roots' \subseteq allocated /\ interns' \subseteq allocated
               /\ \A x \in allocated : \A p \in refs'[x] : p[2] \in allocated
    <3>1. /\ refs' = [refs EXCEPT ![o] = @ \cup {<<f, t>>}]
          /\ f \in Fields[kind[o]] /\ roots' = roots /\ interns' = interns
          /\ kind' = kind
      BY <2>1 DEF Store
    <3>2. o \in Obj /\ t \in allocated /\ refs \in [Obj -> SUBSET Pointers]
      BY <1>2, <1>4, ReachableTyped DEF TypeOK
    <3>3. ASSUME NEW x \in allocated, NEW p \in refs'[x]
          PROVE  p \in refs[x] \/ (x = o /\ p = <<f, t>>)
      BY <3>1, <3>2, <3>3 DEF allocated
    <3>4. QED BY <2>0, <3>1, <3>2, <3>3, <1>3 DEF WellPlaced, Roots
  <2>2. ASSUME NEW o \in Reachable, NEW t \in Reachable, NEW f \in FieldNames,
               Erase(o, f, t)
        PROVE  /\ WellPlaced'
               /\ Roots' \subseteq allocated /\ interns' \subseteq allocated
               /\ \A x \in allocated : \A p \in refs'[x] : p[2] \in allocated
    <3>1. /\ refs' = [refs EXCEPT ![o] = @ \ {<<f, t>>}]
          /\ roots' = roots /\ interns' = interns /\ kind' = kind
      BY <2>2 DEF Erase
    <3>2. refs \in [Obj -> SUBSET Pointers] /\ allocated \subseteq Obj
      BY <1>2 DEF TypeOK, allocated
    <3>3. \A x \in allocated : refs'[x] \subseteq refs[x]
      BY <3>1, <3>2
    <3>4. QED BY <2>0, <3>1, <3>3, <1>3 DEF WellPlaced, Roots
  <2>3. ASSUME NEW t \in Reachable, NEW r \in RootsInUse, Root(r, t) \/ Unroot(r, t)
        PROVE  /\ WellPlaced'
               /\ Roots' \subseteq allocated /\ interns' \subseteq allocated
               /\ \A x \in allocated : \A p \in refs'[x] : p[2] \in allocated
    BY <2>0, <2>3, <1>3, <1>4, CollectorAssumption
       DEF Root, Unroot, WellPlaced, Roots
  <2>4. ASSUME NEW s \in Obj, FindString(s)
        PROVE  /\ WellPlaced'
               /\ Roots' \subseteq allocated /\ interns' \subseteq allocated
               /\ \A x \in allocated : \A p \in refs'[x] : p[2] \in allocated
    BY <2>0, <2>4, <1>3 DEF FindString, WellPlaced, Roots, RootNames, RootHolds
  <2>5. QED BY <2>1, <2>2, <2>3, <2>4 DEF Mutator
<1>9. QED BY <1>2, <1>5, <1>6, <1>7, <1>8 DEF IInv, Inv

\* Steps that touch neither pointers nor roots leave the same objects in reach.
LEMMA ReachableSame ==
  ASSUME UNCHANGED <<refs, roots>>
  PROVE  Reachable' = Reachable /\ Roots' = Roots
BY DEF Reachable, Roots

LEMMA ReallocateIInv ==
  ASSUME IInv, TypeOK', NEW req, Reallocate(req), req # NoRequest,
         {p[2] : p \in req.refs} \cup ({req.obj} \ {NULL}) \subseteq Reachable,
         \A p \in req.refs : p[1] \in Fields[req.kind],
         req.op = "new" => req.obj = NULL
  PROVE  IInv'
<1> USE DEF mutVars, listVars, gcVars, memVars
<1>1. /\ pc = "run" /\ pc' \in {"mark", "finish"} /\ request' = req
      /\ UNCHANGED <<mutVars, listVars, gcVars>>
  BY DEF Reallocate, Request
<1>2. Reachable' = Reachable /\ Roots' = Roots /\ allocated' = allocated
      /\ marked' = marked
  BY <1>1, ReachableSame DEF allocated, marked
<1>3. RequestLive'
  <2>1. Held' = {p[2] : p \in req.refs} \cup ({req.obj} \ {NULL})
    BY <1>1 DEF Held
  <2>2. NoRequest' = NoRequest
    BY DEF NoRequest
  <2>3. QED BY <1>1, <1>2, <2>1, <2>2 DEF RequestLive
<1>4. WellPlaced'
  BY <1>1, <1>2 DEF IInv, Inv, WellPlaced
<1>5. HeapClosed'
  BY <1>1, <1>2 DEF IInv, Inv, HeapClosed, Closed, ClosedIn
<1>6. NoMarks' /\ Tracing' /\ NoRoots'
  BY <1>1, <1>2 DEF IInv, Inv, NoMarks, Tracing, NoRoots
<1>7. Ranked(Int)'
  BY <1>1, RankedSame DEF IInv, Inv
<1>8. QED BY <1>3, <1>4, <1>5, <1>6, <1>7 DEF IInv, Inv

\* The new object goes to the head of the list: a rank above all the others.
LEMMA FinishNewRanked ==
  ASSUME IInv, TypeOK', NEW o \in Obj, FinishNew(o)
  PROVE  Ranked(Int)'
<1>1. /\ pc = "finish" /\ pc' = "run" /\ o \notin allocated
      /\ next' = [next EXCEPT ![o] = objects] /\ objects' = o
      /\ kind' = [kind EXCEPT ![o] = request.kind]
  BY DEF FinishNew
<1>2. PICK rank \in [Obj -> Int] : Ordered(rank, objects)
  BY <1>1 DEF IInv, Inv, Ranked
<1>3. TypeOK /\ CollectorAssumption
  BY CollectorAssumption DEF IInv, Inv
<1>4. allocated' = allocated \cup {o}
  BY <1>1, <1>3 DEF TypeOK, allocated, AllKinds
<1> DEFINE top == IF objects = NULL THEN 0 ELSE rank[objects] + 1
<1>a. top \in Int
  BY <1>3 DEF TypeOK
<1>b. PICK new \in [Obj -> Int] : new = [rank EXCEPT ![o] = top]
  BY <1>a
<1>5. /\ top \in Int /\ new[o] = top
      /\ \A x \in allocated : new[x] = rank[x] /\ next'[x] = next[x] /\ x # o
      /\ next'[o] = objects
      /\ allocated \subseteq Obj
  BY <1>a, <1>b, <1>1, <1>3 DEF TypeOK, allocated
<1>6. \A x \in allocated : rank[x] < top
  BY <1>2, <1>5 DEF Ordered
<1>7. objects # NULL => objects \in allocated /\ \A x \in allocated : rank[x] <= rank[objects]
  BY <1>2 DEF Ordered
<1>8. objects = NULL => allocated = {}
  BY <1>2 DEF Ordered
<1>9. /\ \A x, y \in allocated' : new[x] = new[y] => x = y
      /\ objects' # NULL /\ objects' \in allocated'
      /\ \A x \in allocated' : new[x] <= new[objects']
  <2>1. \A x, y \in allocated : rank[x] = rank[y] => x = y
    BY <1>2 DEF Ordered
  <2>2. \A x \in allocated : rank[x] \in Int
    BY <1>2, <1>5
  <2>3. QED BY <2>1, <2>2, <1>1, <1>3, <1>4, <1>5, <1>6
<1>10. ASSUME NEW x \in allocated'
       PROVE IF next'[x] = NULL THEN \A y \in allocated' : new[x] <= new[y]
             ELSE /\ next'[x] \in allocated'
                  /\ new[next'[x]] < new[x]
                  /\ \A y \in allocated' : new[y] < new[x] => new[y] <= new[next'[x]]
  <2>1. CASE x = o
    <3>1. CASE objects = NULL
      BY <2>1, <3>1, <1>4, <1>5, <1>8
    <3>2. CASE objects # NULL
      <4>1. /\ objects \in allocated /\ new[objects] = rank[objects]
            /\ rank[objects] \in Int /\ top = rank[objects] + 1
        BY <3>2, <1>5, <1>7
      <4>2. \A y \in allocated : new[y] <= new[objects]
        BY <1>5, <1>7, <3>2, <4>1
      <4>3. new[o] = new[objects] + 1
        BY <1>5, <4>1
      <4>4. QED BY <2>1, <3>2, <4>1, <4>2, <4>3, <1>4, <1>5
    <3>3. QED BY <3>1, <3>2
  <2>2. CASE x \in allocated
    <3>1. IF next[x] = NULL THEN \A y \in allocated : rank[x] <= rank[y]
          ELSE /\ next[x] \in allocated
               /\ rank[next[x]] < rank[x]
               /\ \A y \in allocated : rank[y] < rank[x] => rank[y] <= rank[next[x]]
      BY <1>2, <2>2 DEF Ordered
    <3>2. rank[x] < top /\ rank[x] \in Int
      BY <1>2, <1>5, <1>6, <2>2
    <3>3. new[x] = rank[x] /\ next'[x] = next[x] /\ x # o /\ new[o] = top
      BY <1>5, <2>2
    <3>4. CASE next[x] = NULL
      <4>1. \A y \in allocated : new[x] <= new[y]
        BY <3>1, <3>4, <3>3, <1>5
      <4>2. new[x] <= new[o]
        BY <3>2, <3>3, <1>5
      <4>3. QED BY <3>3, <3>4, <4>1, <4>2, <1>4
    <3>5. CASE next[x] # NULL
      <4>1. /\ next[x] \in allocated /\ new[next[x]] < new[x]
            /\ \A y \in allocated : new[y] < new[x] => new[y] <= new[next[x]]
        BY <3>1, <3>5, <3>3, <1>5
      <4>2. ~(new[o] < new[x])
        BY <3>2, <3>3, <1>5
      <4>3. QED BY <3>3, <3>5, <4>1, <4>2, <1>4
    <3>6. QED BY <3>4, <3>5
  <2>3. QED BY <1>4, <2>1, <2>2
<1>11. Ordered(new, objects)'
  BY <1>9, <1>10 DEF Ordered
<1>12. QED BY <1>1, <1>5, <1>11 DEF Ranked

\* As long as no left operand is converted, nothing but the new object becomes a root.
LEMMA FinishNewRoots ==
  ASSUME IInv, NEW o \in Obj, FinishNew(o)
  PROVE  roots' = roots \cup {<<FirstRoot[request.kind], o>>}
<1>1. request.obj = NULL
  BY DEF FinishNew, IInv, Inv, RequestLive
<1>2. {"stack"} \X ({request.obj} \ {NULL}) = {}
  BY <1>1
<1>3. QED BY <1>2 DEF FinishNew

LEMMA FinishNewIInv ==
  ASSUME IInv, TypeOK', NEW o \in Obj, FinishNew(o)
  PROVE  IInv'
<1> USE DEF memVars
<1> DEFINE k == request.kind
<1>1. /\ pc = "finish" /\ pc' = "run" /\ o \notin allocated
      /\ kind' = [kind EXCEPT ![o] = k] /\ refs' = [refs EXCEPT ![o] = request.refs]
      /\ isMarked' = [isMarked EXCEPT ![o] = FALSE] /\ gray' = gray
      /\ interns' \subseteq interns \cup {o}
      /\ request' = NoRequest
  BY DEF FinishNew
<1>0. roots' = roots \cup {<<FirstRoot[k], o>>}
  BY FinishNewRoots
<1>2. TypeOK /\ RequestLive /\ WellPlaced /\ HeapClosed /\ NoMarks
  BY DEF IInv, Inv
<1>3. k \in AllKinds /\ allocated \subseteq Obj
  BY <1>2 DEF TypeOK, allocated
<1>4. allocated' = allocated \cup {o}
  BY <1>1, <1>2, <1>3 DEF TypeOK, allocated, AllKinds
<1>5. Reachable \subseteq allocated
  BY <1>1, <1>2, ReachableAllocated
<1>6. \A p \in request.refs : p[1] \in Fields[k] /\ p[2] \in allocated
  BY <1>2, <1>5 DEF RequestLive, Held
<1>7. /\ refs'[o] = request.refs /\ kind'[o] = k
      /\ \A x \in allocated : refs'[x] = refs[x] /\ kind'[x] = kind[x]
  BY <1>1, <1>2, <1>3 DEF TypeOK
<1>8. RequestLive'
  BY <1>1 DEF RequestLive, Held, NoRequest
<1>9. WellPlaced'
  <2>1. \A x \in allocated' : \A p \in refs'[x] : p[1] \in Fields[kind'[x]]
    BY <1>2, <1>4, <1>6, <1>7 DEF WellPlaced
  <2>2. \A r \in roots' : r[1] \in RootNames
    BY <1>0, <1>1, <1>2, <1>3, FieldsTyped DEF WellPlaced
  <2>3. QED BY <2>1, <2>2 DEF WellPlaced
<1>10. HeapClosed'
  <2>1. /\ Roots \subseteq allocated /\ interns \subseteq allocated
        /\ \A x \in allocated : \A p \in refs[x] : p[2] \in allocated
    BY <1>1, <1>2 DEF HeapClosed, Closed, ClosedIn, PointsAt
  <2>2. Roots' \subseteq allocated'
    BY <1>0, <1>4, <2>1 DEF Roots
  <2>3. \A x \in allocated' : \A p \in refs'[x] : p[2] \in allocated'
    BY <1>4, <1>6, <1>7, <2>1
  <2>4. QED BY <1>1, <1>4, <2>1, <2>2, <2>3 DEF HeapClosed, Closed, ClosedIn, PointsAt
<1>11. NoMarks' /\ Tracing' /\ NoRoots'
  BY <1>1, <1>2 DEF NoMarks, Tracing, NoRoots, marked, TypeOK
<1>12. QED BY <1>8, <1>9, <1>10, <1>11, FinishNewRanked DEF IInv, Inv

LEMMA AllocateIInv == IInv /\ Allocate => IInv'
<1> SUFFICES ASSUME IInv, Allocate PROVE IInv'
  OBVIOUS
<1>1. TypeOK /\ TypeOK'
  BY AllocateTypeOK DEF IInv, Inv
<1>2. ASSUME NEW k \in Kinds, NEW args \in [Arguments[k] -> Reachable],
             NewObject(k, args)
      PROVE  IInv'
  <2> DEFINE ps == {<<f, args[f]>> : f \in Arguments[k]}
             req == [op |-> "new", kind |-> k, obj |-> NULL, refs |-> ps]
  <2>1. Reallocate(req)
    BY <1>2 DEF NewObject
  <2>2. req # NoRequest /\ req.refs = ps /\ req.obj = NULL /\ req.kind = k
    BY DEF NoRequest
  <2>3. \A p \in ps : p[2] \in Reachable /\ p[1] \in Arguments[k]
    OBVIOUS
  <2>4. Arguments[k] \subseteq Fields[k]
    <3>1. k \in AllKinds
      BY CollectorAssumption
    <3>2. QED BY <3>1 DEF Arguments, Fields, AllKinds
  <2> HIDE DEF req, ps
  <2>5. {p[2] : p \in req.refs} \cup ({req.obj} \ {NULL}) \subseteq Reachable
    BY <2>2, <2>3
  <2>6. \A p \in req.refs : p[1] \in Fields[req.kind]
    BY <2>2, <2>3, <2>4
  <2>7. QED BY <1>1, <2>1, <2>2, <2>5, <2>6, ReallocateIInv
<1>3. ASSUME NEW o \in Reachable, Grow(o) PROVE IInv'
  <2> DEFINE req == [op |-> "grow", kind |-> kind[o], obj |-> o, refs |-> {}]
  <2>1. Reallocate(req)
    BY <1>3 DEF Grow
  <2>2. req # NoRequest /\ req.refs = {} /\ req.obj = o /\ req.op = "grow"
    BY DEF NoRequest
  <2> HIDE DEF req
  <2>3. QED BY <1>1, <2>1, <2>2, ReallocateIInv
<1>4. ASSUME NEW o \in Obj, FinishNew(o) PROVE IInv'
  BY <1>1, <1>4, FinishNewIInv
<1>5. CASE FinishGrow
  <2>1. /\ pc = "finish" /\ pc' = "run" /\ request' = NoRequest
        /\ UNCHANGED <<roots, refs, interns, kind, next, objects, isMarked, gray>>
    BY <1>5 DEF FinishGrow, mutVars, gcVars
  <2>2. Reachable' = Reachable /\ Roots' = Roots /\ allocated' = allocated
        /\ marked' = marked
    BY <2>1, ReachableSame DEF allocated, marked
  <2>3. RequestLive'
    BY <2>1 DEF RequestLive, Held, NoRequest
  <2>4. WellPlaced' /\ HeapClosed'
    BY <2>1, <2>2 DEF IInv, Inv, WellPlaced, HeapClosed, Closed, ClosedIn, PointsAt
  <2>5. NoMarks' /\ Tracing' /\ NoRoots'
    BY <2>1, <2>2 DEF IInv, Inv, NoMarks, Tracing, NoRoots
  <2>6. Ranked(Int)'
    BY <2>1, RankedSame DEF IInv, Inv
  <2>7. QED BY <1>1, <2>3, <2>4, <2>5, <2>6 DEF IInv, Inv
<1>6. ASSUME NEW s \in Reachable, Coerce(s) PROVE IInv'
  <2> DEFINE req == [op |-> "new", kind |-> "string", obj |-> NULL, refs |-> {}]
  <2>1. Reallocate(req)
    BY <1>6 DEF Coerce, IInv, Inv
  <2>2. req # NoRequest /\ req.refs = {} /\ req.obj = NULL
    BY DEF NoRequest
  <2> HIDE DEF req
  <2>3. QED BY <1>1, <2>1, <2>2, ReallocateIInv
<1>7. QED BY <1>2, <1>3, <1>4, <1>5, <1>6 DEF Allocate

LEMMA MarkRootsIInv ==
  ASSUME IInv, TypeOK', MarkRoots
  PROVE  IInv'
<1> USE DEF mutVars, listVars
<1>1. /\ pc = "mark" /\ pc' = "trace"
      /\ UNCHANGED <<roots, refs, interns, kind, next, objects, request>>
  BY DEF MarkRoots
<1>2. /\ Reachable' = Reachable /\ Roots' = Roots /\ allocated' = allocated
  BY <1>1, ReachableSame DEF allocated
<1>3. TypeOK /\ WellPlaced /\ marked = {} /\ Roots \subseteq Reachable
  BY <1>1, ReachableClosed DEF IInv, Inv, NoMarks
<1>4. {r[2] : r \in {x \in roots : x[1] \in MarkedRoots}} = Roots
  <2>1. \A x \in roots : x[1] \in MarkedRoots
    BY <1>3 DEF WellPlaced, MarkedRoots, RootNames, RootHolds
  <2>2. QED BY <2>1 DEF Roots
<1>5. marked' = Roots /\ gray' = Roots
  <2>1. isMarked' = [o \in Obj |-> isMarked[o] \/ o \in Roots] /\ gray' = White(Roots)
    BY <1>4 DEF MarkRoots, Mark
  <2>2. Roots \subseteq Obj /\ \A o \in Obj : ~isMarked[o]
    BY <1>3, ReachableTyped DEF marked
  <2>3. QED BY <2>1, <2>2 DEF marked, White
<1>6. RequestLive' /\ NoRoots'
  BY <1>1, <1>2 DEF IInv, Inv, RequestLive, NoRoots, Held, NoRequest
<1>7. WellPlaced' /\ HeapClosed' /\ NoMarks'
  BY <1>1, <1>2 DEF IInv, Inv, WellPlaced, HeapClosed, NoMarks, Closed, ClosedIn, PointsAt
<1>8. Tracing'
  BY <1>2, <1>3, <1>5 DEF Tracing
<1>9. Ranked(Int)'
  BY <1>1, RankedSame DEF IInv, Inv
<1>10. QED BY <1>6, <1>7, <1>8, <1>9 DEF IInv, Inv

LEMMA BlackenIInv ==
  ASSUME IInv, TypeOK', NEW o \in Obj, BlackenObject(o)
  PROVE  IInv'
<1> USE DEF mutVars, listVars
<1>1. /\ pc = "trace" /\ pc' = "trace" /\ o \in gray
      /\ UNCHANGED <<roots, refs, interns, kind, next, objects, request>>
  BY DEF BlackenObject
<1>2. /\ Reachable' = Reachable /\ Roots' = Roots /\ allocated' = allocated
  BY <1>1, ReachableSame DEF allocated
<1>3. /\ TypeOK /\ WellPlaced
      /\ gray \subseteq marked /\ marked \subseteq Reachable /\ Roots \subseteq marked
      /\ \A x \in marked \ gray : Children(x) \subseteq marked
  BY <1>1 DEF IInv, Inv, Tracing
<1>4. Reachable \subseteq allocated
  BY <1>1, ReachableAllocated DEF IInv, Inv
<1>5. {p[2] : p \in {x \in refs[o] : x[1] \in Traced[kind[o]]}} = Children(o)
  <2>1. o \in allocated /\ kind[o] \in AllKinds
    BY <1>1, <1>3, <1>4 DEF allocated, TypeOK
  <2>2. \A k \in AllKinds : Traced[k] = Fields[k]
    BY DEF Traced, Fields, AllKinds
  <2>3. \A x \in refs[o] : x[1] \in Traced[kind[o]]
    BY <1>3, <2>1, <2>2 DEF WellPlaced
  <2>4. QED BY <2>3 DEF Children, PointsAt
<1>6. Children(o) \subseteq Reachable
  BY <1>1, <1>3, ReachableClosed DEF Closed, ClosedIn, Children
<1>7. marked' = marked \cup Children(o) /\ gray' = (gray \ {o}) \cup (Children(o) \ marked)
  <2>1. /\ isMarked' = [x \in Obj |-> isMarked[x] \/ x \in Children(o)]
        /\ gray' = (gray \ {o}) \cup White(Children(o))
    BY <1>5 DEF BlackenObject, Mark
  <2>2. Children(o) \subseteq Obj
    BY <1>6, ReachableTyped
  <2>3. QED BY <2>1, <2>2 DEF marked, White
<1>8. \A x : Children(x)' = Children(x)
  BY <1>1 DEF Children, PointsAt
<1>9. Tracing'
  <2>1. gray' \subseteq marked' /\ marked' \subseteq Reachable' /\ Roots' \subseteq marked'
    BY <1>2, <1>3, <1>6, <1>7
  <2>2. \A x \in marked' \ gray' : Children(x) \subseteq marked'
    BY <1>3, <1>7
  <2>3. QED BY <2>1, <2>2, <1>8 DEF Tracing
<1>10. RequestLive' /\ NoRoots'
  BY <1>1, <1>2 DEF IInv, Inv, RequestLive, NoRoots, Held, NoRequest
<1>11. WellPlaced' /\ HeapClosed' /\ NoMarks'
  BY <1>1, <1>2 DEF IInv, Inv, WellPlaced, HeapClosed, NoMarks, Closed, ClosedIn, PointsAt
<1>12. Ranked(Int)'
  BY <1>1, RankedSame DEF IInv, Inv
<1>13. QED BY <1>9, <1>10, <1>11, <1>12 DEF IInv, Inv

\* The trace has ended: what is marked is exactly what is in reach.
LEMMA MarkedReachable ==
  ASSUME TypeOK, Tracing, pc = "trace", gray = {}
  PROVE  marked = Reachable
<1>1. marked \in SUBSET Obj /\ Roots \subseteq marked
  BY DEF marked, Tracing
<1>2. ClosedIn(marked, refs)
  BY DEF Tracing, ClosedIn, Children
<1>3. QED BY <1>1, <1>2, ReachLeast DEF Reachable, Tracing

LEMMA RemoveWhiteIInv ==
  ASSUME IInv, TypeOK', RemoveWhite
  PROVE  IInv'
<1> USE DEF listVars
<1>1. /\ pc = "trace" /\ pc' = "sweep" /\ gray = {} /\ gray' = {}
      /\ object' = objects /\ previous' = NULL
      /\ UNCHANGED <<roots, refs, kind, next, objects, isMarked, request>>
  BY DEF RemoveWhite
<1>2. /\ Reachable' = Reachable /\ Roots' = Roots /\ allocated' = allocated
      /\ marked' = marked
  BY <1>1, ReachableSame DEF allocated, marked
<1>3. TypeOK /\ Reachable \subseteq allocated /\ marked = Reachable
  BY <1>1, ReachableAllocated, MarkedReachable DEF IInv, Inv
<1>4. interns' \subseteq Reachable
  BY <1>3 DEF IInv, Inv, RemoveWhite, marked, TypeOK
<1>5. PICK rank \in [Obj -> Int] : Ordered(rank, objects)
  BY <1>1 DEF IInv, Inv, Ranked
<1>6. Ordered(rank, objects)'
  BY <1>1, <1>5 DEF Ordered, allocated
<1>7. Sweeping(rank)'
  <2>1. object' # NULL => object' \in allocated /\ \A x \in allocated : ~(rank[object'] < rank[x])
    BY <1>1, <1>5 DEF Ordered, allocated
  <2>2. object' = NULL => allocated = {}
    BY <1>1, <1>5 DEF Ordered
  <2>3. \A x \in allocated : isMarked'[x] <=> x \in Reachable
    BY <1>1, <1>3 DEF marked, allocated
  <2>4. QED BY <1>1, <1>2, <1>3, <1>4, <2>1, <2>2, <2>3 DEF Sweeping
<1>8. Ranked(Int)'
  BY <1>1, <1>6, <1>7 DEF Ranked
<1>9. RequestLive'
  BY <1>1, <1>2 DEF IInv, Inv, RequestLive, Held, NoRequest
<1>10. WellPlaced' /\ HeapClosed' /\ NoMarks' /\ Tracing' /\ NoRoots'
  BY <1>1, <1>2 DEF IInv, Inv, WellPlaced, HeapClosed, NoMarks, Tracing, NoRoots
<1>11. QED BY <1>8, <1>9, <1>10 DEF IInv, Inv

-----------------------------------------------------------------------------
(* Sweeping *)

\* The object sweep looks at, seen from the order of the list: what is behind
\* the next one is what was behind this one, and this one.
LEMMA NextBehind ==
  ASSUME NEW rank \in [Obj -> Int], Ordered(rank, objects), object \in allocated,
         NEW x \in allocated
  PROVE  (next[object] = NULL \/ rank[next[object]] < rank[x])
           <=> (rank[object] < rank[x] \/ x = object)
<1>1. /\ \A y \in allocated : rank[y] \in Int
      /\ rank[x] = rank[object] => x = object
      /\ IF next[object] = NULL THEN \A y \in allocated : rank[object] <= rank[y]
         ELSE /\ next[object] \in allocated
              /\ rank[next[object]] < rank[object]
              /\ \A y \in allocated : rank[y] < rank[object] => rank[y] <= rank[next[object]]
  BY DEF Ordered, allocated
<1>2. QED BY <1>1

LEMMA SweepMarkedIInv ==
  ASSUME IInv, TypeOK', SweepMarked
  PROVE  IInv'
<1> USE DEF mutVars, listVars
<1>1. /\ pc = "sweep" /\ pc' = "sweep" /\ object # NULL /\ isMarked[object]
      /\ isMarked' = [isMarked EXCEPT ![object] = FALSE]
      /\ previous' = object /\ object' = next[object] /\ gray' = gray
      /\ UNCHANGED <<roots, refs, interns, kind, next, objects, request>>
  BY DEF SweepMarked
<1>2. /\ Reachable' = Reachable /\ allocated' = allocated /\ TypeOK
  BY <1>1, ReachableSame DEF allocated, IInv, Inv
<1>3. PICK rank \in [Obj -> Int] : Ordered(rank, objects) /\ Sweeping(rank)
  BY <1>1 DEF IInv, Inv, Ranked
<1>4. Ordered(rank, objects)'
  BY <1>1, <1>3 DEF Ordered, allocated
<1>5. object \in allocated /\ allocated \subseteq Obj /\ object \in Obj
  BY <1>1, <1>3 DEF Sweeping, allocated
<1>6. object' # NULL => object' \in allocated /\ rank[object'] < rank[object]
  BY <1>1, <1>3, <1>5 DEF Ordered
<1>7. ASSUME NEW x \in allocated
      PROVE IF object' = NULL \/ rank[object'] < rank[x]
            THEN ~isMarked'[x] /\ x \in Reachable
            ELSE isMarked'[x] <=> x \in Reachable
  <2>1. (object' = NULL \/ rank[object'] < rank[x])
           <=> (rank[object] < rank[x] \/ x = object)
    BY <1>1, <1>3, <1>5, NextBehind
  <2>2. IF rank[object] < rank[x] THEN ~isMarked[x] /\ x \in Reachable
        ELSE isMarked[x] <=> x \in Reachable
    BY <1>1, <1>3 DEF Sweeping
  <2>3. CASE x = object
    <3>1. ~(rank[object] < rank[object])
      BY <1>5
    <3>2. ~isMarked'[x]
      BY <1>1, <1>2, <1>5, <2>3 DEF TypeOK
    <3>3. QED BY <1>1, <2>1, <2>2, <2>3, <3>1, <3>2
  <2>4. CASE x # object
    <3>1. isMarked'[x] = isMarked[x]
      BY <1>1, <1>2, <1>5, <2>4 DEF TypeOK
    <3>2. QED BY <2>1, <2>2, <2>4, <3>1
  <2>5. QED BY <2>3, <2>4
<1>8. marked' \subseteq allocated
  BY <1>1, <1>2, <1>3 DEF Sweeping, marked, TypeOK
<1>9. Sweeping(rank)'
  BY <1>1, <1>2, <1>3, <1>5, <1>6, <1>7, <1>8 DEF Sweeping
<1>10. Ranked(Int)'
  BY <1>1, <1>4, <1>9 DEF Ranked
<1>11. RequestLive'
  BY <1>1, <1>2 DEF IInv, Inv, RequestLive, Held, NoRequest
<1>12. WellPlaced' /\ HeapClosed' /\ NoMarks' /\ Tracing' /\ NoRoots'
  BY <1>1, <1>2 DEF IInv, Inv, WellPlaced, HeapClosed, NoMarks, Tracing, NoRoots
<1>13. QED BY <1>10, <1>11, <1>12 DEF IInv, Inv

\* Unlinking the object at the front of what is left keeps the order.
LEMMA UnlinkOrdered ==
  ASSUME TypeOK, NEW rank \in [Obj -> Int], Ordered(rank, objects), Sweeping(rank),
         object # NULL, Unlink(object), allocated' = allocated \ {object}
  PROVE  Ordered(rank, objects)'
<1>1. /\ object \in allocated /\ allocated \subseteq Obj
      /\ \A x \in allocated : rank[x] \in Int
  BY DEF Sweeping, allocated
<1>2. \A x \in allocated : IF next[x] = NULL THEN \A y \in allocated : rank[x] <= rank[y]
       ELSE /\ next[x] \in allocated
            /\ rank[next[x]] < rank[x]
            /\ \A y \in allocated : rank[y] < rank[x] => rank[y] <= rank[next[x]]
  BY DEF Ordered
<1>3. \A x, y \in allocated : rank[x] = rank[y] => x = y
  BY DEF Ordered
<1>4. /\ objects \in allocated
      /\ \A x \in allocated : rank[x] <= rank[objects]
  BY <1>1 DEF Ordered
<1>5. \A x \in allocated : x # object /\ x # previous => next'[x] = next[x] /\ next[x] # object
  <2>1. SUFFICES ASSUME NEW x \in allocated, x # object, x # previous
                 PROVE  next'[x] = next[x] /\ next[x] # object
    OBVIOUS
  <2>2. next'[x] = next[x]
    BY <1>1, <2>1 DEF Unlink
  <2>3. ASSUME next[x] = object PROVE FALSE
    <3>1. /\ rank[object] < rank[x]
          /\ \A y \in allocated : rank[y] < rank[x] => rank[y] <= rank[object]
      BY <1>1, <1>2, <2>1, <2>3 DEF Sweeping
    <3>2. CASE previous = NULL
      BY <1>1, <1>4, <2>1, <3>1, <3>2 DEF Sweeping
    <3>3. CASE previous # NULL
      <4>1. /\ previous \in allocated /\ rank[object] < rank[previous]
            /\ next[previous] = object
        BY <3>3 DEF Sweeping
      <4>2. \A y \in allocated : rank[y] < rank[previous] => rank[y] <= rank[object]
        BY <1>2, <4>1
      <4>3. rank[x] # rank[previous]
        BY <1>3, <2>1, <4>1
      <4>4. QED BY <1>1, <2>1, <3>1, <4>1, <4>2, <4>3
    <3>4. QED BY <3>2, <3>3
  <2>4. QED BY <2>2, <2>3
<1>6. ASSUME NEW x \in allocated', x # previous
      PROVE IF next'[x] = NULL THEN \A y \in allocated' : rank[x] <= rank[y]
            ELSE /\ next'[x] \in allocated'
                 /\ rank[next'[x]] < rank[x]
                 /\ \A y \in allocated' : rank[y] < rank[x] => rank[y] <= rank[next'[x]]
  BY <1>2, <1>5, <1>6
<1>7. /\ next[object] # NULL => next[object] \in allocated' /\ rank[next[object]] < rank[object]
      /\ \A y \in allocated' : rank[y] < rank[object]
                              => next[object] # NULL /\ rank[y] <= rank[next[object]]
  BY <1>1, <1>2
<1>8. ASSUME previous # NULL, previous \in allocated'
      PROVE IF next'[previous] = NULL THEN \A y \in allocated' : rank[previous] <= rank[y]
            ELSE /\ next'[previous] \in allocated'
                 /\ rank[next'[previous]] < rank[previous]
                 /\ \A y \in allocated' : rank[y] < rank[previous]
                                            => rank[y] <= rank[next'[previous]]
  <2>1. /\ previous \in allocated /\ rank[object] < rank[previous]
        /\ next[previous] = object /\ previous # object
    BY <1>1, <1>8 DEF Sweeping
  <2>2. next'[previous] = next[object]
    BY <1>1, <2>1 DEF Unlink
  <2>3. \A y \in allocated : rank[y] < rank[previous] => rank[y] <= rank[object]
    BY <1>2, <2>1
  <2>4. \A y \in allocated' : rank[y] < rank[previous] => rank[y] < rank[object]
    <3>1. SUFFICES ASSUME NEW y \in allocated', rank[y] < rank[previous]
                   PROVE  rank[y] < rank[object]
      OBVIOUS
    <3>2. rank[y] <= rank[object] /\ rank[y] # rank[object]
      BY <1>1, <1>3, <2>3, <3>1
    <3>3. QED BY <1>1, <3>1, <3>2
  <2>5. CASE next[object] = NULL
    <3>1. \A y \in allocated' : ~(rank[y] < rank[previous])
      BY <1>7, <2>4, <2>5
    <3>2. QED BY <1>1, <2>1, <2>2, <2>5, <3>1
  <2>6. CASE next[object] # NULL
    <3>1. next[object] \in allocated' /\ rank[next[object]] < rank[object]
      BY <1>7, <2>6
    <3>2. rank[next[object]] < rank[previous]
      BY <1>1, <2>1, <3>1
    <3>3. QED BY <1>7, <2>2, <2>4, <2>6, <3>1, <3>2
  <2>7. QED BY <2>5, <2>6
<1>9. IF objects' = NULL THEN allocated' = {}
      ELSE objects' \in allocated' /\ \A x \in allocated' : rank[x] <= rank[objects']
  <2>1. CASE previous = NULL
    <3>1. objects = object /\ objects' = next[object]
      BY <2>1 DEF Sweeping, Unlink
    <3>2. \A x \in allocated' : rank[x] < rank[object]
      <4>1. SUFFICES ASSUME NEW x \in allocated' PROVE rank[x] < rank[object]
        OBVIOUS
      <4>2. rank[x] <= rank[object] /\ rank[x] # rank[object]
        BY <1>1, <1>3, <1>4, <3>1
      <4>3. QED BY <1>1, <4>2
    <3>3. QED BY <1>7, <3>1, <3>2
  <2>2. CASE previous # NULL
    <3>1. objects' = objects /\ previous \in allocated /\ rank[object] < rank[previous]
      BY <2>2 DEF Sweeping, Unlink
    <3>2. objects # object
      BY <1>1, <1>4, <3>1
    <3>3. QED BY <1>4, <3>1, <3>2, CollectorAssumption DEF allocated
  <2>3. QED BY <2>1, <2>2
<1>10. NULL \notin allocated'
  BY <1>1, CollectorAssumption
<1>11. ASSUME NEW x \in allocated'
       PROVE IF next'[x] = NULL THEN \A y \in allocated' : rank[x] <= rank[y]
             ELSE /\ next'[x] \in allocated'
                  /\ rank[next'[x]] < rank[x]
                  /\ \A y \in allocated' : rank[y] < rank[x] => rank[y] <= rank[next'[x]]
  <2>1. CASE x = previous
    <3>1. previous # NULL
      BY <1>10, <2>1
    <3>2. QED BY <1>8, <2>1, <3>1
  <2>2. CASE x # previous
    BY <1>6, <2>2
  <2>3. QED BY <2>1, <2>2
<1>12. \A x, y \in allocated' : rank[x] = rank[y] => x = y
  BY <1>3
<1>13. QED BY <1>9, <1>11, <1>12 DEF Ordered

\* What is freed is out of reach, so it changes nothing about what is in reach.
LEMMA FreeUnreached ==
  ASSUME TypeOK, NEW o \in Obj, o \notin Reachable,
         refs' = [refs EXCEPT ![o] = {}], roots' = roots
  PROVE  Reachable' = Reachable
<1>1. Roots \in SUBSET Obj /\ Roots' = Roots
  BY DEF Roots, TypeOK
<1>2. refs \in [Obj -> SUBSET Pointers] /\ refs' \in [Obj -> SUBSET Pointers]
  BY DEF TypeOK
<1>3. \A x \in ReachFrom(Roots, refs) : refs'[x] = refs[x]
  BY <1>2 DEF Reachable, ReachFrom
<1>4. ReachFrom(Roots, refs') = ReachFrom(Roots, refs)
  BY <1>1, <1>2, <1>3, ReachSame
<1>5. QED BY <1>1, <1>4 DEF Reachable

LEMMA SweepUnreachedIInv ==
  ASSUME IInv, TypeOK', SweepUnreached
  PROVE  IInv'
<1>1. /\ pc = "sweep" /\ pc' = "sweep" /\ object # NULL /\ ~isMarked[object]
      /\ object' = next[object] /\ previous' = previous /\ gray' = gray
      /\ isMarked' = isMarked /\ kind' = [kind EXCEPT ![object] = "free"]
      /\ refs' = [refs EXCEPT ![object] = {}]
      /\ UNCHANGED <<roots, interns, request>>
      /\ Unlink(object)
  BY DEF SweepUnreached, FreeObject
<1>2. TypeOK /\ WellPlaced /\ RequestLive
  BY DEF IInv, Inv
<1>3. PICK rank \in [Obj -> Int] : Ordered(rank, objects) /\ Sweeping(rank)
  BY <1>1 DEF IInv, Inv, Ranked
<1>4. /\ object \in allocated /\ allocated \subseteq Obj /\ object \in Obj
      /\ Reachable \subseteq allocated
      /\ \A x \in allocated : rank[x] \in Int
  BY <1>1, <1>3 DEF Sweeping, allocated
<1>5. object \notin Reachable
  <2>1. ~(rank[object] < rank[object])
    BY <1>4
  <2>2. QED BY <1>1, <1>3, <1>4, <2>1 DEF Sweeping
<1>6. Reachable' = Reachable
  BY <1>1, <1>2, <1>4, <1>5, FreeUnreached
<1>7. allocated' = allocated \ {object}
  BY <1>1, <1>2, <1>4 DEF TypeOK, allocated
<1>8. Ordered(rank, objects)'
  BY <1>1, <1>2, <1>3, <1>7, UnlinkOrdered
<1>9. Sweeping(rank)'
  <2>1. object' # NULL => object' \in allocated' /\ rank[object'] < rank[object]
    BY <1>1, <1>3, <1>4, <1>7 DEF Ordered
  <2>2. \A x \in allocated' : (object' = NULL \/ rank[object'] < rank[x])
                                <=> rank[object] < rank[x]
    BY <1>1, <1>3, <1>4, <1>7, NextBehind
  <2>3. \A x \in allocated' : IF object' = NULL \/ rank[object'] < rank[x]
                              THEN ~isMarked'[x] /\ x \in Reachable'
                              ELSE isMarked'[x] <=> x \in Reachable'
    BY <1>1, <1>3, <1>6, <1>7, <2>2 DEF Sweeping
  <2>4. IF previous' = NULL THEN object' = objects'
        ELSE /\ previous' \in allocated'
             /\ object' = NULL \/ rank[object'] < rank[previous']
             /\ next'[previous'] = object'
    <3>1. CASE previous = NULL
      BY <1>1, <3>1 DEF Unlink
    <3>2. CASE previous # NULL
      <4>1. previous \in allocated /\ rank[object] < rank[previous]
        BY <1>1, <1>3, <3>2 DEF Sweeping
      <4>2. previous # object
        BY <1>4, <4>1
      <4>3. next'[previous] = next[object]
        BY <1>1, <1>4, <4>1, <4>2 DEF Unlink
      <4>4. QED BY <1>1, <1>7, <2>2, <3>2, <4>1, <4>2, <4>3
    <3>3. QED BY <3>1, <3>2
  <2>5. marked' \subseteq allocated'
    BY <1>1, <1>3, <1>7 DEF Sweeping, marked
  <2>6. Reachable' \subseteq allocated' /\ interns' \subseteq Reachable' /\ gray' = {}
    BY <1>1, <1>3, <1>4, <1>5, <1>6, <1>7 DEF Sweeping
  <2>7. QED BY <2>1, <2>3, <2>4, <2>5, <2>6 DEF Sweeping
<1>10. Ranked(Int)'
  BY <1>1, <1>8, <1>9 DEF Ranked
<1>11. RequestLive'
  BY <1>1, <1>2, <1>6 DEF RequestLive, Held, NoRequest
<1>12. WellPlaced'
  <2>1. \A x \in allocated' : refs'[x] = refs[x] /\ kind'[x] = kind[x]
    BY <1>1, <1>2, <1>4, <1>7 DEF TypeOK
  <2>2. QED BY <1>1, <1>2, <1>7, <2>1 DEF WellPlaced
<1>13. HeapClosed' /\ NoMarks' /\ Tracing' /\ NoRoots'
  BY <1>1 DEF HeapClosed, NoMarks, Tracing, NoRoots
<1>14. QED BY <1>10, <1>11, <1>12, <1>13 DEF IInv, Inv

LEMMA SweepDoneIInv ==
  ASSUME IInv, TypeOK', SweepDone
  PROVE  IInv'
<1> USE DEF mutVars, listVars, gcVars
<1>1. /\ pc = "sweep" /\ pc' = "finish" /\ object = NULL
      /\ UNCHANGED <<roots, refs, interns, kind, next, objects, isMarked, gray, request>>
  BY DEF SweepDone
<1>2. /\ Reachable' = Reachable /\ Roots' = Roots /\ allocated' = allocated
      /\ marked' = marked /\ TypeOK
  BY <1>1, ReachableSame DEF allocated, marked, IInv, Inv
<1>3. PICK rank \in [Obj -> Int] : Ordered(rank, objects) /\ Sweeping(rank)
  BY <1>1 DEF IInv, Inv, Ranked
<1>4. /\ allocated = Reachable /\ marked = {} /\ gray = {}
      /\ interns \subseteq allocated
  BY <1>1, <1>3 DEF Sweeping, marked
<1>5. HeapClosed'
  BY <1>1, <1>2, <1>4, ReachableClosed DEF HeapClosed, Closed, ClosedIn, PointsAt
<1>6. NoMarks' /\ Tracing' /\ NoRoots'
  BY <1>1, <1>2, <1>4 DEF NoMarks, Tracing, NoRoots
<1>7. RequestLive' /\ WellPlaced'
  BY <1>1, <1>2 DEF IInv, Inv, RequestLive, WellPlaced, Held, NoRequest
<1>8. Ranked(Int)'
  BY <1>1, RankedSame DEF IInv, Inv
<1>9. QED BY <1>5, <1>6, <1>7, <1>8 DEF IInv, Inv

LEMMA FreeVMIInv ==
  ASSUME IInv, TypeOK', FreeVM
  PROVE  IInv'
<1> USE DEF listVars
<1>1. /\ pc = "run" /\ pc' = "freeing" /\ roots' = {} /\ interns' = {}
      /\ object' = objects /\ UNCHANGED <<refs, next, kind, request>>
  BY DEF FreeVM
<1>2. RequestLive' /\ WellPlaced' /\ NoRoots'
  BY <1>1 DEF IInv, Inv, RequestLive, WellPlaced, NoRoots, Held, NoRequest, allocated
<1>3. HeapClosed' /\ NoMarks' /\ Tracing'
  BY <1>1 DEF HeapClosed, NoMarks, Tracing
<1>4. PICK rank \in [Obj -> Int] : Ordered(rank, objects)
  BY <1>1 DEF IInv, Inv, Ranked
<1>5. Ordered(rank, object)'
  BY <1>1, <1>4 DEF Ordered, allocated
<1>6. Ranked(Int)'
  BY <1>1, <1>5 DEF Ranked
<1>7. QED BY <1>2, <1>3, <1>6 DEF IInv, Inv

LEMMA FreeNextIInv ==
  ASSUME IInv, TypeOK', FreeNext
  PROVE  IInv'
<1>1. /\ pc = "freeing" /\ pc' = "freeing" /\ object # NULL
      /\ object' = next[object] /\ next' = [next EXCEPT ![object] = NULL]
      /\ kind' = [kind EXCEPT ![object] = "free"]
      /\ refs' = [refs EXCEPT ![object] = {}]
      /\ UNCHANGED <<roots, interns, request>>
  BY DEF FreeNext, FreeObject
<1>2. TypeOK /\ WellPlaced /\ NoRoots /\ RequestLive
  BY DEF IInv, Inv
<1>3. object \in Obj
  BY <1>1, <1>2 DEF TypeOK
<1>4. allocated' = allocated \ {object}
  BY <1>1, <1>2, <1>3 DEF TypeOK, allocated
<1>5. PICK rank \in [Obj -> Int] : Ordered(rank, object)
  BY <1>1 DEF IInv, Inv, Ranked
<1>6. /\ object \in allocated /\ \A x \in allocated : rank[x] <= rank[object]
      /\ \A x \in allocated : rank[x] \in Int
  BY <1>1, <1>5 DEF Ordered, allocated
<1>7. \A x, y \in allocated : rank[x] = rank[y] => x = y
  BY <1>5 DEF Ordered
<1>8. \A x \in allocated : IF next[x] = NULL THEN \A y \in allocated : rank[x] <= rank[y]
       ELSE /\ next[x] \in allocated
            /\ rank[next[x]] < rank[x]
            /\ \A y \in allocated : rank[y] < rank[x] => rank[y] <= rank[next[x]]
  BY <1>5 DEF Ordered
<1>9. \A x \in allocated' : rank[x] < rank[object]
  <2>1. SUFFICES ASSUME NEW x \in allocated' PROVE rank[x] < rank[object]
    OBVIOUS
  <2>2. rank[x] <= rank[object] /\ rank[x] # rank[object]
    BY <1>4, <1>6, <1>7
  <2>3. QED BY <1>4, <1>6, <2>2
<1>10. IF object' = NULL THEN allocated' = {}
       ELSE object' \in allocated' /\ \A x \in allocated' : rank[x] <= rank[object']
  <2>1. CASE next[object] = NULL
    <3>1. \A y \in allocated : rank[object] <= rank[y]
      BY <1>6, <1>8, <2>1
    <3>2. ASSUME NEW y \in allocated' PROVE FALSE
      BY <1>4, <1>6, <1>9, <3>1, <3>2
    <3>3. QED BY <1>1, <2>1, <3>2
  <2>2. CASE next[object] # NULL
    <3>1. /\ next[object] \in allocated /\ rank[next[object]] < rank[object]
          /\ \A y \in allocated : rank[y] < rank[object] => rank[y] <= rank[next[object]]
      BY <1>6, <1>8, <2>2
    <3>2. next[object] # object
      BY <1>6, <3>1
    <3>3. QED BY <1>1, <1>4, <1>9, <2>2, <3>1, <3>2
  <2>3. QED BY <2>1, <2>2
<1>11. ASSUME NEW x \in allocated'
       PROVE IF next'[x] = NULL THEN \A y \in allocated' : rank[x] <= rank[y]
             ELSE /\ next'[x] \in allocated'
                  /\ rank[next'[x]] < rank[x]
                  /\ \A y \in allocated' : rank[y] < rank[x] => rank[y] <= rank[next'[x]]
  <2>1. x \in allocated /\ x # object /\ next'[x] = next[x]
    BY <1>1, <1>2, <1>4, <1>11 DEF TypeOK, allocated
  <2>2. next[x] # object
    <3>1. SUFFICES ASSUME next[x] = object PROVE FALSE
      OBVIOUS
    <3>2. rank[object] < rank[x]
      BY <1>6, <1>8, <2>1, <3>1, CollectorAssumption DEF allocated
    <3>3. QED BY <1>6, <2>1, <3>2
  <2>3. QED BY <1>4, <1>8, <2>1, <2>2
<1>12. Ordered(rank, object)'
  BY <1>4, <1>7, <1>10, <1>11 DEF Ordered
<1>13. Ranked(Int)'
  BY <1>1, <1>12 DEF Ranked
<1>14. RequestLive' /\ NoRoots'
  BY <1>1, <1>2 DEF RequestLive, NoRoots, Held, NoRequest
<1>15. WellPlaced'
  <2>1. \A x \in allocated' : refs'[x] = refs[x] /\ kind'[x] = kind[x]
    BY <1>1, <1>2, <1>3, <1>4 DEF TypeOK, allocated
  <2>2. QED BY <1>1, <1>2, <1>4, <2>1 DEF WellPlaced
<1>16. HeapClosed' /\ NoMarks' /\ Tracing'
  BY <1>1 DEF HeapClosed, NoMarks, Tracing
<1>17. QED BY <1>13, <1>14, <1>15, <1>16 DEF IInv, Inv

LEMMA FreeDoneIInv ==
  ASSUME IInv, TypeOK', FreeDone
  PROVE  IInv'
<1> USE DEF mutVars, listVars
<1>1. /\ pc = "freeing" /\ pc' = "freed" /\ object = NULL
      /\ UNCHANGED <<roots, interns, refs, kind, object, request>>
  BY DEF FreeDone, gcVars
<1>2. PICK rank \in [Obj -> Int] : Ordered(rank, object)
  BY <1>1 DEF IInv, Inv, Ranked
<1>3. allocated = {} /\ allocated' = {}
  BY <1>1, <1>2 DEF Ordered, allocated
<1>4. RequestLive' /\ WellPlaced' /\ NoRoots'
  BY <1>1, <1>3 DEF IInv, Inv, RequestLive, WellPlaced, NoRoots, Held, NoRequest
<1>5. HeapClosed' /\ NoMarks' /\ Tracing' /\ Ranked(Int)'
  BY <1>1, <1>2 DEF HeapClosed, NoMarks, Tracing, Ranked
<1>6. QED BY <1>4, <1>5 DEF IInv, Inv

LEMMA FreeIInv == IInv /\ (FreeVM \/ FreeNext \/ FreeDone) => IInv'
BY FreeTypeOK, FreeVMIInv, FreeNextIInv, FreeDoneIInv DEF IInv, Inv

LEMMA StutterIInv == IInv /\ UNCHANGED vars => IInv'
<1> SUFFICES ASSUME IInv, UNCHANGED vars PROVE IInv'
  OBVIOUS
<1>1. /\ UNCHANGED <<roots, refs, interns, next, objects, kind, isMarked, gray>>
      /\ UNCHANGED <<object, previous, pc, request>>
  BY DEF vars, mutVars, listVars, gcVars
<1>2. TypeOK /\ TypeOK'
  BY NextTypeOK DEF IInv, Inv
<1>3. /\ Reachable' = Reachable /\ Roots' = Roots /\ allocated' = allocated
      /\ marked' = marked /\ Held' = Held
  BY <1>1, ReachableSame DEF allocated, marked, Held
<1>4. RequestLive' /\ WellPlaced' /\ NoMarks' /\ NoRoots'
  BY <1>1, <1>3 DEF IInv, Inv, RequestLive, WellPlaced, NoMarks, NoRoots, NoRequest
<1>5. HeapClosed' /\ Tracing'
  BY <1>1, <1>3 DEF IInv, Inv, HeapClosed, Tracing, Closed, ClosedIn, PointsAt, Children
<1>6. Ranked(Int)'
  <2>1. PICK rank \in [Obj -> Int] :
          /\ pc \notin {"freeing", "freed"} => Ordered(rank, objects)
          /\ pc = "freeing" => Ordered(rank, object)
          /\ pc = "sweep" => Sweeping(rank)
    BY DEF IInv, Inv, Ranked
  <2>2. pc' \notin {"freeing", "freed"} => Ordered(rank, objects)'
    BY <1>1, <1>3, <2>1 DEF Ordered
  <2>3. pc' = "freeing" => Ordered(rank, object)'
    BY <1>1, <1>3, <2>1 DEF Ordered
  <2>4. pc' = "sweep" => Sweeping(rank)'
    BY <1>1, <1>3, <2>1 DEF Sweeping
  <2>5. QED BY <2>2, <2>3, <2>4 DEF Ranked
<1>7. QED BY <1>2, <1>4, <1>5, <1>6 DEF IInv, Inv

LEMMA NextIInv == IInv /\ [Next]_vars => IInv'
<1> SUFFICES ASSUME IInv, [Next]_vars PROVE IInv'
  OBVIOUS
<1>1. CASE Collect
  <2>1. TypeOK'
    BY <1>1, CollectTypeOK DEF IInv, Inv
  <2>2. QED
    BY <1>1, <2>1, MarkRootsIInv, BlackenIInv, RemoveWhiteIInv, SweepMarkedIInv,
       SweepUnreachedIInv, SweepDoneIInv DEF Collect
<1>2. QED BY <1>1, MutatorIInv, AllocateIInv, FreeIInv, StutterIInv DEF Next

-----------------------------------------------------------------------------
(* The theorems *)

\* The assumptions under which everything below holds: no interned string is in
\* the last slot of vm.strings, the one tableRemoveWhite does not look at, and
\* no operand on the left of a string is converted to one.  CollectorLastSlot.cfg
\* and CollectorConversion.cfg show what happens without either.
THEOREM Invariance == LastSlot = {} /\ ~ConvertsLeft => (Spec => []IInv)
<1>1. QED BY InitIInv, NextIInv, PTL DEF Spec

LEMMA IInvNoDangling == IInv => NoDangling
<1> SUFFICES ASSUME IInv PROVE NoDangling
  OBVIOUS
<1>1. TypeOK /\ Held \subseteq Reachable
  BY DEF IInv, Inv, RequestLive
<1>2. Reachable \subseteq allocated
  <2>1. CASE pc \in {"freeing", "freed"}
    <3>1. Roots = {}
      BY <2>1 DEF IInv, Inv, NoRoots, Roots
    <3>2. Reachable \subseteq {}
      BY <3>1, ReachLeast DEF Reachable, ClosedIn
    <3>3. QED BY <3>2
  <2>2. CASE pc = "sweep"
    BY <2>2 DEF IInv, Inv, Ranked, Sweeping
  <2>3. CASE pc \notin {"sweep", "freeing", "freed"}
    BY <1>1, <2>3, ReachableAllocated DEF IInv, Inv
  <2>4. QED BY <2>1, <2>2, <2>3
<1>3. QED BY <1>1, <1>2 DEF NoDangling

\* The collector never frees an object the program can still get to, nor one
\* that the function asking for memory still holds.
THEOREM NeverDangling == LastSlot = {} /\ ~ConvertsLeft => (Spec => []NoDangling)
<1>1. QED BY Invariance, IInvNoDangling, PTL

LEMMA IInvRest == IInv => InternsAllocated /\ MarksClear /\ TriColor
<1> SUFFICES ASSUME IInv PROVE InternsAllocated /\ MarksClear /\ TriColor
  OBVIOUS
<1>1. InternsAllocated
  BY DEF IInv, Inv, HeapClosed, NoRoots, InternsAllocated
<1>2. MarksClear
  BY DEF IInv, Inv, NoMarks, MarksClear, marked, allocated
<1>3. TriColor
  BY DEF IInv, Inv, Tracing, TriColor, marked, allocated
<1>4. QED BY <1>1, <1>2, <1>3

\* vm.strings never answers with a string that has been freed.
THEOREM InternsNeverDangle == LastSlot = {} /\ ~ConvertsLeft => (Spec => []InternsAllocated)
<1>1. QED BY Invariance, IInvRest, PTL

\* Tracing never leaves an object it is done with pointing at an unmarked one.
THEOREM TriColorHolds == LastSlot = {} /\ ~ConvertsLeft => (Spec => []TriColor)
<1>1. QED BY Invariance, IInvRest, PTL

\* Between collections no mark is left.
THEOREM MarksAreClear == LastSlot = {} /\ ~ConvertsLeft => (Spec => []MarksClear)
<1>1. QED BY Invariance, IInvRest, PTL

-----------------------------------------------------------------------------
(* The list of all objects *)

\* A set of naturals that is not empty has a least member.
LEMMA LeastNat ==
  ASSUME NEW T \in SUBSET Nat, T # {}
  PROVE  \E x \in T : \A y \in T : x <= y
<1>1. \E x \in T : \A y \in T : ~ (<<y, x>> \in OpToRel(<, Nat))
  BY WFMin, NatLessThanWellFounded
<1>2. PICK x \in T : \A y \in T : ~ (<<y, x>> \in OpToRel(<, Nat))
  BY <1>1
<1>3. \A y \in T : y \in Nat /\ x \in Nat
  OBVIOUS
<1>4. \A y \in T : ~ (y < x)
  BY <1>2, <1>3 DEF OpToRel
<1> QED BY <1>3, <1>4

\* An order that falls along the list, and skips nothing, means that the list from
\* its head on holds everything: of the members of a list that lacks x, the last one
\* above x would be followed by none.
LEMMA OrderedList ==
  ASSUME TypeOK, NEW rank \in [Obj -> Int], NEW head \in Obj \cup {NULL}, Ordered(rank, head)
  PROVE  ListFrom(head) = allocated
<1>0. NULL \notin Obj /\ allocated \in SUBSET Obj
  BY CollectorAssumption DEF allocated
<1>1. /\ IF head = NULL THEN allocated = {}
         ELSE head \in allocated /\ \A x \in allocated : rank[x] <= rank[head]
      /\ \A x \in allocated :
           IF next[x] = NULL THEN \A y \in allocated : rank[x] <= rank[y]
           ELSE /\ next[x] \in allocated
                /\ rank[next[x]] < rank[x]
                /\ \A y \in allocated : rank[y] < rank[x] => rank[y] <= rank[next[x]]
  BY DEF Ordered
<1>2. ListFrom(head) \subseteq allocated
  <2>1. head \in allocated \cup {NULL} /\ \A y \in allocated : next[y] \in allocated \cup {NULL}
    BY <1>1
  <2>2. QED BY <1>0, <2>1 DEF ListFrom
<1>3. ASSUME NEW x \in allocated, NEW S \in SUBSET Obj, head \in S \cup {NULL},
             \A y \in S : next[y] \in S \cup {NULL}, x \notin S
      PROVE  FALSE
  <2>1. head \in S /\ head \in allocated /\ rank[x] <= rank[head]
    BY <1>1, <1>3
  <2> DEFINE Above == {y \in S \cap allocated : rank[x] <= rank[y]}
             T     == {rank[y] - rank[x] : y \in Above}
  <2>2. T \in SUBSET Nat /\ T # {}
    <3>1. head \in Above
      BY <2>1
    <3>2. ASSUME NEW y \in Above PROVE rank[y] - rank[x] \in Nat
      BY <1>0
    <3>3. QED BY <3>1, <3>2
  <2> HIDE DEF T
  <2>3. PICK d \in T : \A e \in T : d <= e
    BY <2>2, LeastNat
  <2>4. PICK y \in Above : d = rank[y] - rank[x]
    BY <2>3 DEF T
  <2>5. \A z \in Above : rank[y] <= rank[z]
    <3>1. SUFFICES ASSUME NEW z \in Above PROVE rank[y] <= rank[z]
      OBVIOUS
    <3>2. d <= rank[z] - rank[x]
      BY <2>3 DEF T
    <3>3. rank[x] \in Int /\ rank[y] \in Int /\ rank[z] \in Int
      BY <1>0
    <3>4. QED BY <2>4, <3>2, <3>3
  <2>6. y \in S /\ y \in allocated /\ rank[x] <= rank[y] /\ y # x
    BY <1>3
  <2>7. rank[x] \in Int /\ rank[y] \in Int /\ rank[x] # rank[y]
    BY <1>0, <2>6 DEF Ordered
  <2>8. rank[x] < rank[y]
    BY <2>6, <2>7
  <2>9. next[y] # NULL
    BY <1>1, <2>6, <2>7, <2>8
  <2>10. /\ next[y] \in S /\ next[y] \in allocated /\ rank[next[y]] < rank[y]
         /\ rank[x] <= rank[next[y]]
    BY <1>1, <1>3, <2>6, <2>8, <2>9
  <2>11. next[y] \in Above /\ rank[next[y]] \in Int
    BY <1>0, <2>10
  <2>12. QED BY <2>5, <2>7, <2>10, <2>11
<1>4. allocated \subseteq ListFrom(head)
  BY <1>0, <1>3 DEF ListFrom
<1>5. QED BY <1>2, <1>4

LEMMA IInvListIntact == IInv => ListIntact
<1> SUFFICES ASSUME IInv PROVE ListIntact
  OBVIOUS
<1>1. TypeOK /\ NoRoots
  BY DEF IInv, Inv
<1>2. object \in Obj \cup {NULL} /\ objects \in Obj \cup {NULL}
  BY <1>1 DEF TypeOK
<1>3. CASE pc = "freed"
  <2>1. ListFrom(object) \subseteq {}
    BY <1>1, <1>3 DEF NoRoots, ListFrom
  <2>2. QED BY <1>1, <1>3, <2>1 DEF NoRoots, ListIntact
<1>4. CASE pc = "freeing"
  BY <1>1, <1>2, <1>4, OrderedList DEF IInv, Inv, Ranked, ListIntact
<1>5. CASE pc \notin {"freeing", "freed"}
  BY <1>1, <1>2, <1>5, OrderedList DEF IInv, Inv, Ranked, ListIntact
<1>6. QED BY <1>3, <1>4, <1>5

\* The list that sweep and freeObjects walk holds what is allocated and nothing else,
\* also while they unlink from it.
THEOREM ListStaysIntact == LastSlot = {} /\ ~ConvertsLeft => (Spec => []ListIntact)
<1>1. QED BY Invariance, IInvListIntact, PTL

-----------------------------------------------------------------------------
(* Sums over finite sets *)

\* The sum of BytesAccounted, for buffers f and the objects in S.
Total(f, S) == LET Size(o) == 1 + f[o] IN MapThenSumSet(Size, S)

First(S) == CHOOSE x \in S : TRUE

IsTotal(t, f, S) ==
  t = [s \in SUBSET S |-> IF s = {} THEN 0 ELSE 1 + f[First(s)] + t[s \ {First(s)}]]

\* Total is the value that a recursive function over the subsets has at the whole set.
LEMMA TotalIs == \A f, S : Total(f, S) = (CHOOSE t : IsTotal(t, f, S))[S]
BY DEF Total, MapThenSumSet, MapThenFoldSet, IsTotal, First

\* What is claimed of a finite set holds if it does not fail for the smallest.
LEMMA SmallestSet ==
  ASSUME NEW F, F # {}, \A s \in F : IsFiniteSet(s)
  PROVE  \E s \in F : \A r \in F : ~(Cardinality(r) < Cardinality(s))
<1> DEFINE T == {Cardinality(s) : s \in F}
<1>1. T \in SUBSET Nat /\ T # {}
  BY FS_CardinalityType
<1>2. PICK n \in T : \A m \in T : n <= m
  BY <1>1, LeastNat
<1>3. PICK s \in F : n = Cardinality(s)
  BY <1>2
<1>4. \A r \in F : Cardinality(s) <= Cardinality(r) /\ Cardinality(r) \in Nat
  BY <1>2, <1>3, FS_CardinalityType
<1>5. QED BY <1>3, <1>4

\* The member a sum begins with, and that fewer are left after it.
LEMMA FirstIs ==
  ASSUME NEW s, IsFiniteSet(s), s # {}
  PROVE  /\ First(s) \in s
         /\ IsFiniteSet(s \ {First(s)})
         /\ Cardinality(s \ {First(s)}) < Cardinality(s)
<1>1. First(s) \in s
  BY DEF First
<1>2. /\ IsFiniteSet(s \ {First(s)}) /\ Cardinality(s) \in Nat
      /\ Cardinality(s \ {First(s)}) = Cardinality(s) - 1
  BY <1>1, FS_RemoveElement, FS_CardinalityType
<1>3. QED BY <1>1, <1>2

\* That function is determined by its equation.
LEMMA TotalUnique ==
  ASSUME NEW f, NEW S, IsFiniteSet(S), NEW t, IsTotal(t, f, S), NEW u, IsTotal(u, f, S)
  PROVE  t = u
<1> DEFINE F == {s \in SUBSET S : t[s] # u[s]}
<1>1. SUFFICES ASSUME F # {} PROVE FALSE
  BY DEF IsTotal
<1>2. \A s \in F : IsFiniteSet(s)
  BY FS_Subset
<1>3. PICK s \in F : \A r \in F : ~(Cardinality(r) < Cardinality(s))
  <2> HIDE DEF F
  <2>1. QED BY <1>1, <1>2, SmallestSet
<1>4. /\ t[s] = IF s = {} THEN 0 ELSE 1 + f[First(s)] + t[s \ {First(s)}]
      /\ u[s] = IF s = {} THEN 0 ELSE 1 + f[First(s)] + u[s \ {First(s)}]
  BY DEF IsTotal
<1>5. s # {}
  BY <1>4
<1>6. s \ {First(s)} \in SUBSET S /\ s \ {First(s)} \notin F
  BY <1>2, <1>3, <1>5, FirstIs
<1>7. QED BY <1>4, <1>5, <1>6

\* Its restriction to the subsets of a subset satisfies the same equation.
LEMMA TotalPart ==
  ASSUME NEW f, NEW S, NEW t, IsTotal(t, f, S), NEW R \in SUBSET S
  PROVE  IsTotal([s \in SUBSET R |-> t[s]], f, R)
<1>1. \A s \in SUBSET R : /\ t[s] = IF s = {} THEN 0 ELSE 1 + f[First(s)] + t[s \ {First(s)}]
                          /\ s \ {First(s)} \in SUBSET R
  BY DEF IsTotal
<1> QED BY <1>1 DEF IsTotal

\* A finite set has one: a smallest set without one would get it from its subsets.
LEMMA TotalExists ==
  ASSUME NEW f, NEW S, IsFiniteSet(S)
  PROVE  \E t : IsTotal(t, f, S)
<1> DEFINE F == {R \in SUBSET S : ~ \E t : IsTotal(t, f, R)}
<1>1. SUFFICES ASSUME F # {} PROVE FALSE
  OBVIOUS
<1>2. \A R \in F : IsFiniteSet(R)
  BY FS_Subset
<1>3. PICK R \in F : \A r \in F : ~(Cardinality(r) < Cardinality(R))
  <2> HIDE DEF F
  <2>1. QED BY <1>1, <1>2, SmallestSet
<1>4. IsFiniteSet(R) /\ ~ \E t : IsTotal(t, f, R)
  BY <1>2
<1> DEFINE G(q) == CHOOSE t : IsTotal(t, f, q)
           w    == [s \in SUBSET R |-> IF s = {} THEN 0
                                       ELSE 1 + f[First(s)] + G(s \ {First(s)})[s \ {First(s)}]]
<1>5. ASSUME NEW q \in SUBSET R, q # R
      PROVE  IsFiniteSet(q) /\ IsTotal(G(q), f, q)
  <2>1. IsFiniteSet(q) /\ Cardinality(q) < Cardinality(R)
    <3>1. /\ IsFiniteSet(q) /\ Cardinality(q) <= Cardinality(R)
          /\ Cardinality(R) # Cardinality(q)
      BY <1>4, <1>5, FS_Subset
    <3>2. Cardinality(q) \in Nat /\ Cardinality(R) \in Nat
      BY <1>4, <3>1, FS_CardinalityType
    <3>3. QED BY <3>1, <3>2
  <2>2. q \in SUBSET S /\ q \notin F
    BY <1>3, <2>1
  <2>3. QED BY <2>1, <2>2
<1> HIDE DEF G
<1>6. ASSUME NEW r \in SUBSET R, r # R, NEW q \in SUBSET r
      PROVE  G(r)[q] = G(q)[q]
  <2>1. q \in SUBSET R /\ q # R
    BY <1>6
  <2>2. IsTotal([s \in SUBSET q |-> G(r)[s]], f, q)
    BY <1>5, <1>6, TotalPart
  <2>3. [s \in SUBSET q |-> G(r)[s]] = G(q)
    BY <1>5, <2>1, <2>2, TotalUnique
  <2>4. q \in SUBSET q
    OBVIOUS
  <2>5. [s \in SUBSET q |-> G(r)[s]][q] = G(r)[q]
    BY <2>4
  <2>6. QED BY <2>3, <2>5
<1>7. ASSUME NEW r \in SUBSET R, r # R
      PROVE  w[r] = G(r)[r]
  <2>1. G(r)[r] = IF r = {} THEN 0 ELSE 1 + f[First(r)] + G(r)[r \ {First(r)}]
    <3>1. IsTotal(G(r), f, r) /\ r \in SUBSET r
      BY <1>5, <1>7
    <3>2. QED BY <3>1 DEF IsTotal
  <2>2. G(r)[r \ {First(r)}] = G(r \ {First(r)})[r \ {First(r)}]
    BY <1>6, <1>7
  <2>3. QED BY <2>1, <2>2
<1>8. ASSUME NEW s \in SUBSET R, s # {}
      PROVE  w[s] = 1 + f[First(s)] + w[s \ {First(s)}]
  <2>1. s \ {First(s)} \in SUBSET R /\ s \ {First(s)} # R
    BY <1>8 DEF First
  <2>2. w[s \ {First(s)}] = G(s \ {First(s)})[s \ {First(s)}]
    BY <1>7, <2>1
  <2>3. QED BY <1>8, <2>2
<1>9. IsTotal(w, f, R)
  <2>1. w = [s \in SUBSET R |-> w[s]]
    OBVIOUS
  <2>2. \A s \in SUBSET R : w[s] = IF s = {} THEN 0 ELSE 1 + f[First(s)] + w[s \ {First(s)}]
    BY <1>8
  <2> HIDE DEF w
  <2>3. QED BY <2>1, <2>2 DEF IsTotal
<1>10. QED BY <1>4, <1>9

\* So a sum is its first member and the sum of the others.
LEMMA TotalStep ==
  ASSUME NEW f, NEW S, IsFiniteSet(S)
  PROVE  Total(f, S) = IF S = {} THEN 0 ELSE 1 + f[First(S)] + Total(f, S \ {First(S)})
<1> DEFINE G(q) == CHOOSE t : IsTotal(t, f, q)
<1>1. ASSUME NEW q \in SUBSET S PROVE IsFiniteSet(q) /\ IsTotal(G(q), f, q)
  <2>1. IsFiniteSet(q)
    BY FS_Subset
  <2>2. \E t : IsTotal(t, f, q)
    BY <2>1, TotalExists
  <2>3. QED BY <2>1, <2>2
<1>2. \A q : Total(f, q) = G(q)[q]
  BY TotalIs
<1> HIDE DEF G
<1>3. ASSUME NEW q \in SUBSET S PROVE G(S)[q] = G(q)[q]
  <2>2. IsTotal([s \in SUBSET q |-> G(S)[s]], f, q)
    BY <1>1, TotalPart
  <2>3. [s \in SUBSET q |-> G(S)[s]] = G(q)
    BY <1>1, <2>2, TotalUnique
  <2>4. q \in SUBSET q
    OBVIOUS
  <2>5. [s \in SUBSET q |-> G(S)[s]][q] = G(S)[q]
    BY <2>4
  <2>6. QED BY <2>3, <2>5
<1>4. G(S)[S] = IF S = {} THEN 0 ELSE 1 + f[First(S)] + G(S)[S \ {First(S)}]
  <2>1. IsTotal(G(S), f, S) /\ S \in SUBSET S
    BY <1>1
  <2>2. QED BY <2>1 DEF IsTotal
<1>5. QED BY <1>2, <1>3, <1>4

\* A sum of integers is one.
LEMMA TotalInt ==
  ASSUME NEW f \in [Obj -> Int], NEW S \in SUBSET Obj, IsFiniteSet(S)
  PROVE  Total(f, S) \in Int
<1> DEFINE F == {R \in SUBSET S : Total(f, R) \notin Int}
<1>1. SUFFICES ASSUME F # {} PROVE FALSE
  OBVIOUS
<1>2. \A R \in F : IsFiniteSet(R)
  BY FS_Subset
<1>3. PICK R \in F : \A r \in F : ~(Cardinality(r) < Cardinality(R))
  <2> HIDE DEF F
  <2>1. QED BY <1>1, <1>2, SmallestSet
<1>4. Total(f, R) = IF R = {} THEN 0 ELSE 1 + f[First(R)] + Total(f, R \ {First(R)})
  BY <1>2, TotalStep
<1>5. R # {}
  BY <1>4
<1>6. R \ {First(R)} \notin F /\ f[First(R)] \in Int
  BY <1>2, <1>3, <1>5, FirstIs
<1>7. QED BY <1>4, <1>5, <1>6

\* It does not depend on the order: a new member adds its own size.
LEMMA TotalAdd ==
  ASSUME NEW f \in [Obj -> Int], NEW S \in SUBSET Obj, IsFiniteSet(S), NEW x \in Obj \ S
  PROVE  Total(f, S \cup {x}) = Total(f, S) + 1 + f[x]
<1> DEFINE U    == S \cup {x}
           P(R) == \A y \in U \ R : Total(f, R \cup {y}) = Total(f, R) + 1 + f[y]
           F    == {R \in SUBSET U : ~P(R)}
<1>0. IsFiniteSet(U) /\ U \in SUBSET Obj
  BY FS_AddElement
<1>1. SUFFICES ASSUME F # {} PROVE FALSE
  OBVIOUS
<1>2. \A R \in F : IsFiniteSet(R)
  BY <1>0, FS_Subset
<1>3. PICK R \in F : \A r \in F : ~(Cardinality(r) < Cardinality(R))
  <2> HIDE DEF F
  <2>1. QED BY <1>1, <1>2, SmallestSet
<1>4. PICK y \in U \ R : Total(f, R \cup {y}) # Total(f, R) + 1 + f[y]
  OBVIOUS
<1> DEFINE V == R \cup {y}
           z == First(V)
<1>5. IsFiniteSet(R) /\ IsFiniteSet(V) /\ V # {} /\ V \in SUBSET U
  BY <1>2, FS_AddElement
<1>6. Total(f, V) = 1 + f[z] + Total(f, V \ {z}) /\ z \in V
  BY <1>5, TotalStep, FirstIs
<1>7. \A Q \in SUBSET U : Total(f, Q) \in Int
  BY <1>0, TotalInt, FS_Subset
<1>8. f[y] \in Int /\ f[z] \in Int /\ R \in SUBSET U
  BY <1>0, <1>5, <1>6
<1>11. V = R \cup {y} /\ y \in U /\ y \notin R
  BY <1>8
<1> HIDE DEF U, V, z
<1>9. CASE z = y
  <2>1. V \ {z} = R
    BY <1>9, <1>11
  <2>2. Total(f, R) \in Int
    BY <1>7, <1>8
  <2>3. Total(f, V) = Total(f, R) + 1 + f[y]
    <3>1. Total(f, V) = 1 + f[z] + Total(f, V \ {z}) /\ f[z] = f[y]
      BY <1>6, <1>9
    <3>2. Total(f, V \ {z}) = Total(f, R)
      BY <2>1
    <3>3. QED BY <1>8, <2>2, <3>1, <3>2
  <2>4. QED BY <1>4, <1>11, <2>3
<1>10. CASE z # y
  <2>1. z \in R /\ z \in U
    BY <1>6, <1>8, <1>10, <1>11
  <2> DEFINE Q == R \ {z}
  <2>2. V \ {z} = Q \cup {y} /\ R = Q \cup {z} /\ Q \in SUBSET U /\ y \in U \ Q /\ z \in U \ Q
    BY <1>8, <1>10, <1>11, <2>1
  <2>3. Cardinality(Q) < Cardinality(R)
    <3>1. Cardinality(R) \in Nat
      BY <1>5, FS_CardinalityType
    <3>2. Cardinality(Q) = Cardinality(R) - 1
      BY <1>5, <2>1, FS_RemoveElement
    <3>3. QED BY <3>1, <3>2
  <2>4. Q \notin F
    BY <1>3, <2>3
  <2>5. P(Q)
    BY <2>2, <2>4
  <2> HIDE DEF Q
  <2>6. /\ Total(f, Q \cup {y}) = Total(f, Q) + 1 + f[y]
        /\ Total(f, Q \cup {z}) = Total(f, Q) + 1 + f[z]
    BY <2>2, <2>5
  <2>7. Total(f, V) = 1 + f[z] + (Total(f, Q) + 1 + f[y]) /\ Total(f, R) = Total(f, Q) + 1 + f[z]
    BY <1>6, <2>2, <2>6
  <2>8. Total(f, Q) \in Int
    BY <1>7, <2>2
  <2>9. Total(f, V) = Total(f, R) + 1 + f[y]
    BY <1>8, <2>7, <2>8
  <2>10. QED BY <1>4, <1>11, <2>9
<1>12. QED BY <1>9, <1>10

\* It depends on the sizes of the members only.
LEMMA TotalSame ==
  ASSUME NEW f, NEW g, NEW S, IsFiniteSet(S), \A x \in S : f[x] = g[x]
  PROVE  Total(f, S) = Total(g, S)
<1> DEFINE F == {R \in SUBSET S : Total(f, R) # Total(g, R)}
<1>1. SUFFICES ASSUME F # {} PROVE FALSE
  OBVIOUS
<1>2. \A R \in F : IsFiniteSet(R)
  BY FS_Subset
<1>3. PICK R \in F : \A r \in F : ~(Cardinality(r) < Cardinality(R))
  <2> HIDE DEF F
  <2>1. QED BY <1>1, <1>2, SmallestSet
<1>4. /\ Total(f, R) = IF R = {} THEN 0 ELSE 1 + f[First(R)] + Total(f, R \ {First(R)})
      /\ Total(g, R) = IF R = {} THEN 0 ELSE 1 + g[First(R)] + Total(g, R \ {First(R)})
  BY <1>2, TotalStep
<1>5. R # {}
  BY <1>4
<1>6. R \ {First(R)} \notin F /\ f[First(R)] = g[First(R)]
  BY <1>2, <1>3, <1>5, FirstIs
<1>7. QED BY <1>4, <1>5, <1>6

-----------------------------------------------------------------------------
(* Accounting *)

LEMMA BytesAre ==
  BytesAccounted <=>
    bytesAllocated = leaked + Total(buffer, allocated) + (IF request.op = "none" THEN 0 ELSE 1)
BY DEF BytesAccounted, Total

LEMMA BytesAreNext ==
  (BytesAccounted <=>
    bytesAllocated = leaked + Total(buffer, allocated) + (IF request.op = "none" THEN 0 ELSE 1))'
BY BytesAre, PTL

LEMMA InitCounted == Init => Counted
<1> SUFFICES ASSUME Init PROVE Counted
  OBVIOUS
<1>1. allocated = {} /\ IsFiniteSet(allocated)
  BY FS_EmptySet DEF Init, allocated
<1>2. Total(buffer, allocated) = 0
  BY <1>1, TotalStep
<1>3. BytesAccounted
  BY <1>2, BytesAre DEF Init, NoRequest
<1>4. QED BY <1>1, <1>3 DEF Counted, Init, NoRequest

\* Growing a buffer, the only step that changes one of an object that stays.
LEMMA FinishGrowCounted ==
  ASSUME IInv, Counted, FinishGrow
  PROVE  Counted'
<1> DEFINE o == request.obj
<1>1. /\ buffer' = [buffer EXCEPT ![o] = @ + 1] /\ pc = "finish" /\ request.op = "grow"
      /\ request' = NoRequest /\ UNCHANGED <<kind, bytesAllocated, leaked>>
  BY DEF FinishGrow, memVars
<1>2. TypeOK /\ RequestLive /\ HeapClosed
  BY DEF IInv, Inv
<1>3. o \in allocated /\ o \in Obj
  <2>1. o # NULL /\ o \in Held
    BY <1>1 DEF Counted, Held
  <2>2. QED BY <1>1, <1>2, <2>1, ReachableAllocated DEF RequestLive, allocated
<1>4. allocated' = allocated /\ buffer \in [Obj -> Int] /\ buffer' \in [Obj -> Int]
  <2>1. buffer \in [Obj -> Nat] /\ allocated' = allocated
    BY <1>1, <1>2 DEF TypeOK, allocated
  <2>2. \A x \in Obj : buffer'[x] \in Int /\ buffer[x] \in Int
    BY <1>1, <2>1
  <2>3. QED BY <1>1, <2>1, <2>2
<1> DEFINE R == allocated \ {o}
<1>5. /\ IsFiniteSet(R) /\ R \in SUBSET Obj /\ o \in Obj \ R /\ R \cup {o} = allocated
      /\ \A x \in R : buffer[x] = buffer'[x]
  BY <1>1, <1>3, <1>4, FS_RemoveElement DEF Counted, allocated
<1>6. buffer'[o] = buffer[o] + 1 /\ buffer[o] \in Int
  BY <1>1, <1>3, <1>4
<1> HIDE DEF o, R
<1>7. /\ Total(buffer, allocated) = Total(buffer, R) + 1 + buffer[o]
      /\ Total(buffer', allocated) = Total(buffer', R) + 1 + buffer'[o]
      /\ Total(buffer, R) = Total(buffer', R)
      /\ Total(buffer, R) \in Int
  <2>1. /\ Total(buffer, R \cup {o}) = Total(buffer, R) + 1 + buffer[o]
        /\ Total(buffer', R \cup {o}) = Total(buffer', R) + 1 + buffer'[o]
    BY <1>4, <1>5, TotalAdd
  <2>2. Total(buffer, R) = Total(buffer', R)
    BY <1>5, TotalSame
  <2>3. QED BY <1>4, <1>5, <2>1, <2>2, TotalInt
<1>8. bytesAllocated = leaked + Total(buffer, allocated) + 1 /\ leaked \in Int
  BY <1>1, <1>2, BytesAre DEF Counted, TypeOK
<1>9. bytesAllocated = leaked + Total(buffer', allocated)
  BY <1>6, <1>7, <1>8
<1>10. BytesAccounted'
  <2>1. bytesAllocated' = leaked' + Total(buffer', allocated') + 0
    BY <1>1, <1>4, <1>6, <1>7, <1>8, <1>9
  <2>2. request'.op = "none"
    BY <1>1 DEF NoRequest
  <2>3. QED BY <2>1, <2>2, BytesAreNext
<1>11. \A x \in Obj \ allocated : buffer'[x] = 0
  BY <1>1, <1>3, <1>4 DEF Counted
<1>12. QED BY <1>1, <1>4, <1>10, <1>11 DEF Counted, NoRequest

\* A new object has no buffer yet, and what it takes has been asked for.
LEMMA FinishNewCounted ==
  ASSUME IInv, Counted, NEW o \in Obj, FinishNew(o)
  PROVE  Counted'
<1>1. /\ kind' = [kind EXCEPT ![o] = request.kind] /\ request.op = "new" /\ o \notin allocated
      /\ request' = NoRequest /\ UNCHANGED <<buffer, bytesAllocated, leaked>>
  BY DEF FinishNew, memVars
<1>2. TypeOK
  BY DEF IInv, Inv
<1>3. allocated' = allocated \cup {o}
  <2>1. request.kind # "free"
    BY <1>2 DEF TypeOK, AllKinds
  <2>2. QED BY <1>1, <1>2, <2>1 DEF TypeOK, allocated
<1>4. buffer \in [Obj -> Int] /\ allocated \in SUBSET Obj /\ IsFiniteSet(allocated) /\ buffer[o] = 0
  <2>1. \A x \in Obj : buffer[x] \in Int
    BY <1>2 DEF TypeOK
  <2>2. QED BY <1>1, <1>2, <2>1 DEF TypeOK, Counted, allocated
<1>5. /\ Total(buffer, allocated \cup {o}) = Total(buffer, allocated) + 1 + buffer[o]
      /\ Total(buffer, allocated) \in Int
  BY <1>1, <1>4, TotalAdd, TotalInt
<1>6. bytesAllocated = leaked + Total(buffer, allocated) + 1 /\ leaked \in Int
  BY <1>1, <1>2, BytesAre DEF Counted, TypeOK
<1>7. BytesAccounted'
  <2>1. bytesAllocated' = leaked' + Total(buffer', allocated') + 0
    BY <1>1, <1>3, <1>4, <1>5, <1>6
  <2>2. request'.op = "none"
    BY <1>1 DEF NoRequest
  <2>3. QED BY <2>1, <2>2, BytesAreNext
<1>8. IsFiniteSet(allocated')
  BY <1>3, <1>4, FS_AddElement
<1>9. QED BY <1>1, <1>3, <1>7, <1>8 DEF Counted, NoRequest

\* Freeing an object gives back what it takes, or loses count of it.
LEMMA FreeCounted ==
  ASSUME TypeOK, Counted, object \in allocated, FreeObject(object), UNCHANGED request
  PROVE  Counted'
<1> DEFINE o == object
           R == allocated \ {o}
<1>1. /\ kind' = [kind EXCEPT ![o] = "free"] /\ buffer' = [buffer EXCEPT ![o] = 0]
      /\ bytesAllocated' = bytesAllocated - Freed(o)
      /\ leaked' = leaked + Lost(o)
  BY DEF FreeObject
<1>2. o \in Obj /\ allocated \in SUBSET Obj /\ buffer \in [Obj -> Nat]
  BY DEF allocated, TypeOK
<1>3. allocated' = R
  BY <1>1, <1>2 DEF TypeOK, allocated
<1>4. buffer \in [Obj -> Int] /\ buffer' \in [Obj -> Int]
  <2>1. \A x \in Obj : buffer[x] \in Int /\ buffer'[x] \in Int
    BY <1>1, <1>2
  <2>2. QED BY <1>1, <1>2, <2>1
<1>5. /\ IsFiniteSet(R) /\ R \in SUBSET Obj /\ o \in Obj \ R /\ R \cup {o} = allocated
      /\ \A x \in R : buffer[x] = buffer'[x]
  BY <1>1, <1>2, FS_RemoveElement DEF Counted
<1>6. Freed(o) + Lost(o) = 1 + buffer[o] /\ Freed(o) \in Int /\ Lost(o) \in Int
  BY <1>2 DEF Freed, Lost
<1>7. \A x \in Obj \ allocated' : buffer'[x] = 0
  BY <1>1, <1>2, <1>3 DEF Counted
<1>0. buffer[o] \in Int
  BY <1>2
<1> HIDE DEF o, R
<1>8. /\ Total(buffer, allocated) = Total(buffer, R) + 1 + buffer[o]
      /\ Total(buffer, R) = Total(buffer', R)
      /\ Total(buffer, R) \in Int
  <2>1. Total(buffer, R \cup {o}) = Total(buffer, R) + 1 + buffer[o]
    BY <1>4, <1>5, TotalAdd
  <2>2. Total(buffer, R) = Total(buffer', R)
    BY <1>5, TotalSame
  <2>3. QED BY <1>4, <1>5, <2>1, <2>2, TotalInt
<1> DEFINE q == IF request.op = "none" THEN 0 ELSE 1
<1>9. bytesAllocated = leaked + Total(buffer, allocated) + q /\ leaked \in Int /\ q \in Int
  BY BytesAre DEF Counted, TypeOK
<1>10. q' = q
  OBVIOUS
<1> HIDE DEF q
<1>11. bytesAllocated' = leaked' + Total(buffer', R) + q
  <2>1. bytesAllocated = leaked + (Total(buffer', R) + (Freed(o) + Lost(o))) + q
    BY <1>0, <1>6, <1>8, <1>9
  <2>2. Total(buffer', R) \in Int
    BY <1>8
  <2>3. QED BY <1>1, <1>6, <1>9, <2>1, <2>2
<1>12. BytesAccounted'
  <2>1. bytesAllocated' = leaked' + Total(buffer', allocated') + q'
    BY <1>3, <1>10, <1>11
  <2>2. QED BY <2>1, BytesAreNext DEF q
<1>13. QED BY <1>3, <1>5, <1>7, <1>12 DEF Counted

LEMMA RequestCounted ==
  ASSUME IInv, Counted, NEW req, Request(req), req.op \in {"new", "grow"},
         req.op = "grow" => req.obj # NULL
  PROVE  Counted'
<1>1. /\ pc = "run" /\ request' = req /\ bytesAllocated' = bytesAllocated + 1
      /\ UNCHANGED <<kind, buffer, leaked>>
  BY DEF Request, listVars
<1>2. TypeOK /\ request.op = "none"
  BY <1>1 DEF IInv, Inv, RequestLive, NoRequest
<1>3. allocated' = allocated
  BY <1>1 DEF allocated
<1>4. bytesAllocated = leaked + Total(buffer, allocated) + 0 /\ leaked \in Int
  BY <1>2, BytesAre DEF Counted, TypeOK
<1>5. Total(buffer, allocated) \in Int
  <2>1. \A x \in Obj : buffer[x] \in Int
    BY <1>2 DEF TypeOK
  <2>2. QED BY <1>2, <2>1, TotalInt DEF Counted, TypeOK, allocated
<1>6. BytesAccounted'
  <2>1. bytesAllocated' = leaked' + Total(buffer', allocated') + 1
    BY <1>1, <1>3, <1>4, <1>5
  <2>2. request'.op # "none"
    BY <1>1
  <2>3. QED BY <2>1, <2>2, BytesAreNext
<1>7. QED BY <1>1, <1>3, <1>6 DEF Counted

\* Steps that leave the objects, their buffers and the sums as they are.
LEMMA SameCounted ==
  Counted /\ UNCHANGED <<kind, buffer, bytesAllocated, leaked, request>> => Counted'
<1> SUFFICES ASSUME Counted, UNCHANGED <<kind, buffer, bytesAllocated, leaked, request>>
             PROVE  Counted'
  OBVIOUS
<1>1. allocated' = allocated
  BY DEF allocated
<1>2. BytesAccounted'
  BY <1>1, BytesAre, BytesAreNext DEF Counted
<1>3. QED BY <1>1, <1>2 DEF Counted

LEMMA NextCounted == IInv /\ Counted /\ [Next]_vars => Counted'
<1> SUFFICES ASSUME IInv, Counted, [Next]_vars PROVE Counted'
  OBVIOUS
<1> USE DEF mutVars, listVars, gcVars, memVars
<1>1. CASE Mutator \/ FreeVM \/ FreeDone \/ UNCHANGED vars
  BY <1>1, SameCounted
     DEF Mutator, Store, Erase, Root, Unroot, FindString, FreeVM, FreeDone, vars
<1>2. CASE Allocate
  <2>1. ASSUME NEW k \in Kinds, NEW args \in [Arguments[k] -> Reachable], NewObject(k, args)
        PROVE  Counted'
    BY <2>1, RequestCounted DEF NewObject, Reallocate
  <2>2. ASSUME NEW s \in Reachable, Coerce(s) PROVE Counted'
    BY <2>2, RequestCounted DEF Coerce, Reallocate
  <2>3. ASSUME NEW o \in Reachable, Grow(o) PROVE Counted'
    <3>1. o # NULL
      BY ReachableTyped, CollectorAssumption
    <3>2. QED BY <2>3, <3>1, RequestCounted DEF Grow, Reallocate
  <2>4. QED BY <1>2, <2>1, <2>2, <2>3, FinishNewCounted, FinishGrowCounted DEF Allocate
<1>3. CASE Collect
  <2>1. CASE SweepUnreached
    <3>1. object \in allocated /\ TypeOK
      BY <2>1 DEF SweepUnreached, IInv, Inv, Ranked, Sweeping
    <3>2. QED BY <2>1, <3>1, FreeCounted DEF SweepUnreached
  <2>2. CASE ~SweepUnreached
    BY <1>3, <2>2, SameCounted
       DEF Collect, MarkRoots, BlackenObject, RemoveWhite, SweepMarked, SweepDone
  <2>3. QED BY <2>1, <2>2
<1>4. CASE FreeNext
  <2>1. object \in allocated /\ TypeOK
    BY <1>4 DEF FreeNext, IInv, Inv, Ranked, Ordered
  <2>2. QED BY <1>4, <2>1, FreeCounted DEF FreeNext
<1>5. QED BY <1>1, <1>2, <1>3, <1>4 DEF Next

LEMMA CountedBytes == Counted => BytesAccounted
BY DEF Counted

\* vm.bytesAllocated is at all times the sum of what the objects take, of what
\* freeObject has lost count of, and of the block that is being asked for.
THEOREM BytesAreAccounted == LastSlot = {} /\ ~ConvertsLeft => (Spec => []BytesAccounted)
<1>1. QED BY Invariance, InitCounted, NextCounted, CountedBytes, PTL DEF Spec

-----------------------------------------------------------------------------
(* The collector implements Heap.tla *)

Swept == IF pc \in {"sweep", "freeing"} THEN Reachable ELSE allocated

LEMMA InitPromise == Init => Promise!Init
<1> SUFFICES ASSUME Init PROVE Promise!Init
  OBVIOUS
<1>1. allocated = {} /\ Roots = {} /\ pc = "run"
  BY DEF Init, allocated, Roots
<1>2. Reachable \subseteq {}
  BY <1>1, ReachLeast DEF Reachable, ClosedIn
<1>3. QED BY <1>1, <1>2 DEF Promise!Init

LEMMA PrimedNoDangling == (IInv => NoDangling) /\ (IInv' => NoDangling')
BY IInvNoDangling, PTL

\* A new object brings itself into reach and nothing else.
LEMMA NewReachable ==
  ASSUME IInv, IInv', NEW o \in Obj, FinishNew(o)
  PROVE  allocated' = allocated \cup {o} /\ Reachable' = Reachable \cup {o}
<1> DEFINE k == request.kind
<1>1. /\ pc = "finish" /\ pc' = "run" /\ o \notin allocated
      /\ kind' = [kind EXCEPT ![o] = k] /\ refs' = [refs EXCEPT ![o] = request.refs]
      /\ roots' = roots \cup {<<FirstRoot[k], o>>}
  BY FinishNewRoots DEF FinishNew
<1>2. TypeOK /\ TypeOK' /\ RequestLive /\ HeapClosed
  BY DEF IInv, Inv
<1>3. allocated' = allocated \cup {o} /\ allocated \subseteq Obj
  BY <1>1, <1>2 DEF TypeOK, allocated, AllKinds
<1>4. /\ Reachable \subseteq allocated /\ Reachable' \subseteq allocated'
      /\ Roots \subseteq allocated
      /\ \A x \in allocated : PointsAt(refs, x) \subseteq allocated
  <2>1. Reachable \subseteq allocated /\ Reachable' \subseteq allocated'
    BY IInvNoDangling, PrimedNoDangling DEF NoDangling
  <2>2. QED BY <1>1, <1>2, <2>1 DEF HeapClosed, Closed, ClosedIn
<1>5. Roots' = Roots \cup {o}
  <2> DEFINE r == <<FirstRoot[k], o>>
  <2>1. roots' = roots \cup {r} /\ r[2] = o
    BY <1>1
  <2> HIDE DEF r
  <2>2. {x[2] : x \in roots'} = {x[2] : x \in roots} \cup {r[2]}
    BY <2>1
  <2>3. QED BY <2>1, <2>2 DEF Roots
<1>6. /\ refs \in [Obj -> SUBSET Pointers] /\ refs' \in [Obj -> SUBSET Pointers]
      /\ Roots \in SUBSET Obj /\ Roots' \in SUBSET Obj
  BY <1>2, <1>5, ReachableClosed DEF TypeOK
<1>7. /\ \A x \in Obj : x # o => PointsAt(refs', x) = PointsAt(refs, x)
      /\ PointsAt(refs', o) \subseteq Reachable
  <2>1. refs'[o] = request.refs /\ \A x \in Obj : x # o => refs'[x] = refs[x]
    BY <1>1, <1>6
  <2>2. \A p \in request.refs : p[2] \in Reachable
    BY <1>2 DEF RequestLive, Held
  <2>3. QED BY <2>1, <2>2 DEF PointsAt
<1>8. Reachable' = ReachFrom(Roots', refs')
  BY DEF Reachable
<1>9. Roots \subseteq Reachable /\ ClosedIn(Reachable, refs) /\ Reachable \subseteq Obj
  BY <1>6, ReachClosed DEF Reachable
<1>10. Roots' \subseteq Reachable' /\ ClosedIn(Reachable', refs') /\ Reachable' \subseteq Obj
  BY <1>6, <1>8, ReachClosed
<1>11. Reachable' \subseteq Reachable \cup {o}
  <2>1. Roots' \subseteq Reachable \cup {o} /\ (Reachable \cup {o}) \in SUBSET Obj
    BY <1>5, <1>9
  <2>2. ClosedIn(Reachable \cup {o}, refs')
    BY <1>4, <1>1, <1>7, <1>9 DEF ClosedIn
  <2>3. QED BY <1>8, <2>1, <2>2, ReachLeast
<1>12. Reachable \subseteq Reachable'
  <2> DEFINE S == Reachable' \ {o}
  <2>1. S \in SUBSET Obj /\ Roots \subseteq S
    BY <1>1, <1>4, <1>5, <1>10
  <2>2. ASSUME NEW x \in S PROVE PointsAt(refs, x) \subseteq S
    <3>1. x \in allocated /\ x # o /\ x \in Reachable'
      BY <1>3, <1>4, <2>2
    <3>2. PointsAt(refs, x) \subseteq allocated /\ PointsAt(refs, x) \subseteq Reachable'
      BY <1>3, <1>4, <1>7, <1>10, <3>1 DEF ClosedIn
    <3>3. QED BY <1>1, <3>2
  <2>3. ClosedIn(S, refs)
    BY <2>2 DEF ClosedIn
  <2> HIDE DEF S
  <2>4. ReachFrom(Roots, refs) \subseteq S
    BY <2>1, <2>3, ReachLeast
  <2>5. QED BY <2>4 DEF Reachable, S
<1>13. o \in Reachable'
  BY <1>5, <1>10
<1>14. QED BY <1>3, <1>11, <1>12, <1>13

\* Each step of the collector is a step of Heap.tla or one it does not see.
LEMMA NextPromise ==
  ASSUME IInv, IInv', [Next]_vars
  PROVE  [Promise!Next]_(Promise!vars)
<1> USE DEF mutVars, listVars, gcVars
<1> DEFINE Unseen == Swept' = Swept /\ Reachable' = Reachable
<1>0. Unseen => [Promise!Next]_(Promise!vars)
  BY DEF Swept, Promise!vars
<1>1. TypeOK /\ Reachable \subseteq allocated /\ Reachable' \subseteq allocated'
  BY PrimedNoDangling DEF NoDangling, IInv, Inv
<1>2. CASE UNCHANGED <<roots, refs, kind, pc>>
  BY <1>0, <1>2, ReachableSame DEF Swept, allocated
<1>3. CASE Mutator
  <2>1. pc = "run" /\ pc' = "run" /\ kind' = kind
    BY <1>3 DEF Mutator, Store, Erase, Root, Unroot, FindString
  <2>2. Swept = allocated /\ Swept' = allocated
    BY <2>1 DEF Swept, allocated
  <2>3. Promise!Mutate
    BY <1>1, <2>1, <2>2 DEF Swept, Promise!Mutate
  <2>4. QED BY <2>3 DEF Promise!Next
<1>4. CASE Allocate
  <2>1. ASSUME UNCHANGED <<roots, refs, kind>>,
               pc \in {"run", "finish"}, pc' \in {"run", "mark", "finish"}
        PROVE  Unseen
    BY <2>1, ReachableSame DEF Swept, allocated
  <2>2. ASSUME NEW req, Reallocate(req) PROVE Unseen
    BY <2>1, <2>2 DEF Reallocate, Request
  <2>3. CASE FinishGrow
    BY <2>1, <2>3, <1>0 DEF FinishGrow
  <2>4. ASSUME NEW o \in Obj, FinishNew(o) PROVE [Promise!Next]_(Promise!vars)
    <3>1. /\ allocated' = allocated \cup {o} /\ Reachable' = Reachable \cup {o}
          /\ o \in Obj \ allocated /\ pc = "finish" /\ pc' = "run"
      BY <2>4, NewReachable DEF FinishNew
    <3>2. Promise!New
      BY <3>1 DEF Swept, Promise!New
    <3>3. QED BY <3>2 DEF Promise!Next
  <2>5. ASSUME NEW s, Coerce(s) PROVE Unseen
    BY <2>2, <2>5 DEF Coerce, IInv, Inv
  <2>6. QED BY <1>0, <1>4, <2>2, <2>3, <2>4, <2>5 DEF Allocate, NewObject, Grow
<1>5. CASE MarkRoots \/ (\E o \in Obj : BlackenObject(o)) \/ SweepMarked
  <2>1. /\ UNCHANGED <<roots, refs, kind>>
        /\ (pc = "sweep" /\ pc' = "sweep") \/ (pc \in {"mark", "trace"} /\ pc' = "trace")
    BY <1>5 DEF MarkRoots, BlackenObject, SweepMarked
  <2>2. QED BY <1>0, <2>1, ReachableSame DEF Swept, allocated
<1>6. CASE RemoveWhite
  <2>1. pc = "trace" /\ pc' = "sweep" /\ UNCHANGED <<roots, refs, kind>>
    BY <1>6 DEF RemoveWhite
  <2>2. Promise!Collect
    BY <2>1, ReachableSame DEF Swept, allocated, Promise!Collect
  <2>3. QED BY <2>2 DEF Promise!Next
<1>7. CASE SweepUnreached
  <2>1. /\ pc = "sweep" /\ pc' = "sweep" /\ object # NULL /\ ~isMarked[object]
        /\ roots' = roots /\ refs' = [refs EXCEPT ![object] = {}]
    BY <1>7 DEF SweepUnreached, FreeObject
  <2>2. PICK rank \in [Obj -> Int] : Sweeping(rank)
    BY <2>1 DEF IInv, Inv, Ranked
  <2>3. object \in allocated /\ object \in Obj /\ rank[object] \in Int
    BY <2>1, <2>2 DEF Sweeping, allocated
  <2>4. object \notin Reachable
    BY <2>1, <2>2, <2>3 DEF Sweeping
  <2>5. QED BY <1>0, <1>1, <2>1, <2>3, <2>4, FreeUnreached DEF Swept
<1>8. CASE SweepDone
  <2>1. pc = "sweep" /\ pc' = "finish" /\ object = NULL /\ UNCHANGED <<roots, refs, kind>>
    BY <1>8 DEF SweepDone
  <2>2. PICK rank \in [Obj -> Int] : Sweeping(rank)
    BY <2>1 DEF IInv, Inv, Ranked
  <2>3. allocated = Reachable
    BY <2>1, <2>2 DEF Sweeping
  <2>4. QED BY <1>0, <2>1, <2>3, ReachableSame DEF Swept, allocated
<1>9. CASE FreeVM \/ FreeNext \/ FreeDone
  <2>1. /\ pc \in {"run", "freeing"} /\ pc' \in {"freeing", "freed"}
        /\ pc = "run" => pc' = "freeing"
        /\ pc' = "freed" => pc = "freeing"
    BY <1>9 DEF FreeVM, FreeNext, FreeDone
  <2>2. roots' = {} /\ (pc = "freeing" => roots = {}) /\ (pc' = "freed" => allocated' = {})
    BY <2>1 DEF IInv, Inv, NoRoots
  <2>3. Roots' = {} /\ (pc = "freeing" => Roots = {})
    BY <2>2 DEF Roots
  <2>4. \A f : ReachFrom({}, f) = {}
    BY ReachLeast DEF ClosedIn
  <2>5. Reachable' = {} /\ (pc = "freeing" => Reachable = {})
    BY <2>3, <2>4 DEF Reachable
  <2>6. Swept' = {} /\ (pc = "freeing" => Swept = {})
    BY <2>1, <2>2, <2>5 DEF Swept
  <2>7. CASE pc = "run"
    BY <2>5, <2>6 DEF Swept, Promise!Shutdown, Promise!Next
  <2>8. CASE pc = "freeing"
    BY <1>0, <2>5, <2>6, <2>8
  <2>9. QED BY <2>1, <2>7, <2>8
<1>10. CASE UNCHANGED vars
  BY <1>2, <1>10 DEF vars
<1>11. QED
  BY <1>3, <1>4, <1>5, <1>6, <1>7, <1>8, <1>9, <1>10 DEF Next, Collect

\* memory.c and object.c implement the memory manager of Heap.tla: a collection
\* takes away what is out of reach and nothing else, whatever the program does.
THEOREM Implements == LastSlot = {} /\ ~ConvertsLeft => (Spec => KeepsPromise)
<1>1. QED
  BY Invariance, InitPromise, NextPromise, PTL DEF Spec, KeepsPromise, Promise!Spec

=============================================================================
