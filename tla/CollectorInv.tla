---------------------------- MODULE CollectorInv ----------------------------
(***************************************************************************)
(* The inductive invariant of Collector.tla, in named parts, which         *)
(* CollectorProofs.tla proves for every heap.                              *)
(***************************************************************************)
EXTENDS Collector

\* A function that allocates keeps only what the program can get to anyway.
RequestLive ==
  /\ request = NoRequest <=> pc \in {"run", "freeing", "freed"}
  /\ Held \subseteq Reachable
  /\ \A p \in request.refs : p[1] \in Fields[request.kind]
  /\ request.op = "new" => request.obj = NULL

\* Pointers sit in fields their object's kind has and in tables markRoots knows.
WellPlaced ==
  /\ \A o \in allocated : \A p \in refs[o] : p[1] \in Fields[kind[o]]
  /\ \A r \in roots : r[1] \in RootNames

\* Garbage or not, nothing allocated points at a block that is not, except
\* while sweep has freed some of it.
HeapClosed == pc \notin {"sweep", "freeing", "freed"} =>
  /\ Roots \subseteq allocated
  /\ Closed(allocated)
  /\ interns \subseteq allocated

marked == {o \in Obj : isMarked[o]}

NoMarks == pc \in {"run", "mark", "finish"} => marked = {} /\ gray = {}

\* The tricolor invariant, with what makes it useful at the end of the trace.
Tracing == pc = "trace" =>
  /\ gray \subseteq marked
  /\ marked \subseteq Reachable
  /\ Roots \subseteq marked
  /\ \A o \in marked \ gray : Children(o) \subseteq marked

\* rank falls along the list from head on, which skips no allocated object.
Ordered(rank, head) ==
  /\ \A x, y \in allocated : rank[x] = rank[y] => x = y
  /\ IF head = NULL THEN allocated = {}
     ELSE head \in allocated /\ \A x \in allocated : rank[x] <= rank[head]
  /\ \A x \in allocated :
       IF next[x] = NULL THEN \A y \in allocated : rank[x] <= rank[y]
       ELSE /\ next[x] \in allocated
            /\ rank[next[x]] < rank[x]
            /\ \A y \in allocated : rank[y] < rank[x] => rank[y] <= rank[next[x]]

\* What sweep has behind it is unmarked and live; of what it has before it,
\* exactly the live objects are marked.
Sweeping(rank) ==
  LET Behind(x) == object = NULL \/ rank[object] < rank[x] IN
  /\ gray = {}
  /\ Reachable \subseteq allocated
  /\ interns \subseteq Reachable
  /\ object # NULL => object \in allocated
  /\ IF previous = NULL THEN object = objects
     ELSE /\ previous \in allocated
          /\ Behind(previous)
          /\ next[previous] = object
  /\ \A x \in allocated : IF Behind(x) THEN ~isMarked[x] /\ x \in Reachable
                          ELSE isMarked[x] <=> x \in Reachable
  /\ marked \subseteq allocated

Ranked(Ranks) == \E rank \in [Obj -> Ranks] :
  /\ pc \notin {"freeing", "freed"} => Ordered(rank, objects)
  /\ pc = "freeing" => Ordered(rank, object)
  /\ pc = "sweep" => Sweeping(rank)

\* Nothing is in reach once freeVM has begun, and nothing left when it is done.
NoRoots ==
  /\ pc \in {"freeing", "freed"} => roots = {} /\ interns = {}
  /\ pc = "freed" => object = NULL /\ allocated = {}

Inv(Ranks) ==
  /\ LastSlot = {} /\ ~ConvertsLeft
  /\ TypeOK /\ RequestLive /\ WellPlaced /\ HeapClosed
  /\ NoMarks /\ Tracing /\ Ranked(Ranks) /\ NoRoots

\* The inductive invariant of the proof.
IInv == Inv(Int)

\* What BytesAccounted needs besides: its sum is one of finitely many objects, there is
\* no buffer without an object, and what is grown is an object.
Counted ==
  /\ IsFiniteSet(allocated)
  /\ \A o \in Obj \ allocated : buffer[o] = 0
  /\ request.op = "grow" => request.obj # NULL
  /\ BytesAccounted
=============================================================================
