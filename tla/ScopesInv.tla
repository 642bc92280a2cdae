----------------------------- MODULE ScopesInv -----------------------------
(***************************************************************************)
(* The inductive invariant of Scopes.tla, in named parts.                  *)
(***************************************************************************)
EXTENDS Scopes

\* Of one function: depths do not fall, none is deeper than the scope, slot 0
\* belongs to no scope, and only the last local may be uninitialized.
Ordered(c) ==
  /\ c.locals[1].depth = 0
  /\ \A i \in 1..Len(c.locals) :
       /\ c.locals[i].depth <= c.scopeDepth
       /\ c.locals[i].depth = -1 => i = Len(c.locals) /\ c.scopeDepth > 0
  /\ \A i, j \in 1..Len(c.locals) :
       i < j /\ c.locals[j].depth # -1 => c.locals[i].depth <= c.locals[j].depth

Settled(c) == \A i \in 1..Len(c.locals) : c.locals[i].depth # -1

\* markInitialized will find a variable, not slot 0.
HasVariable(c) == c.scopeDepth > 0 => Len(c.locals) >= 2

ArraysOrdered ==
  /\ \A f \in 1..Top : Ordered(compilers[f])
  /\ \A f \in 1..(Top - 1) : Settled(compilers[f])
  /\ pc # "initializer" => Settled(current)

\* A function has a local for the function declared in it, whose end marks it;
\* a function that is in the middle of a class body has a method in it instead.
NamesWait ==
  /\ pc = "initializer" => HasVariable(current)
  /\ \A f \in 1..(Top - 1) : (\A k \in DOMAIN classes : classes[k].fn # f) => HasVariable(compilers[f])

\* At most one class is open in a function, and its superclass has a scope.
ClassesNest ==
  /\ \A j, k \in DOMAIN classes : j < k => classes[j].fn < classes[k].fn
  /\ \A k \in DOMAIN classes : classes[k].hasSuperclass => compilers[classes[k].fn].scopeDepth > 0
  /\ pc \in {"class", "inherits", "inherits_itself"} => InClassBody
  /\ pc \in {"inherits", "inherits_itself"} => current.scopeDepth < MaxScope

\* The strengthening of TypeOK, OperandsReach and DepthsOrdered that every
\* step of the compiler keeps, after errors too.
IInv == TypeOK /\ OperandsReach /\ ArraysOrdered /\ NamesWait /\ ClassesNest

-----------------------------------------------------------------------------
(* While there is no error, for the refinement of Lexical. *)

\* A block declares a name once; slot 0 is the only variable of a function's
\* outermost block, and only a class adds a "super".
Scoped(c) ==
  /\ \A i, j \in DOMAIN c.locals :
       i # j /\ BlockOf(c, i) = BlockOf(c, j) => c.locals[i].name # c.locals[j].name
  /\ \A i \in 2..Len(c.locals) : BlockOf(c, i) > 0 /\ c.locals[i].name \in Name \cup {"super"}

\* The last local is of the current block: markInitialized moves no other there.
EndsHere(c) == BlockOf(c, Len(c.locals)) = c.scopeDepth

\* A function in which a class is open, and one whose class has a superclass
Classed(f) == \E k \in DOMAIN classes : classes[k].fn = f
Supered(f) == \E k \in DOMAIN classes : classes[k].fn = f /\ classes[k].hasSuperclass

\* The last local of a function that will be marked
Waits(f) == IF f = Top THEN pc = "initializer" ELSE ~Classed(f)

\* Of the function f: the outermost two blocks are slot 0 and the body; a class
\* with a superclass has a "super", the last local, in a block that is not the
\* function's own, and no other class has; an upvalue is added once.
Accepts(f, c, waits, supered) ==
  /\ Scoped(c)
  /\ IF f = 1 THEN c.locals[1].name = "this"
     ELSE c.scopeDepth > 0 /\ c.locals[1].name \in {"none", "this"}
  /\ waits => EndsHere(c)
  /\ supered => /\ EndsHere(c) /\ Last(c.locals).name = "super"
                /\ c.scopeDepth > IF f = 1 THEN 0 ELSE 1
  /\ \A i \in DOMAIN c.locals : c.locals[i].name = "super" => i = Len(c.locals) /\ supered
  /\ \A i, j \in DOMAIN c.upvalues : i # j => ~Same(c.upvalues[i], c.upvalues[j])

Accepted ==
  /\ \A f \in 1..Top : Accepts(f, compilers[f], Waits(f), Supered(f))
  /\ \A j \in DOMAIN todo : todo[j] = "super" => classes # <<>> /\ Last(classes).hasSuperclass
  /\ pc \in {"class", "inherits", "inherits_itself"} => ~Last(classes).hasSuperclass

\* The names left to resolve belong to a production that has gone on.
UsesLeft == todo # <<>> => pc \in {"statement", "initializer"}

LexicalInv == IInv /\ UsesLeft /\ (~hadError => Accepted)
=============================================================================
