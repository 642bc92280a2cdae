------------------------------ MODULE Resolver ------------------------------
(***************************************************************************)
(* How plox/resolver.py walks a program before it runs: which scope each   *)
(* construct opens, at which distance it finds the variable that a name    *)
(* means, and what it rejects or warns about.                              *)
(*                                                                         *)
(* The program is written as it is walked: code lists the nodes of the     *)
(* syntax tree in the order the visitors meet them, and a node that holds  *)
(* others is closed by an "end" that names it.  An action is the visit of  *)
(* a node that Outlines permits next.                                      *)
(*                                                                         *)
(* Abstracted: an expression is a primary followed by calls, properties    *)
(* and assignments; operators, literals and else branches open no scope    *)
(* and are left out; the bodies of loops and branches are blocks; a        *)
(* function has at most one parameter.  An error is final: Lox.run does    *)
(* not run that program.                                                   *)
(***************************************************************************)
EXTENDS Integers, Sequences, FiniteSets, SequencesExt, FiniteSetsExt

CONSTANTS
  Name,       \* identifiers of variables
  Member,     \* names of methods
  Outlines    \* the programs to consider: for each place the nodes it may hold

Special == {"this", "super"}

ASSUME ResolverAssumption ==
  /\ Special \cap Name = {} /\ "init" \in Member /\ "none" \notin Name \cup Member

VARIABLES
  code,             \* the nodes visited
  open,             \* the nodes being visited, outermost first
  mid,              \* whether an expression was visited that a suffix may follow
  scopes,           \* self.scopes: for each name in the scope its state
  loop_scopes, function_scopes, class_scopes, return_scopes,
  locals,           \* interpreter._locals: distances, by the place of the node
  warnings,         \* what was warned about: [about, at, name]
  had_error

structure    == <<open, mid>>
enclosing    == <<loop_scopes, function_scopes, class_scopes>>
resolverVars == <<code, structure, scopes, enclosing, return_scopes, locals, warnings, had_error>>

Node(op, name, arg) == [op |-> op, name |-> name, arg |-> arg]
None == "none"

ResolverInit ==
  /\ code = <<>> /\ open = <<>> /\ mid = FALSE
  /\ scopes = <<>> /\ loop_scopes = <<"NONE">> /\ function_scopes = <<"NONE">>
  /\ class_scopes = <<"NONE">> /\ return_scopes = <<FALSE>>
  /\ locals = <<>> /\ warnings = {} /\ had_error = FALSE

-----------------------------------------------------------------------------
(* The program so far *)

Here == Len(code) + 1

Matches(node, choices) == Node(node.op, node.name, node.arg) \in choices

\* The outlines that the program follows, with room for the ends of what is open.
Followed == {o \in Outlines : /\ Len(code) + Len(open) <= Len(o)
                             /\ \A i \in DOMAIN code : Matches(code[i], o[i])}

Visit(op, name, arg, at) ==
  ~had_error /\ code' = Append(code, [op |-> op, name |-> name, arg |-> arg, at |-> at])

Inner       == IF open = <<>> THEN None ELSE Last(open).op
AtStatement == Inner \notin {"var", "class"}     \* where a list of statements goes on

Bodies == {"fun", "anonymous", "method", "getter"}

-----------------------------------------------------------------------------
(* Scopes *)

Fresh == [defined |-> FALSE, accessed |-> FALSE]
Known == [defined |-> TRUE, accessed |-> TRUE]

\* A Python dict with one key, and one after d[n] = v.
Entry(n, v)      == [m \in {n} |-> v]
Updated(d, n, v) == [m \in DOMAIN d \cup {n} |-> IF m = n THEN v ELSE d[m]]

Put(ss, n, state) ==
  IF ss = <<>> THEN ss ELSE [ss EXCEPT ![Len(ss)] = Updated(@, n, state)]

Declared(ss, n) == Put(ss, n, Fresh)

Defined(ss, n) ==
  IF ss = <<>> THEN ss ELSE [ss EXCEPT ![Len(ss)][n].defined = TRUE]

DeclaredAndDefined(ss, n) == Defined(Declared(ss, n), n)

Clash(n) == scopes # <<>> /\ n \in DOMAIN Last(scopes)

OwnInitializer(n) == Clash(n) /\ ~Last(scopes)[n].defined

NoName == [n \in {} |-> Fresh]

\* What _end_scope warns about in the scope opened at "at".
Unused(scope, at) ==
  {[about |-> "unused", at |-> at, name |-> n] : n \in {m \in DOMAIN scope : ~scope[m].accessed}}

\* Seeded faults, as in the other modules, precede what they replace.
HoldersOutermostFirst(ss, n) == {i \in 0..Len(ss) - 1 : n \in DOMAIN ss[i + 1]}

\* How many scopes out from the innermost the name is declared.
Holders(ss, n) == {i \in 0..Len(ss) - 1 : n \in DOMAIN ss[Len(ss) - i]}

\* _mark_as_accessed looks in one scope only.
AccessedInnermost(ss, n) ==
  IF ss = <<>> THEN ss
  ELSE IF n \notin DOMAIN Last(ss) THEN ss ELSE [ss EXCEPT ![Len(ss)][n].accessed = TRUE]

\* _resolve_local, for the node visited now; a name no scope declares is a global's.
Accessed(ss, n) ==
  IF Holders(ss, n) = {} THEN ss
  ELSE [ss EXCEPT ![Len(ss) - Min(Holders(ss, n))][n].accessed = TRUE]

ResolveLocal(ss, n) ==
  locals' = IF Holders(ss, n) = {} THEN locals ELSE Updated(locals, Here, Min(Holders(ss, n)))

-----------------------------------------------------------------------------
(* Statements *)

\* _resolve_statements: one warning for each list with something after a return.
Dead == AtStatement /\ Last(return_scopes) /\ open # <<>> /\ ~Last(open).warned

DeadHere == IF Dead THEN {[about |-> "unreachable", at |-> Here, name |-> None]} ELSE {}

Started == IF Dead THEN [open EXCEPT ![Len(open)].warned = TRUE] ELSE open

Opened(op, name) ==
  Append(Started, [op |-> op, name |-> name, at |-> Here, warned |-> FALSE])

Statement == AtStatement /\ warnings' = warnings \cup DeadHere

BeginScopes(ss, new) ==
  /\ scopes' = ss \o new
  /\ return_scopes' = return_scopes \o [i \in DOMAIN new |-> FALSE]

Block ==
  /\ Visit("block", None, {}, 0) /\ Statement
  /\ open' = Opened("block", None) /\ mid' = FALSE
  /\ BeginScopes(scopes, <<NoName>>)
  /\ UNCHANGED <<enclosing, locals, had_error>>

\* The branch and the loop body, which are blocks, each get a return scope of their own.
Guarded(op) ==
  /\ Visit(op, None, {}, 0) /\ Statement
  /\ open' = Opened(op, None) /\ mid' = FALSE
  /\ scopes' = Append(scopes, NoName)
  /\ return_scopes' = return_scopes \o <<FALSE, FALSE>>
  /\ UNCHANGED <<function_scopes, class_scopes, locals, had_error>>

If    == Guarded("if") /\ UNCHANGED loop_scopes
While == Guarded("while") /\ loop_scopes' = Append(loop_scopes, "WHILE")

Break ==
  /\ Visit("break", None, {}, 0) /\ Statement
  /\ open' = Started /\ mid' = FALSE
  /\ had_error' = (Last(loop_scopes) = "NONE")
  /\ UNCHANGED <<scopes, enclosing, return_scopes, locals>>

ReturnOf(valued) ==
  /\ Visit("return", None, valued, 0)
  /\ IF valued = {} THEN Statement /\ open' = Started
                    ELSE mid /\ AtStatement /\ UNCHANGED <<warnings, open>>
  /\ mid' = FALSE
  /\ had_error' = \/ Last(function_scopes) = "NONE"
                  \/ (valued # {} /\ Last(function_scopes) = "INITIALIZER")
  /\ return_scopes' = [return_scopes EXCEPT ![Len(return_scopes)] = TRUE]
  /\ UNCHANGED <<scopes, enclosing, locals>>

Return == \E valued \in {{}, {"value"}} : ReturnOf(valued)

VarDeclaration ==
  \E n \in Name :
    /\ Visit("var", n, {}, 0) /\ Statement
    /\ open' = Opened("var", n) /\ mid' = FALSE
    /\ scopes' = Declared(scopes, n) /\ had_error' = Clash(n)
    /\ UNCHANGED <<enclosing, return_scopes, locals>>

\* With or without an initializer in between.
VarDefined ==
  /\ Inner = "var" /\ Visit("define", Last(open).name, {}, Last(open).at)
  /\ open' = Front(open) /\ mid' = FALSE
  /\ scopes' = Defined(scopes, Last(open).name)
  /\ UNCHANGED <<enclosing, return_scopes, locals, warnings, had_error>>

FunctionBody(ss, type, params) ==
  /\ function_scopes' = Append(function_scopes, type)
  /\ BeginScopes(ss, <<[n \in params |-> [defined |-> TRUE, accessed |-> FALSE]]>>)
  /\ UNCHANGED <<loop_scopes, class_scopes, locals>>

Parameters == {{}} \cup {{n} : n \in Name}

Function ==
  \E n \in Name, params \in Parameters :
    /\ Visit("fun", n, params, 0) /\ Statement
    /\ open' = Opened("fun", n) /\ mid' = FALSE
    /\ FunctionBody(DeclaredAndDefined(scopes, n), "FUNCTION", params)
    /\ had_error' = Clash(n)

Method ==
  \E k \in Member, params \in Parameters :
    /\ Inner = "class" /\ Visit("method", k, params, 0)
    /\ open' = Opened("method", k) /\ mid' = FALSE
    /\ FunctionBody(scopes, IF k = "init" THEN "INITIALIZER" ELSE "METHOD", params)
    /\ UNCHANGED <<warnings, had_error>>

Getter ==
  \E k \in Member :
    /\ Inner = "class" /\ Visit("getter", k, {}, 0)
    /\ open' = Opened("getter", k) /\ mid' = FALSE
    /\ FunctionBody(scopes, IF k = "init" THEN "INITIALIZER" ELSE "GETTER", {})
    /\ UNCHANGED <<warnings, had_error>>

ClassDeclaration ==
  \E n \in Name, s \in Name \cup {None} :
    LET ss     == DeclaredAndDefined(scopes, n)
        supers == IF s = None THEN <<>> ELSE <<Entry("super", Known)>>
    IN /\ Visit("class", n, {s} \ {None}, 0) /\ Statement
       /\ open' = Opened("class", n) /\ mid' = FALSE
       /\ class_scopes' = Append(class_scopes, IF s = None THEN "CLASS" ELSE "SUBCLASS")
       /\ ResolveLocal(ss, s)
       /\ BeginScopes(Accessed(ss, s), supers \o <<Entry("this", Known)>>)
       /\ had_error' = (Clash(n) \/ s = n)
       /\ UNCHANGED <<loop_scopes, function_scopes>>

-----------------------------------------------------------------------------
(* Expressions *)

\* The first node of an expression: of a statement, or of an initializer.
Primary ==
  /\ AtStatement \/ (Inner = "var" /\ ~mid)
  /\ warnings' = warnings \cup DeadHere

Resolving(n) ==
  /\ ResolveLocal(scopes, n) /\ scopes' = Accessed(scopes, n)
  /\ mid' = TRUE
  /\ UNCHANGED <<enclosing, return_scopes>>

Variable ==
  \E n \in Name : /\ Visit("variable", n, {}, 0) /\ Primary /\ open' = Started
                  /\ Resolving(n) /\ had_error' = OwnInitializer(n)

This == /\ Visit("this", "this", {}, 0) /\ Primary /\ open' = Started
        /\ Resolving("this") /\ had_error' = (Last(class_scopes) = "NONE")

Super ==
  \E k \in Member : /\ Visit("super", k, {}, 0) /\ Primary /\ open' = Started
                    /\ Resolving("super") /\ had_error' = (Last(class_scopes) # "SUBCLASS")

AnonymousFunction ==
  \E params \in Parameters :
    /\ Visit("anonymous", None, params, 0) /\ Primary
    /\ open' = Opened("anonymous", None) /\ mid' = FALSE
    /\ FunctionBody(scopes, "FUNCTION", params)
    /\ UNCHANGED had_error

\* An argument is a literal.
Suffix ==
  /\ \/ \E args \in {{}, {"argument"}} : Visit("call", None, args, 0)
     \/ \E k \in Member : Visit("get", k, {}, 0)
  /\ mid /\ UNCHANGED <<structure, scopes, enclosing, return_scopes, locals, warnings, had_error>>

Assign ==
  \E n \in Name : /\ mid /\ Visit("assign", n, {}, 0)
                  /\ Resolving(n) /\ UNCHANGED <<open, warnings, had_error>>

-----------------------------------------------------------------------------
(* The ends of the nodes that hold others *)

Close(scopesLeft, returnsLeft, more) ==
  /\ Visit("end", None, {}, Last(open).at)
  /\ open' = Front(open)
  /\ scopes' = SubSeq(scopes, 1, Len(scopes) - scopesLeft)
  /\ return_scopes' = SubSeq(return_scopes, 1, Len(return_scopes) - returnsLeft)
  /\ warnings' = warnings \cup Unused(Last(scopes), Last(open).at) \cup more
  /\ UNCHANGED <<locals, had_error>>

\* The return scope of a branch or a loop body stays behind.
EndBlockOnce ==
  /\ Inner \in {"block", "if", "while"}
  /\ Close(1, 1, {}) /\ mid' = FALSE
  /\ loop_scopes' = IF Inner = "while" THEN Front(loop_scopes) ELSE loop_scopes
  /\ UNCHANGED <<function_scopes, class_scopes>>

EndBlock ==
  /\ Inner \in {"block", "if", "while"}
  /\ Close(1, IF Inner = "block" THEN 1 ELSE 2, {}) /\ mid' = FALSE
  /\ loop_scopes' = IF Inner = "while" THEN Front(loop_scopes) ELSE loop_scopes
  /\ UNCHANGED <<function_scopes, class_scopes>>

EndFunction ==
  /\ Inner \in Bodies
  /\ Close(1, 1,
           IF Last(function_scopes) = "GETTER" /\ ~Last(return_scopes)
           THEN {[about |-> "getter", at |-> Last(open).at, name |-> Last(open).name]} ELSE {})
  /\ mid' = (Inner = "anonymous")
  /\ function_scopes' = Front(function_scopes)
  /\ UNCHANGED <<loop_scopes, class_scopes>>

EndClass ==
  /\ Inner = "class"
  /\ LET both == IF Last(class_scopes) = "SUBCLASS" THEN 2 ELSE 1 IN Close(both, both, {})
  /\ mid' = FALSE
  /\ class_scopes' = Front(class_scopes)
  /\ UNCHANGED <<loop_scopes, function_scopes>>

VisitNext ==
  \/ Block \/ If \/ While \/ Break \/ Return
  \/ VarDeclaration \/ VarDefined \/ Function \/ Method \/ Getter \/ ClassDeclaration
  \/ Variable \/ This \/ Super \/ AnonymousFunction \/ Suffix \/ Assign
  \/ EndBlock \/ EndFunction \/ EndClass

ResolverNext == VisitNext /\ Followed' # {}

\* For the shapes of the stacks: the nodes that are still being visited.
OpenNodes(ops) == Cardinality({i \in DOMAIN open : open[i].op \in ops})
OpenSubclasses == Cardinality({i \in DOMAIN class_scopes : class_scopes[i] = "SUBCLASS"})
=============================================================================
