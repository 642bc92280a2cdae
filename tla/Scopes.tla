------------------------------- MODULE Scopes -------------------------------
(***************************************************************************)
(* How clox/compiler.c finds the variable a name means while it parses: an *)
(* array of the locals of each function being compiled, popped when their  *)
(* block ends, and an array of upvalues through which a function reaches   *)
(* the locals of those around it.                                          *)
(*                                                                         *)
(* An action is a production of the grammar, in any order a program allows *)
(* them.  resolveUpvalue recurses outward and then adds an upvalue to each *)
(* function on the way back; each of those levels is a step.  After an     *)
(* error the parser goes on; what synchronize skips is as if not written.  *)
(*                                                                         *)
(* Abstracted: expressions are the names in them, and of the bytecode only *)
(* what refers to a variable is kept.  Indices start at 1.                 *)
(***************************************************************************)
EXTENDS Integers, Sequences, FiniteSets, SequencesExt

CONSTANTS
  Name,          \* identifiers
  UINT8_COUNT,   \* the length of the arrays locals and upvalues
  SuperNames,    \* "super" and the identifiers that begin with those letters
  MaxFunctions, MaxScope   \* bound nesting

ASSUME ScopesAssumption ==
  /\ {"none", "this", "super"} \cap Name = {}
  /\ "super" \in SuperNames /\ SuperNames \subseteq Name \cup {"super"}
  /\ UINT8_COUNT \in Nat /\ UINT8_COUNT >= 2
  /\ MaxFunctions \in Nat \ {0} /\ MaxScope \in Nat \ {0}

VARIABLES
  compilers,   \* the chain from the script's Compiler to current
  classes,     \* the chain from the outermost ClassCompiler to currentClass
  pc,          \* what the parser is in the middle of
  todo,        \* the names namedVariable is still to be called with
  work,        \* the upvalue resolveUpvalue is about to add, and to which function
  hadError,    \* parser.hadError: the bytecode will be thrown away
  emitted      \* the instructions and the messages of the last step

vars == <<compilers, classes, pc, todo, work, hadError, emitted>>

NoWork == [level |-> 0, index |-> 0, isLocal |-> FALSE, name |-> "none"]

Local(n, d) == [name |-> n, depth |-> d, read |-> FALSE, isCaptured |-> FALSE]

\* Slot 0 holds the function that is called, or the receiver in a method.
Compiler(slot0, depth) == [locals |-> <<Local(slot0, 0)>>, upvalues |-> <<>>, scopeDepth |-> depth]

Init == /\ compilers = <<Compiler("this", 0)>>
        /\ classes = <<>> /\ pc = "statement" /\ todo = <<>> /\ work = NoWork
        /\ hadError = FALSE /\ emitted = <<>>

Top     == Len(compilers)
current == compilers[Top]

Instruction(op, arg, n) == [op |-> op, arg |-> arg, name |-> n]

\* The first of two errors is reported: panicMode holds back the second.
Report(rule, n) == [rule |-> rule, name |-> n]
NoError         == Report("none", "none")
First(e, f)     == IF e = NoError THEN f ELSE e

\* What is emitted once there was an error is left out: nothing uses it.
Finish(e, code) ==
  /\ hadError' = (hadError \/ e # NoError)
  /\ emitted' = IF hadError THEN <<>>
                ELSE IF e = NoError THEN code ELSE <<Instruction(e.rule, 0, e.name)>>

-----------------------------------------------------------------------------
(* Declarations *)

Clashes(c, n) ==
  \E i \in DOMAIN c.locals :
    /\ c.locals[i].name = n
    /\ \A j \in i..Len(c.locals) : c.locals[j].depth = -1 \/ c.locals[j].depth >= c.scopeDepth

\* Seeded faults, as in the other modules, precede what they replace.
AddLocalUnchecked(c, n) == [c EXCEPT !.locals = Append(@, Local(n, -1))]

AddLocal(c, n) ==
  IF Len(c.locals) = UINT8_COUNT THEN c
  ELSE [c EXCEPT !.locals = Append(@, Local(n, -1))]

DeclareVariable(c, n) == IF c.scopeDepth = 0 THEN c ELSE AddLocal(c, n)

DeclareError(c, n) ==
  IF c.scopeDepth = 0 THEN NoError
  ELSE IF Clashes(c, n) THEN Report("redeclared", n)
  ELSE IF Len(c.locals) = UINT8_COUNT THEN Report("too_many_locals", n) ELSE NoError

MarkInitialized(c) ==
  IF c.scopeDepth = 0 THEN c
  ELSE [c EXCEPT !.locals[Len(c.locals)].depth = c.scopeDepth]

With(c) == [compilers EXCEPT ![Top] = c]

\* Between the methods of a class, when it is not inside one of them.
InClassBody == classes # <<>> /\ Last(classes).fn = Top

Ready == todo = <<>> /\ work = NoWork

AtStatement == Ready /\ pc = "statement" /\ ~InClassBody

\* varDeclaration up to the initializer, and parameters, which have none
VarDeclaration(n) ==
  /\ AtStatement
  /\ compilers' = With(DeclareVariable(current, n))
  /\ Finish(DeclareError(current, n), <<>>)
  /\ pc' = "initializer"
  /\ UNCHANGED <<classes, todo, work>>

DefineVariable ==
  /\ Ready /\ pc = "initializer"
  /\ compilers' = With(MarkInitialized(current))
  /\ pc' = "statement" /\ Finish(NoError, <<>>)
  /\ UNCHANGED <<classes, todo, work>>

BeginScope ==
  /\ AtStatement /\ current.scopeDepth < MaxScope
  /\ compilers' = With([current EXCEPT !.scopeDepth = @ + 1])
  /\ Finish(NoError, <<>>)
  /\ UNCHANGED <<classes, pc, todo, work>>

KeepsBlock(c, k) ==
  /\ \A j \in (k + 1)..Len(c.locals) : c.locals[j].depth > c.scopeDepth
  /\ k > 0 => c.locals[k].depth <= c.scopeDepth

\* The loop of endScope stops at the last local that is not of the block.
Keeps(c, k) ==
  /\ \A j \in (k + 1)..Len(c.locals) : c.locals[j].depth > c.scopeDepth - 1
  /\ k > 0 => c.locals[k].depth <= c.scopeDepth - 1

Ended(c, k) == [c EXCEPT !.scopeDepth = @ - 1, !.locals = SubSeq(@, 1, k)]

EndOp(l) == IF l.isCaptured THEN "OP_CLOSE_UPVALUE" ELSE "OP_POP"

\* memcmp compares five characters of what may be a longer name.
Leaves(l) == <<Instruction(EndOp(l), 0, l.name)>> \o
               IF l.read \/ l.name \in SuperNames THEN <<>> ELSE <<Instruction("warning", 0, l.name)>>

EndScopeCode(c, k) == FlattenSeq(Reverse([i \in 1..(Len(c.locals) - k) |-> Leaves(c.locals[k + i])]))

EndScope ==
  /\ AtStatement
  /\ current.scopeDepth > IF Top = 1 THEN 0 ELSE 1
  /\ \E k \in 0..Len(current.locals) :
       /\ Keeps(current, k)
       /\ compilers' = With(Ended(current, k)) /\ Finish(NoError, EndScopeCode(current, k))
  /\ UNCHANGED <<classes, pc, todo, work>>

-----------------------------------------------------------------------------
(* Names *)

\* resolveLocal finds the last local of that name.
Resolves(c, n, i) == c.locals[i].name = n /\ \A j \in (i + 1)..Len(c.locals) : c.locals[j].name # n
Lacks(c, n)       == \A i \in DOMAIN c.locals : c.locals[i].name # n

\* Reading an uninitialized local is an error, and the local is read all the same.
OwnInitializer(l) == IF l.depth = -1 THEN Report("own_initializer", l.name) ELSE NoError

CapturedOnlyRead(l) == [l EXCEPT !.read = TRUE]

Captured(l) == [l EXCEPT !.read = TRUE, !.isCaptured = TRUE]

\* namedVariable; e is the error before it, the names in rest come next. Of
\* resolveUpvalue, the way out to the function whose local it is.
NamedVariable(n, rest, e) ==
  /\ todo' = rest
  /\ \/ \E i \in DOMAIN current.locals :
          /\ Resolves(current, n, i)
          /\ compilers' = [compilers EXCEPT ![Top].locals[i].read = TRUE]
          /\ Finish(First(e, OwnInitializer(current.locals[i])), <<Instruction("OP_GET_LOCAL", i, n)>>)
          /\ UNCHANGED work
     \/ \E f \in 1..(Top - 1) : \E i \in DOMAIN compilers[f].locals :
          /\ \A g \in (f + 1)..Top : Lacks(compilers[g], n)
          /\ Resolves(compilers[f], n, i)
          /\ compilers' = [compilers EXCEPT ![f].locals[i] = Captured(@)]
          /\ Finish(First(e, OwnInitializer(compilers[f].locals[i])), <<>>)
          /\ work' = [level |-> f + 1, index |-> i, isLocal |-> TRUE, name |-> n]
     \/ /\ \A f \in 1..Top : Lacks(compilers[f], n)
        /\ Finish(e, <<Instruction("OP_GET_GLOBAL", 0, n)>>)
        /\ UNCHANGED <<compilers, work>>

SameIndex(u, v) == u.index = v.index

Same(u, v) == u.index = v.index /\ u.isLocal = v.isLocal

\* addUpvalue for one function, on the way back in to the current one
AddUpvalue ==
  /\ work # NoWork
  /\ LET c     == compilers[work.level]
         u     == [index |-> work.index, isLocal |-> work.isLocal]
         known == \E j \in DOMAIN c.upvalues : Same(c.upvalues[j], u)
         full  == ~known /\ Len(c.upvalues) = UINT8_COUNT
         after == IF known \/ full THEN c.upvalues ELSE Append(c.upvalues, u)
     IN \E i \in DOMAIN after :
          /\ IF full THEN i = 1 ELSE Same(after[i], u) /\ \A j \in 1..(i - 1) : ~Same(after[j], u)
          /\ compilers' = [compilers EXCEPT ![work.level].upvalues = after]
          /\ work' = IF work.level = Top THEN NoWork
                     ELSE [work EXCEPT !.level = @ + 1, !.index = i, !.isLocal = FALSE]
          /\ Finish(IF full THEN Report("too_many_captures", work.name) ELSE NoError,
                    IF work.level = Top THEN <<Instruction("OP_GET_UPVALUE", i, work.name)>> ELSE <<>>)
  /\ UNCHANGED <<classes, pc, todo>>

ResolveNext ==
  /\ todo # <<>> /\ work = NoWork
  /\ NamedVariable(Head(todo), Tail(todo), NoError)
  /\ UNCHANGED <<classes, pc>>

InExpression == Ready /\ pc \in {"statement", "initializer"} /\ ~InClassBody

Variable(n) ==
  /\ InExpression
  /\ NamedVariable(n, <<>>, NoError)
  /\ UNCHANGED <<classes, pc>>

This ==
  /\ InExpression
  /\ IF classes = <<>>
     THEN /\ Finish(Report("outside_a_class", "this"), <<>>)
          /\ UNCHANGED <<compilers, todo, work>>
     ELSE NamedVariable("this", <<>>, NoError)
  /\ UNCHANGED <<classes, pc>>

SuperError ==
  IF classes = <<>> THEN Report("outside_a_class", "super")
  ELSE IF ~Last(classes).hasSuperclass THEN Report("no_superclass", "super") ELSE NoError

\* super.method is compiled as the receiver and then the superclass.
Super ==
  /\ InExpression
  /\ NamedVariable("this", <<"super">>, SuperError)
  /\ UNCHANGED <<classes, pc>>

-----------------------------------------------------------------------------
(* Functions and classes *)

FunDeclaration(n) ==
  /\ AtStatement /\ Top < MaxFunctions
  /\ compilers' = Append(With(MarkInitialized(DeclareVariable(current, n))), Compiler("none", 1))
  /\ Finish(DeclareError(current, n), <<>>)
  /\ UNCHANGED <<classes, pc, todo, work>>

Method ==
  /\ Ready /\ pc = "statement" /\ InClassBody /\ Top < MaxFunctions
  /\ compilers' = Append(compilers, Compiler("this", 1)) /\ Finish(NoError, <<>>)
  /\ UNCHANGED <<classes, pc, todo, work>>

Operand(u) == Instruction(IF u.isLocal THEN "local_operand" ELSE "upvalue_operand", u.index, "none")

\* The operands of OP_CLOSURE. No scope ends: nothing is popped, nothing warned.
\* The defineVariable after a function, not a method, marks its name once more.
EndFunction ==
  /\ AtStatement /\ Top > 1 /\ current.scopeDepth = 1
  /\ LET isMethod == classes # <<>> /\ Last(classes).fn = Top - 1
     IN compilers' = [f \in 1..(Top - 1) |-> IF f = Top - 1 /\ ~isMethod
                                             THEN MarkInitialized(compilers[f]) ELSE compilers[f]]
  /\ Finish(NoError, [j \in DOMAIN current.upvalues |-> Operand(current.upvalues[j])])
  /\ UNCHANGED <<classes, pc, todo, work>>

ClassDeclaration(n) ==
  /\ AtStatement
  /\ compilers' = With(MarkInitialized(DeclareVariable(current, n)))
  /\ Finish(DeclareError(current, n), <<>>)
  /\ classes' = Append(classes, [name |-> n, hasSuperclass |-> FALSE, fn |-> Top])
  /\ pc' = "class"
  /\ UNCHANGED <<todo, work>>

Superclass(s) ==
  /\ Ready /\ pc = "class" /\ current.scopeDepth < MaxScope
  /\ NamedVariable(s, <<>>, NoError)
  /\ pc' = IF s = Last(classes).name THEN "inherits_itself" ELSE "inherits"
  /\ UNCHANGED classes

\* The class's name is resolved twice, for OP_INHERIT and for the methods.
Inherit ==
  /\ Ready /\ pc \in {"inherits", "inherits_itself"}
  /\ LET inner == [current EXCEPT !.scopeDepth = @ + 1]
         name  == Last(classes).name
         self  == IF pc = "inherits_itself" THEN Report("inherits_itself", name) ELSE NoError
         full  == IF Len(current.locals) = UINT8_COUNT THEN Report("too_many_locals", "super") ELSE NoError
     IN /\ compilers' = With(MarkInitialized(AddLocal(inner, "super")))
        /\ Finish(First(self, full), <<>>)
        /\ todo' = <<name, name>>
  /\ classes' = [classes EXCEPT ![Len(classes)].hasSuperclass = TRUE]
  /\ pc' = "statement"
  /\ UNCHANGED work

ClassBody ==
  /\ Ready /\ pc = "class"
  /\ NamedVariable(Last(classes).name, <<>>, NoError)
  /\ pc' = "statement"
  /\ UNCHANGED classes

EndClass ==
  /\ Ready /\ pc = "statement" /\ InClassBody
  /\ IF Last(classes).hasSuperclass
     THEN \E k \in 0..Len(current.locals) :
            /\ Keeps(current, k)
            /\ compilers' = With(Ended(current, k)) /\ Finish(NoError, EndScopeCode(current, k))
     ELSE compilers' = compilers /\ Finish(NoError, <<>>)
  /\ classes' = Front(classes)
  /\ UNCHANGED <<pc, todo, work>>

\* compile returns; at the prompt it is called again for the next line.
EndScript ==
  /\ AtStatement /\ Top = 1 /\ current.scopeDepth = 0
  /\ compilers' = <<Compiler("this", 0)>> /\ hadError' = FALSE /\ emitted' = <<>>
  /\ UNCHANGED <<classes, pc, todo, work>>

Next ==
  \/ \E n \in Name : \/ VarDeclaration(n) \/ FunDeclaration(n) \/ ClassDeclaration(n)
                     \/ Superclass(n) \/ Variable(n)
  \/ DefineVariable \/ BeginScope \/ EndScope
  \/ This \/ Super \/ ResolveNext \/ AddUpvalue
  \/ Method \/ EndFunction \/ Inherit \/ ClassBody \/ EndClass \/ EndScript

Spec == Init /\ [][Next]_vars

-----------------------------------------------------------------------------
(* Properties *)

LocalType == [name : Name \cup {"none", "this", "super"}, depth : -1..MaxScope,
              read : BOOLEAN, isCaptured : BOOLEAN]

UpvalueType == [index : 1..UINT8_COUNT, isLocal : BOOLEAN]

CompilerType == [locals : Seq(LocalType), upvalues : Seq(UpvalueType), scopeDepth : 0..MaxScope]

\* Every array stays within its bounds, also after errors, and the array of
\* locals never gets empty: markInitialized and endScope look at its last one.
TypeOK ==
  /\ compilers \in Seq(CompilerType) /\ Top \in 1..MaxFunctions
  /\ \A f \in 1..Top : /\ Len(compilers[f].locals) \in 1..UINT8_COUNT
                       /\ Len(compilers[f].upvalues) <= UINT8_COUNT
  /\ classes \in Seq([name : Name, hasSuperclass : BOOLEAN, fn : 1..Top])
  /\ pc \in {"statement", "initializer", "class", "inherits", "inherits_itself"}
  /\ todo \in Seq(Name \cup {"super"})
  /\ work = NoWork \/ /\ work \in [level : 2..Top, index : 1..UINT8_COUNT, isLocal : BOOLEAN,
                                   name : Name \cup {"this", "super"}]
  /\ hadError \in BOOLEAN

\* What an operand means inside function c: a local of c that is marked
\* captured, or one of the upvalues of c.
Reaches(c, u) ==
  IF u.isLocal THEN u.index \in DOMAIN c.locals /\ c.locals[u.index].isCaptured
  ELSE u.index \in DOMAIN c.upvalues

\* OP_CLOSURE never finds an operand that is out of the enclosing frame's
\* locals or the enclosing closure's upvalues, and every local it captures is
\* one endScope will close and not pop: resolveUpvalue and addUpvalue.
OperandsReach ==
  /\ \A f \in 2..Top : \A j \in DOMAIN compilers[f].upvalues :
       Reaches(compilers[f - 1], compilers[f].upvalues[j])
  /\ compilers[1].upvalues = <<>>
  /\ work # NoWork => Reaches(compilers[work.level - 1], work)

\* The locals of a function lie in the order of their blocks, the uninitialized
\* one, if any, last: endScope and declareVariable stop at the first local of
\* an outer block and rely on there being none of theirs beyond it.
DepthsOrdered ==
  \A f \in 1..Top : \A i, j \in DOMAIN compilers[f].locals :
    i < j => /\ compilers[f].locals[i].depth # -1
             /\ compilers[f].locals[j].depth = -1 \/
                compilers[f].locals[i].depth <= compilers[f].locals[j].depth

-----------------------------------------------------------------------------
(* What the arrays stand for, in terms of Lexical.tla *)

BlockOf(c, i) == IF c.locals[i].depth = -1 THEN c.scopeDepth ELSE c.locals[i].depth

\* The variables of the block at depth d.
BlockAt(c, d) ==
  LET own == {i \in DOMAIN c.locals : BlockOf(c, i) = d}
  IN [n \in {c.locals[i].name : i \in own} |->
        LET l == c.locals[CHOOSE i \in own : c.locals[i].name = n]
        IN [ready |-> l.depth # -1, read |-> l.read, captured |-> l.isCaptured]]

BlocksOf(c) == [b \in 1..(c.scopeDepth + 1) |-> BlockAt(c, b - 1)]

Blocks == IF hadError THEN <<>> ELSE [f \in 1..Top |-> BlocksOf(compilers[f])]

LocalVariable(f, i) == <<f, BlockOf(compilers[f], i) + 1, compilers[f].locals[i].name>>

UpvalueVariables ==
  LET of[f \in 1..Top] ==
        [j \in DOMAIN compilers[f].upvalues |->
           LET u == compilers[f].upvalues[j]
           IN IF u.isLocal THEN LocalVariable(f - 1, u.index) ELSE of[f - 1][u.index]]
  IN of

OperandVariable(f, u) ==
  IF u.isLocal THEN LocalVariable(f, u.index) ELSE UpvalueVariables[f][u.index]

\* The function that resolveUpvalue is at, and those inside it, will get theirs.
Pending(f) ==
  IF work # NoWork /\ f >= work.level THEN {OperandVariable(work.level - 1, work)} ELSE {}

Captures ==
  IF hadError THEN <<>>
  ELSE [f \in 1..Top |-> Range(UpvalueVariables[f]) \cup Pending(f)]

\* The place of a class's "super": the innermost block, which has nothing else.
SuperPlace(class) ==
  IF class.hasSuperclass THEN <<class.fn, compilers[class.fn].scopeDepth + 1>> ELSE <<0, 0>>

Classes ==
  IF hadError THEN <<>>
  ELSE [k \in DOMAIN classes |-> [name |-> classes[k].name, super |-> SuperPlace(classes[k])]]

Header ==
  IF hadError THEN "none"
  ELSE CASE pc = "inherits" -> "other" [] pc = "inherits_itself" -> "itself" [] OTHER -> "none"

Means(e) ==
  LET outer == <<Top, current.scopeDepth + 2, e.name>>
  IN CASE e.op = "OP_GET_LOCAL"     -> <<"local", LocalVariable(Top, e.arg)>>
       [] e.op = "OP_GET_UPVALUE"   -> <<"upvalue", UpvalueVariables[Top][e.arg]>>
       [] e.op = "OP_GET_GLOBAL"    -> <<"global", <<0, 0, e.name>>>>
       [] e.op = "OP_POP"           -> <<"drop", outer>>
       [] e.op = "OP_CLOSE_UPVALUE" -> <<"close", outer>>
       [] e.op = "warning"          -> <<"unused", outer>>
       [] e.op = "local_operand"    -> <<"capture", LocalVariable(Top, e.arg)>>
       [] e.op = "upvalue_operand"  -> <<"capture", UpvalueVariables[Top][e.arg]>>

Reported == {<<emitted[k].op, <<0, 0, emitted[k].name>>>> : k \in DOMAIN emitted}

\* What is resolved is decided when the variable is found, before the upvalues.
Answer ==
  IF hadError THEN Reported
  ELSE IF work # NoWork THEN {<<"upvalue", OperandVariable(work.level - 1, work)>>}
  ELSE {Means(emitted[k]) : k \in DOMAIN emitted}

Promise == INSTANCE Lexical WITH Quiet <- SuperNames, blocks <- Blocks, captures <- Captures,
                                 classes <- Classes, header <- Header,
                                 rejected <- hadError, answer <- Answer

\* Every name is resolved to the variable of the innermost block that declares
\* it, through however many functions; exactly the variables that closures use
\* are captured and closed; and an error is reported exactly when a rule is
\* broken: namedVariable, endScope, function and what they call.
KeepsPromise == Promise!Spec
=============================================================================
