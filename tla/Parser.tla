------------------------------- MODULE Parser -------------------------------
(***************************************************************************)
(* clox's compiler (compiler.c): one pass that parses the tokens by        *)
(* recursive descent, expressions by precedence, emits bytecode as it      *)
(* goes, and after an error skips to the next statement.  The state of the *)
(* pass is a record that every operator below takes and returns, as every  *)
(* C function reads and changes `parser' and `current'.                    *)
(*                                                                         *)
(* Names are all distinct here, so that a name never means a local: how    *)
(* names resolve is modelled in Scopes.tla.  A local counts as a stack     *)
(* slot only.                                                              *)
(***************************************************************************)
EXTENDS Tokens, Code, FiniteSetsExt

CONSTANTS
  Base,          \* the values of a byte: a jump's two bytes hold less than Base * Base
  MaxConstants,  \* UINT8_MAX + 1
  MaxArguments   \* 255

ASSUME ParserAssumption == /\ Base \in Nat \ {0, 1} /\ MaxConstants \in Nat \ {0}
                           /\ MaxArguments \in Nat \ {0}

PrecNone == 0
PrecAssignment == 1
PrecTernary == 2
PrecOr == 3
PrecAnd == 4
PrecEquality == 5
PrecComparison == 6
PrecTerm == 7
PrecFactor == 8
PrecUnary == 9
PrecCall == 10

Precedence(k) == CASE k \in {"(", ".", "["} -> PrecCall
                   [] k \in MultiplicationTokens -> PrecFactor
                   [] k \in AdditionTokens -> PrecTerm
                   [] k \in ComparisonTokens -> PrecComparison
                   [] k \in EqualityTokens -> PrecEquality
                   [] k = "and" -> PrecAnd
                   [] k = "or" -> PrecOr
                   [] k = "?" -> PrecTernary
                   [] OTHER -> PrecNone

PrefixKinds == {"(", "-", "!", "id", "init", "num", "nil", "this", "super"}

Opcodes(k) == CASE k = "+" -> <<Op("ADD")>>
                [] k = "-" -> <<Op("SUBTRACT")>>
                [] k = "*" -> <<Op("MULTIPLY")>>
                [] k = "<" -> <<Op("LESS")>>
                [] k = ">=" -> <<Op("LESS"), Op("NOT")>>
                [] k = "==" -> <<Op("EQUAL")>>

-----------------------------------------------------------------------------
(* The state of the pass.  `marks' and `warned' are not the code's: they   *)
(* keep where each declaration's code begins and how many slots the        *)
(* compiler believes are in use there, and the statements called dead.     *)

NewCompiler(type) ==
  [type |-> type, code |-> <<>>, constants |-> <<>>, depth |-> 0, locals |-> <<0>>,
   arity |-> 0, returned |-> FALSE, marks |-> {}, warned |-> {}]

Start == [cur |-> 0, prev |-> 0, panic |-> FALSE, errors |-> <<>>,
          current |-> <<NewCompiler("script")>>, classes |-> <<>>, functions |-> <<>>]

Compiler(s) == Last(s.current)
Set(s, c) == [s EXCEPT !.current[Len(s.current)] = c]
Count(s) == Len(Compiler(s).code)

Emit(s, cells) == Set(s, [Compiler(s) EXCEPT !.code = @ \o cells])

\* Seeded fault: reports the errors that follow from the first one.
ErrorAtAlways(s, place, what) ==
  [s EXCEPT !.panic = TRUE, !.errors = Append(@, [at |-> place, what |-> what])]

ErrorAt(s, place, what) ==
  IF s.panic THEN s
  ELSE [s EXCEPT !.panic = TRUE, !.errors = Append(@, [at |-> place, what |-> what])]

Error(s, what) == ErrorAt(s, s.prev, what)
ErrorAtCurrent(s, what) == ErrorAt(s, s.cur, what)

Readable(i) == LET end == Len(tokens) + 1 IN Min({end} \cup {j \in i .. end : Kind(j) # "bad"})
Scanned(s, place) == IF s.cur > place THEN ErrorAt(s, place, "scan") ELSE s
Advance(s) == Scanned([s EXCEPT !.prev = s.cur, !.cur = Readable(s.cur + 1)], s.cur + 1)

Check(s, k) == Fits(s.cur, k)
Consume(s, k) == IF Check(s, k) THEN Advance(s) ELSE ErrorAtCurrent(s, "syntax")

EmitJump(s, op) == Emit(s, <<Op(op), Byte(Base - 1), Byte(Base - 1)>>)

\* Offset of the operand of a jump just emitted.
Operand(s) == Count(s) - 2

Limited(s, offset) == IF offset > Base * Base - 1 THEN Error(s, "limit") ELSE s
High(offset) == Byte((offset \div Base) % Base)
Low(offset) == Byte(offset % Base)

PatchJump(s, offset) ==
  LET jump == Count(s) - offset - 2
      Patch(t) == Set(t, [Compiler(t) EXCEPT !.code[offset + 1] = High(jump), !.code[offset + 2] = Low(jump)])
  IN  Patch(Limited(s, jump))

\* Seeded fault: the offset leaves out its own two bytes.
EmitLoopNoOperand(s, loopStart) ==
  LET offset == Count(s) + 1 - loopStart IN Emit(s, <<Op("LOOP"), High(offset), Low(offset)>>)

EmitLoop(s, loopStart) ==
  LET offset == Count(s) + 1 - loopStart + 2
  IN  Emit(Limited(Emit(s, <<Op("LOOP")>>), offset), <<High(offset), Low(offset)>>)

\* makeConstant adds the value whatever the index; a value that has no index gets 0.
NextConstant(s) == LET n == Len(Compiler(s).constants) IN IF n < MaxConstants THEN n ELSE 0
AddConstant(s, place) ==
  LET t == IF Len(Compiler(s).constants) < MaxConstants THEN s ELSE Error(s, "limit")
  IN  Set(t, [Compiler(t) EXCEPT !.constants = Append(@, place)])

EmitConstant(s, op, place) == Emit(AddConstant(s, place), <<Op(op), Byte(NextConstant(s))>>)

EmitReturn(s) ==
  Emit(s, IF Compiler(s).type = "initializer"
          THEN <<Op("GET_LOCAL"), Byte(0), Op("RETURN")>> ELSE <<Op("NIL"), Op("RETURN")>>)

-----------------------------------------------------------------------------
(* Scopes and locals, as slots.                                            *)

BeginScope(s) == Set(s, [Compiler(s) EXCEPT !.depth = @ + 1])

EndScope(s) ==
  LET c == Compiler(s)
      kept == Max({0} \cup {i \in DOMAIN c.locals : c.locals[i] <= c.depth - 1})
      pops == [i \in 1 .. Len(c.locals) - kept |-> Op("POP")]
  IN  Set(s, [c EXCEPT !.depth = @ - 1, !.locals = SubSeq(@, 1, kept), !.code = @ \o pops])

AddLocal(s) == Set(s, [Compiler(s) EXCEPT !.locals = Append(@, -1)])
DeclareVariable(s) == IF Compiler(s).depth = 0 THEN s ELSE AddLocal(s)

MarkInitialized(s) ==
  IF Compiler(s).depth = 0 THEN s
  ELSE Set(s, [Compiler(s) EXCEPT !.locals[Len(Compiler(s).locals)] = Compiler(s).depth])

ParseVariable(s) ==
  LET t == DeclareVariable(Consume(s, "id"))
  IN  IF Compiler(t).depth > 0 THEN t ELSE AddConstant(t, t.prev)

DefineVariable(s, global) ==
  IF Compiler(s).depth > 0 THEN MarkInitialized(s)
  ELSE Emit(s, <<Op("DEFINE_GLOBAL"), Byte(global)>>)

-----------------------------------------------------------------------------
RECURSIVE ParsePrecedence(_, _), Infixes(_, _, _), Arguments(_, _), Parameters(_),
          Block(_), Methods(_), Declaration(_), Statement(_), Synchronize(_)

Expression(s) == ParsePrecedence(s, PrecAssignment)

\* The arguments of a call, and how many there are: one byte, which counts past its end.
Counted(s, n) == IF n = MaxArguments THEN Error(s, "limit") ELSE s
MoreArguments(s, n) ==
  IF Check(s, ",") THEN Arguments(Advance(s), n) ELSE <<Consume(s, ")"), n>>
Arguments(s, n) == MoreArguments(Counted(Expression(s), n), n + 1)

ArgumentList(s) == IF Check(s, ")") THEN <<Consume(s, ")"), 0>> ELSE Arguments(s, 0)

EmitCall(args, cells) == Emit(args[1], Append(cells, Byte(args[2])))

And(s) ==
  LET left == EmitJump(s, "JUMP_IF_FALSE")
  IN  PatchJump(ParsePrecedence(Emit(left, <<Op("POP")>>), PrecAnd), Operand(left))

Or(s) ==
  LET left == EmitJump(s, "JUMP_IF_FALSE")
      end == EmitJump(left, "JUMP")
      test == PatchJump(end, Operand(left))
  IN  PatchJump(ParsePrecedence(Emit(test, <<Op("POP")>>), PrecOr), Operand(end))

TernaryElse(s, test) ==
  LET end == EmitJump(s, "JUMP")
  IN  PatchJump(Expression(Emit(PatchJump(end, test), <<Op("POP")>>)), Operand(end))

Ternary(s) ==
  LET test == EmitJump(s, "JUMP_IF_FALSE")
  IN  TernaryElse(Consume(Expression(Emit(test, <<Op("POP")>>)), ":"), Operand(test))

BinaryOperator(s) ==
  LET k == Kind(s.prev)
  IN  Emit(ParsePrecedence(s, Precedence(k) + 1), Opcodes(k))

Call(s) == EmitCall(ArgumentList(s), <<Op("CALL")>>)

Subscript(s) == Emit(Consume(Expression(s), "]"), <<Op("SUBSCRIPT")>>)

\* Seeded fault: an assignment to a property wherever one may be read.
PropertyUseAlwaysAssigns(s, name, canAssign) ==
  IF Check(s, "=") THEN Emit(Expression(Advance(s)), <<Op("SET_PROPERTY"), name>>)
  ELSE Emit(s, <<Op("GET_PROPERTY"), name>>)

\* A use of a property, or of a global, once its name is a constant.
PropertyUse(s, name, canAssign) ==
  CASE canAssign /\ Check(s, "=") -> Emit(Expression(Advance(s)), <<Op("SET_PROPERTY"), name>>)
    [] ~(canAssign /\ Check(s, "=")) /\ Check(s, "(") ->
         EmitCall(ArgumentList(Advance(s)), <<Op("INVOKE"), name>>)
    [] OTHER -> Emit(s, <<Op("GET_PROPERTY"), name>>)

GlobalUse(s, name, canAssign) ==
  IF canAssign /\ Check(s, "=") THEN Emit(Expression(Advance(s)), <<Op("SET_GLOBAL"), name>>)
  ELSE Emit(s, <<Op("GET_GLOBAL"), name>>)

Named(s, canAssign) == PropertyUse(AddConstant(s, s.prev), Byte(NextConstant(s)), canAssign)
Dot(s, canAssign) == Named(Consume(s, "id"), canAssign)
Variable(s, canAssign) == GlobalUse(AddConstant(s, s.prev), Byte(NextConstant(s)), canAssign)

This(s) == IF s.classes = <<>> THEN Error(s, "static") ELSE Emit(s, <<Op("GET_LOCAL"), Byte(0)>>)

Superclass(s) == Emit(s, <<Op("GET_UPVALUE"), Byte(0)>>)
SuperInvoke(args, name) ==
  EmitCall(<<Superclass(args[1]), args[2]>>, <<Op("SUPER_INVOKE"), name>>)

SuperMethod(s, name) ==
  IF Check(s, "(") THEN SuperInvoke(ArgumentList(Advance(s)), name)
  ELSE Emit(Superclass(s), <<Op("GET_SUPER"), name>>)

SuperNamed(s) ==
  SuperMethod(Emit(AddConstant(s, s.prev), <<Op("GET_LOCAL"), Byte(0)>>), Byte(NextConstant(s)))

SuperCall(s) ==
  LET t == IF s.classes = <<>> \/ ~Last(s.classes) THEN Error(s, "static") ELSE s
  IN  SuperNamed(Consume(Consume(t, "."), "id"))

UnaryOperator(s) ==
  Emit(ParsePrecedence(s, PrecUnary), <<Op(IF Kind(s.prev) = "!" THEN "NOT" ELSE "NEGATE")>>)

Prefix(s, canAssign) ==
  LET k == Kind(s.prev)
  IN  CASE k = "(" -> Consume(Expression(s), ")")
        [] k \in UnaryTokens -> UnaryOperator(s)
        [] k \in {"id", "init"} -> Variable(s, canAssign)
        [] k = "num" -> EmitConstant(s, "CONSTANT", s.prev)
        [] k = "nil" -> Emit(s, <<Op("NIL")>>)
        [] k = "this" -> This(s)
        [] k = "super" -> SuperCall(s)

Infix(s, canAssign) ==
  LET k == Kind(s.prev)
  IN  CASE k = "(" -> Call(s)
        [] k = "[" -> Subscript(s)
        [] k = "." -> Dot(s, canAssign)
        [] k = "?" -> Ternary(s)
        [] k = "and" -> And(s)
        [] k = "or" -> Or(s)
        [] OTHER -> BinaryOperator(s)

Infixes(s, precedence, canAssign) ==
  IF precedence > Precedence(Kind(s.cur)) THEN s
  ELSE Infixes(Infix(Advance(s), canAssign), precedence, canAssign)

\* An expression ends before an `=' only where it is a target.
Bounded(s, canAssign) ==
  IF canAssign /\ Check(s, "=") THEN Error(Advance(s), "target") ELSE s

Parsed(s, precedence, canAssign) ==
  IF Kind(s.prev) \notin PrefixKinds THEN Error(s, "syntax")
  ELSE Bounded(Infixes(Prefix(s, canAssign), precedence, canAssign), canAssign)

ParsePrecedence(s, precedence) == Parsed(Advance(s), precedence, precedence <= PrecAssignment)

-----------------------------------------------------------------------------
(* Declarations and statements.                                            *)

Block(s) == IF Check(s, "}") \/ Check(s, EOF) THEN Consume(s, "}") ELSE Block(Declaration(s))

Parameter(s) ==
  LET t == IF Compiler(s).arity + 1 > MaxArguments THEN ErrorAtCurrent(s, "limit") ELSE s
  IN  DefineVariable(ParseVariable(Set(t, [Compiler(t) EXCEPT !.arity = @ + 1])), 0)
MoreParameters(s) == IF Check(s, ",") THEN Parameters(Advance(s)) ELSE s
Parameters(s) == MoreParameters(Parameter(s))

\* endCompiler, and the closure in the code around.
EndFunction(s) ==
  LET t == EmitReturn(s)
      outer == [t EXCEPT !.functions = Append(@, Compiler(t)), !.current = Front(@)]
  IN  EmitConstant(outer, "CLOSURE", FunctionMark)

Signature(s) == IF Check(s, ")") THEN s ELSE Parameters(s)

FunctionBody(s, type) ==
  LET begun == BeginScope([s EXCEPT !.current = Append(@, NewCompiler(type))])
  IN  EndFunction(Block(Consume(Consume(Signature(Consume(begun, "(")), ")"), "{")))

NamedMethod(s) ==
  Emit(FunctionBody(AddConstant(s, s.prev), IF Kind(s.prev) = "init" THEN "initializer" ELSE "method"),
       <<Op("METHOD"), Byte(NextConstant(s))>>)
Method(s) == NamedMethod(Consume(s, "id"))

Methods(s) == IF Check(s, "}") \/ Check(s, EOF) THEN s ELSE Methods(Method(s))

\* namedVariable(className): the class that has just been defined, wherever it is.
GetClass(s, slot) == IF slot = 0 THEN EmitConstant(s, "GET_GLOBAL", ClassMark)
                     ELSE Emit(s, <<Op("GET_LOCAL"), Byte(slot)>>)

Inherit(s, slot) ==
  LET Inherited(t) == [t EXCEPT !.classes = Append(Front(@), TRUE)]
      Under(t) == GetClass(MarkInitialized(AddLocal(BeginScope(t))), slot)
  IN  Inherited(Emit(Under(Variable(Consume(Advance(s), "id"), FALSE)), <<Op("INHERIT")>>))

\* The rest of a class once it is defined; slot is its local, or 0.
LeaveClass(s) == [(IF Last(s.classes) THEN EndScope(s) ELSE s) EXCEPT !.classes = Front(@)]
Superclassed(s, slot) == IF Check(s, "<") THEN Inherit(s, slot) ELSE s
ClassBody(s, slot) ==
  LET body == Consume(GetClass(Superclassed(s, slot), slot), "{")
  IN  LeaveClass(Emit(Consume(Methods(body), "}"), <<Op("POP")>>))

DefinedClass(s) ==
  ClassBody([s EXCEPT !.classes = Append(@, FALSE)],
            IF Compiler(s).depth = 0 THEN 0 ELSE Len(Compiler(s).locals) - 1)

NamedClass(s) ==
  LET name == Byte(NextConstant(s))
      made == Emit(DeclareVariable(AddConstant(s, s.prev)), <<Op("CLASS"), name>>)
  IN  DefinedClass(DefineVariable(made, NextConstant(s)))
ClassDeclaration(s) == NamedClass(Consume(s, "id"))

FunDeclaration(s) ==
  LET t == MarkInitialized(ParseVariable(s))
  IN  DefineVariable(FunctionBody(t, "function"), NextConstant(s))

InitialValue(s) == IF Check(s, "=") THEN Expression(Advance(s)) ELSE Emit(s, <<Op("NIL")>>)

VarDeclaration(s) ==
  DefineVariable(Consume(InitialValue(ParseVariable(s)), ";"), NextConstant(s))

\* Seeded fault: a brace that closes nothing is reported and left where it is.
ExpressionStatementLeavesBrace(s) ==
  IF Check(s, "}") THEN ErrorAtCurrent(s, "syntax")
  ELSE Emit(Consume(Expression(s), ";"), <<Op("POP")>>)

ExpressionStatement(s) == Emit(Consume(Expression(s), ";"), <<Op("POP")>>)

PrintStatement(s) == Emit(Consume(Expression(s), ";"), <<Op("PRINT")>>)

Initializer(s) == CASE Check(s, ";") -> Advance(s)
                    [] Check(s, "var") -> VarDeclaration(Advance(s))
                    [] OTHER -> ExpressionStatement(s)

\* What follows the condition: the increment runs after the body, which jumps back to it.
ForBody(s, loopStart) == EmitLoop(Statement(s), loopStart)

Increment(s, loopStart) ==
  LET skip == EmitJump(s, "JUMP")
      step == Consume(Emit(Expression(skip), <<Op("POP")>>), ")")
  IN  ForBody(PatchJump(EmitLoop(step, loopStart), Operand(skip)), Count(skip))

ForStep(s, loopStart) ==
  IF Check(s, ")") THEN ForBody(Advance(s), loopStart) ELSE Increment(s, loopStart)

\* What a condition lets run; it is popped on both ways.
Exit(s, test) == Emit(PatchJump(s, test), <<Op("POP")>>)
ForCondition(test, loopStart) ==
  Exit(ForStep(Emit(test, <<Op("POP")>>), loopStart), Operand(test))

ForTest(s) ==
  IF Check(s, ";") THEN ForStep(Advance(s), Count(s))
  ELSE ForCondition(EmitJump(Consume(Expression(s), ";"), "JUMP_IF_FALSE"), Count(s))

ForStatement(s) == EndScope(ForTest(Initializer(Consume(BeginScope(s), "("))))

Condition(s) == EmitJump(Consume(Expression(Consume(s, "(")), ")"), "JUMP_IF_FALSE")

Else(s) == IF Check(s, "else") THEN Statement(Advance(s)) ELSE s

\* Seeded fault: the condition is popped on one of the two ways only.
AfterThenPopsOnce(then, test) == PatchJump(Else(PatchJump(then, test)), Operand(then))

AfterThen(then, test) == PatchJump(Else(Exit(then, test)), Operand(then))

Then(test) ==
  AfterThen(EmitJump(Statement(Emit(test, <<Op("POP")>>)), "JUMP"), Operand(test))

IfStatement(s) == Then(Condition(s))

While(test, loopStart) ==
  Exit(EmitLoop(Statement(Emit(test, <<Op("POP")>>)), loopStart), Operand(test))

WhileStatement(s) == While(Condition(s), Count(s))

ReturnStatement(s) ==
  LET type == Compiler(s).type
      t == IF type = "script" THEN Error(s, "static") ELSE s
      u == IF type = "initializer" THEN Error(t, "static") ELSE t
  IN  IF Check(t, ";") THEN EmitReturn(Advance(t))
      ELSE Emit(Consume(Expression(u), ";"), <<Op("RETURN")>>)

\* The warning of dead code: one flag for the function, read at its next statement.
WarnUnreachable(s) ==
  IF ~Compiler(s).returned THEN s
  ELSE Set(s, [Compiler(s) EXCEPT !.returned = FALSE, !.warned = @ \cup {Count(s)}])

Returned(s) == Set(s, [Compiler(s) EXCEPT !.returned = TRUE])

MatchStatement(s) ==
  LET t == Advance(s)
  IN  CASE Check(s, "print") -> PrintStatement(t)
        [] Check(s, "for") -> ForStatement(t)
        [] Check(s, "if") -> IfStatement(t)
        [] Check(s, "return") -> ReturnStatement(Returned(t))
        [] Check(s, "while") -> WhileStatement(t)
        [] Check(s, "{") -> EndScope(Block(BeginScope(t)))
        [] OTHER -> ExpressionStatement(s)

Statement(s) == MatchStatement(WarnUnreachable(s))

Synchronize(s) ==
  IF Kind(s.cur) = EOF \/ Kind(s.prev) = ";" \/ Kind(s.cur) \in Beginners THEN s
  ELSE Synchronize(Advance(s))

\* The slots the compiler counts, at the place where a declaration's code begins.
Marked(s) ==
  Set(s, [Compiler(s) EXCEPT !.marks = @ \cup {[at |-> Count(s), slots |-> Len(Compiler(s).locals)]}])

Recover(s) == IF s.panic THEN Synchronize([s EXCEPT !.panic = FALSE]) ELSE s

MatchDeclaration(s) ==
  LET t == Advance(s)
  IN  CASE Check(s, "class") -> ClassDeclaration(t)
        [] Check(s, "fun") -> FunDeclaration(t)
        [] Check(s, "var") -> VarDeclaration(t)
        [] OTHER -> Statement(s)

Declaration(s) == Recover(MatchDeclaration(Marked(s)))

\* compile, before its first declaration and after its last.
Begun == Advance(Start)
Ended(s) == LET t == EmitReturn(Advance(s)) IN [t EXCEPT !.functions = Append(@, Compiler(t))]
=============================================================================
