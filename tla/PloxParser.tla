----------------------------- MODULE PloxParser -----------------------------
(***************************************************************************)
(* plox's parser (plox/parser.py): a method for each level of the grammar, *)
(* a tree for each construct, and an exception to leave a statement that   *)
(* does not parse.  The state is a record; `node' is what the last method  *)
(* returned, `raised' says that an exception is on its way up to the       *)
(* nearest _declaration.  `functions' lists the bodies in the order they   *)
(* end, as Parser.tla does, and `extension' that the program uses a form   *)
(* only plox has: a getter, or a function without a name.                  *)
(***************************************************************************)
EXTENDS Tokens, FiniteSetsExt

CONSTANT MaxArguments  \* 255

\* The scanner has reported what it cannot read, and the parser never sees it.
From(i) == Min({Len(tokens) + 1} \cup {j \in i .. Len(tokens) : Kind(j) # "bad"})

Start == [cur |-> From(1), prev |-> 0, raised |-> FALSE, node |-> [k |-> "none"], functions |-> <<>>,
          errors |-> IF From(1) > 1 \/ \E i \in DOMAIN tokens : Kind(i) = "bad"
                     THEN <<[at |-> 0, what |-> "scan"]>> ELSE <<>>,
          extension |-> FALSE]

Node(s, n) == [s EXCEPT !.node = n]
Error(s, place, what) ==
  IF s.raised THEN s ELSE [s EXCEPT !.errors = Append(@, [at |-> place, what |-> what])]
Raise(s) == [Error(s, s.cur, "syntax") EXCEPT !.raised = TRUE]

Check(s, k) == ~s.raised /\ Fits(s.cur, k)
Advance(s) == IF s.raised \/ Kind(s.cur) = EOF THEN s
              ELSE [s EXCEPT !.prev = s.cur, !.cur = From(s.cur + 1)]
Consume(s, k) == IF Check(s, k) THEN Advance(s) ELSE Raise(s)

\* The binary levels, loosest first; all of them lean left.
Levels == <<{"or"}, {"and"}, EqualityTokens, ComparisonTokens, AdditionTokens, MultiplicationTokens>>

RECURSIVE Assignment(_), BinaryRule(_, _), BinaryRest(_, _), Unary(_), CallRest(_), Arguments(_, _),
          Block(_, _), Parameters(_, _), Methods(_), Declaration(_), Statement(_), Synchronized(_)

Expression(s) == Assignment(s)

BinaryNode(s, right) ==
  Node(right, [k |-> "binary", op |-> Kind(s.cur), left |-> s.node, right |-> right.node])

BinaryRest(s, level) ==
  IF s.raised \/ Kind(s.cur) \notin Levels[level] THEN s
  ELSE BinaryRest(BinaryNode(s, BinaryRule(Advance(s), level + 1)), level)

BinaryRule(s, level) ==
  IF level > Len(Levels) THEN Unary(s) ELSE BinaryRest(BinaryRule(s, level + 1), level)

TernaryNode(test, then, else) ==
  Node(else, [k |-> "ternary", test |-> test.node, then |-> then.node, else |-> else.node])
TernaryElse(test, then) == TernaryNode(test, then, Expression(then))
TernaryRest(test) ==
  IF Check(test, "?") THEN TernaryElse(test, Consume(Expression(Advance(test)), ":")) ELSE test
Ternary(s) == TernaryRest(BinaryRule(s, 1))

AssignmentNode(target, value) ==
  CASE target.node.k = "variable" ->
         Node(value, [k |-> "assign", at |-> target.node.at, value |-> value.node])
    [] target.node.k = "get" ->
         Node(value, [k |-> "set", at |-> target.node.at, object |-> target.node.object,
                      value |-> value.node])
    [] OTHER -> Error(value, target.cur, "target")
AssignmentRest(target) ==
  IF Check(target, "=") THEN AssignmentNode(target, Assignment(Advance(target))) ELSE target
Assignment(s) == AssignmentRest(Ternary(s))

Limited(s, n) == IF n >= MaxArguments THEN Error(s, s.cur, "limit") ELSE s

MoreParameters(s, n) == IF Check(s, ",") THEN Parameters(Limited(Advance(s), n), n) ELSE s
Parameters(s, n) == MoreParameters(Consume(s, "id"), n + 1)
ParameterList(s) == IF Check(s, ")") THEN s ELSE Parameters(s, 0)

\* What stands before the body: a method without parentheses is a getter.
Signature(s, named) == IF named /\ Check(s, "{") THEN [s EXCEPT !.extension = TRUE]
                       ELSE Consume(ParameterList(Consume(s, "(")), ")")

FunctionNode(body, kind, place) ==
  [body EXCEPT !.functions = IF body.raised THEN @ ELSE Append(@, [kind |-> kind, body |-> body.node]),
               !.node = [k |-> "function", at |-> place]]
FunctionRest(s, kind, named) ==
  FunctionNode(Block(Consume(Signature(s, named), "{"), <<>>), kind, s.prev)

SuperNode(s) == Node(s, [k |-> "super", at |-> s.prev])
Grouping(s) == Node(s, [k |-> "grouping", inner |-> s.node])

Primary(s) ==
  LET k == Kind(s.cur)
      t == Advance(s)
  IN  CASE s.raised -> s
        [] ~s.raised /\ k = "num" -> Node(t, [k |-> "number", at |-> s.cur])
        [] ~s.raised /\ k = "nil" -> Node(t, [k |-> "nil"])
        [] ~s.raised /\ k = "this" -> Node(t, [k |-> "this"])
        [] ~s.raised /\ k = "super" -> SuperNode(Consume(Consume(t, "."), "id"))
        [] ~s.raised /\ k \in {"id", "init"} -> Node(t, [k |-> "variable", at |-> s.cur])
        [] ~s.raised /\ k = "(" -> Grouping(Consume(Expression(t), ")"))
        [] ~s.raised /\ k = "fun" -> FunctionRest([t EXCEPT !.extension = TRUE], "function", FALSE)
        [] OTHER -> Raise(s)

MoreArguments(s, list) ==
  IF Check(s, ",") THEN Arguments(Limited(Advance(s), Len(list)), list) ELSE <<Consume(s, ")"), list>>
Argument(s, list) == MoreArguments(s, Append(list, s.node))
Arguments(s, list) == Argument(Expression(s), list)
ArgumentList(s) == IF Check(s, ")") THEN <<Consume(s, ")"), <<>>>> ELSE Arguments(s, <<>>)

CallNode(args, callee) == Node(args[1], [k |-> "call", callee |-> callee, args |-> args[2]])
FinishCall(s) == CallNode(ArgumentList(Advance(s)), s.node)

GetNode(s, object) == Node(s, [k |-> "get", object |-> object, at |-> s.prev])
SubscriptNode(s, object) == Node(s, [k |-> "subscript", object |-> object, index |-> s.node])

CallRest(s) ==
  CASE Check(s, "(") -> CallRest(FinishCall(s))
    [] Check(s, ".") -> CallRest(GetNode(Consume(Advance(s), "id"), s.node))
    [] Check(s, "[") -> CallRest(SubscriptNode(Consume(Expression(Advance(s)), "]"), s.node))
    [] OTHER -> s

UnaryNode(s, right) == Node(right, [k |-> "unary", op |-> Kind(s.cur), right |-> right.node])
Unary(s) == IF ~s.raised /\ Kind(s.cur) \in UnaryTokens THEN UnaryNode(s, Unary(Advance(s)))
            ELSE CallRest(Primary(s))

-----------------------------------------------------------------------------
BlockNode(list) == [k |-> "block", list |-> list]
MoreBlock(s, list) == Block(s, Append(list, s.node))
Block(s, list) ==
  IF s.raised \/ Check(s, "}") \/ Kind(s.cur) = EOF
  THEN Node(Consume(s, "}"), BlockNode(list))
  ELSE MoreBlock(Declaration(s), list)

MethodKind(s, kind) == IF kind = "method" /\ Kind(s.prev) = "init" THEN "initializer" ELSE kind
Named(s, kind) == FunctionRest(s, MethodKind(s, kind), TRUE)
NamedFunction(s, kind) == Named(Consume(s, "id"), kind)

Methods(s) == IF s.raised \/ Check(s, "}") \/ Kind(s.cur) = EOF THEN s
              ELSE Methods(NamedFunction(s, "method"))

ClassNode(s, place, super) == Node(s, [k |-> "class", at |-> place, super |-> super])
ClassBody(s, place, super) ==
  ClassNode(Consume(Methods(Consume(s, "{")), "}"), place, super)

Superclass(s, place) == ClassBody(s, place, <<s.prev>>)
NamedClass(s) == IF Check(s, "<") THEN Superclass(Consume(Advance(s), "id"), s.prev)
                 ELSE ClassBody(s, s.prev, <<>>)
ClassDeclaration(s) == NamedClass(Consume(s, "id"))

VarNode(s, place) == Node(s, [k |-> "var", at |-> place, value |-> s.node])
InitialValue(s) == IF Check(s, "=") THEN Expression(Advance(s)) ELSE Node(s, [k |-> "nil"])
NamedVar(s) == VarNode(Consume(InitialValue(s), ";"), s.prev)
VarDeclaration(s) == NamedVar(Consume(s, "id"))

Effect(k, s) == Node(Consume(s, ";"), [k |-> k, value |-> s.node])
ExpressionStatement(s) == Effect("expression", Expression(s))

\* A for becomes a while, in blocks of its own.
Initializer(s) == CASE Check(s, ";") -> Node(Advance(s), [k |-> "none"])
                    [] Check(s, "var") -> VarDeclaration(Advance(s))
                    [] OTHER -> ExpressionStatement(s)
Increment(s) == IF Check(s, ")") THEN Node(s, [k |-> "none"]) ELSE Expression(s)

WhileNode(test, body) == [k |-> "while", test |-> test, body |-> body]
Stepped(body, step) ==
  IF step.k = "none" THEN body ELSE BlockNode(<<body, [k |-> "expression", value |-> step]>>)
Initialized(loop, init) == IF init.k = "none" THEN loop ELSE BlockNode(<<init, loop>>)

ForNode(s, init, test, step) ==
  Node(s, Initialized(WhileNode(test, Stepped(s.node, step)), init))
ForBody(s, init, test) == ForNode(Statement(Consume(s, ")")), init, test, s.node)
ForStep(s, init) == ForBody(Increment(Consume(s, ";")), init, s.node)
ForTest(s) ==
  ForStep(IF Check(s, ";") THEN Node(s, [k |-> "number", at |-> 0]) ELSE Expression(s), s.node)
ForStatement(s) == ForTest(Initializer(Consume(s, "(")))

Condition(s) == Consume(Expression(Consume(s, "(")), ")")

IfNode(s, test, then) == Node(s, [k |-> "if", test |-> test, then |-> then, else |-> s.node])
Else(s, test) ==
  IfNode(IF Check(s, "else") THEN Statement(Advance(s)) ELSE Node(s, [k |-> "none"]), test, s.node)
Then(s) == Else(Statement(s), s.node)
IfStatement(s) == Then(Condition(s))

WhileRest(s, test) == Node(s, WhileNode(test, s.node))
WhileBody(s) == WhileRest(Statement(s), s.node)
WhileStatement(s) == WhileBody(Condition(s))

ReturnStatement(s) ==
  Effect("return", IF Check(s, ";") THEN Node(s, [k |-> "nil"]) ELSE Expression(s))

Statement(s) ==
  LET t == Advance(s)
  IN  CASE Check(s, "for") -> ForStatement(t)
        [] Check(s, "if") -> IfStatement(t)
        [] Check(s, "print") -> Effect("print", Expression(t))
        [] Check(s, "return") -> ReturnStatement(t)
        [] Check(s, "while") -> WhileStatement(t)
        [] Check(s, "{") -> Block(t, <<>>)
        [] OTHER -> ExpressionStatement(s)

\* The rest of _synchronize, after the one token it always skips.
Synchronized(s) ==
  IF Kind(s.cur) = EOF \/ Kind(s.prev) = ";" \/ Kind(s.cur) \in Beginners THEN s
  ELSE Synchronized(Advance(s))

Recover(s) == IF s.raised THEN Synchronized(Advance([s EXCEPT !.raised = FALSE])) ELSE s

Declaration(s) ==
  LET t == Advance(s)
  IN  Recover(CASE Check(s, "class") -> ClassDeclaration(t)
                [] Check(s, "fun") -> NamedFunction(t, "function")
                [] Check(s, "var") -> VarDeclaration(t)
                [] OTHER -> Statement(s))

RECURSIVE Statements(_, _)
MoreStatements(s, list) == Statements(s, Append(list, s.node))
Statements(s, list) ==
  IF Kind(s.cur) = EOF
  THEN [s EXCEPT !.functions = Append(@, [kind |-> "script", body |-> BlockNode(list)])]
  ELSE MoreStatements(Declaration(s), list)

Parse == Statements(Start, <<>>)
=============================================================================
