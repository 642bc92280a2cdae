------------------------------ MODULE TreeWalk ------------------------------
(***************************************************************************)
(* plox's interpreter (plox/interpreter.py) on the trees of PloxParser, as *)
(* the events an outsider sees.  `truths' answers for the values the       *)
(* program reads: the n-th read is true if truths[n] is, and a read after  *)
(* the last is false.  `fuel' bounds the iterations that are followed.     *)
(* What the environments hold is modelled in Environments.tla.             *)
(***************************************************************************)
EXTENDS Code, SequencesExt

Begin(depth, truths, fuel) ==
  [events |-> <<>>, reads |-> 0, truths |-> truths, fuel |-> fuel, value |-> NilValue,
   returned |-> FALSE, depth |-> depth]

\* What is read at a place, by either implementation.
Truth(truths, n) == n <= Len(truths) /\ truths[n]

Event(e, term) == [e EXCEPT !.events = Append(@, term)]
Answer(e, v) == [e EXCEPT !.value = v]
Stopped(e) == e.returned \/ e.fuel < 0

Read(e, place) ==
  LET n == e.reads + 1
  IN  Answer(Event([e EXCEPT !.reads = n], <<ReadMark, place>>), Value(<<place>>, Truth(e.truths, n)))

\* What an operator makes of its operands: >= is taken for `not less'.
Operate(op, v, w) ==
  CASE op = "+" -> Binary(Add, v, w) [] op = "-" -> Binary(Subtract, v, w)
    [] op = "*" -> Binary(Multiply, v, w) [] op = "==" -> Binary(Equal, v, w)
    [] op = "<" -> Binary(Less, v, w) [] op = ">=" -> Unary(Not, Binary(Less, v, w))

RECURSIVE Evaluate(_, _), EvaluateAll(_, _, _), Execute(_, _), ExecuteAll(_, _, _)

EvaluateAll(e, list, values) ==
  IF list = <<>> THEN <<e, values>>
  ELSE LET t == Evaluate(e, Head(list)) IN EvaluateAll(t, Tail(list), Append(values, t.value))

Logical(e, x) ==
  LET left == Evaluate(e, x.left)
  IN  IF left.value.truth = (x.op = "or") THEN left ELSE Evaluate(left, x.right)

CallValue(e, x) ==
  LET callee == Evaluate(e, x.callee)
      args == EvaluateAll(callee, x.args, <<>>)
      v == Called(callee.value, args[2])
  IN  Answer(Event(args[1], v.term), v)

Evaluate(e, x) ==
  CASE x.k = "number" -> Answer(e, Value(<<x.at>>, TRUE))
    [] x.k = "nil" -> Answer(e, NilValue)
    [] x.k = "this" -> Answer(e, ThisValue)
    [] x.k = "super" -> Answer(e, Property(SuperValue, x.at))
    [] x.k = "variable" -> Read(e, x.at)
    [] x.k = "function" -> Answer(e, FunctionValue)
    [] x.k = "grouping" -> Evaluate(e, x.inner)
    [] x.k = "binary" /\ x.op \in {"and", "or"} -> Logical(e, x)
    [] x.k = "binary" /\ x.op \notin {"and", "or"} ->
         LET left == Evaluate(e, x.left)
             right == Evaluate(left, x.right)
         IN  Answer(right, Operate(x.op, left.value, right.value))
    [] x.k = "unary" -> LET right == Evaluate(e, x.right)
                        IN  Answer(right, Unary(IF x.op = "!" THEN Not ELSE Negate, right.value))
    [] x.k = "ternary" -> LET test == Evaluate(e, x.test)
                          IN  Evaluate(test, IF test.value.truth THEN x.then ELSE x.else)
    [] x.k = "call" -> CallValue(e, x)
    [] x.k = "get" -> LET object == Evaluate(e, x.object) IN Answer(object, Property(object.value, x.at))
    [] x.k = "subscript" -> LET all == EvaluateAll(e, <<x.object, x.index>>, <<>>)
                                v == Value(Append(Terms(all[2]), IndexMark), TRUE)
                            IN  Answer(Event(all[1], v.term), v)
    [] x.k = "assign" -> LET v == Evaluate(e, x.value)
                         IN  Event(v, <<SetMark, x.at>> \o v.value.term)
    [] x.k = "set" -> LET all == EvaluateAll(e, <<x.object, x.value>>, <<>>)
                      IN  Event(all[1], <<SetPropertyMark, x.at>> \o Terms(all[2]))

\* Only a variable of the outermost scope is seen from outside.
Define(e, place, v) == IF e.depth > 0 THEN e ELSE Event(e, <<DefineMark, place>> \o v.term)

ExecuteAll(e, list, i) ==
  IF i > Len(list) THEN e ELSE ExecuteAll(Execute(e, list[i]), list, i + 1)

While(e, x) ==
  LET test == Evaluate(e, x.test)
      body == Execute([test EXCEPT !.fuel = @ - 1], x.body)
  IN  IF ~test.value.truth THEN test ELSE Execute(body, x)

Execute(e, x) ==
  CASE Stopped(e) \/ x.k = "none" -> e
    [] ~Stopped(e) /\ x.k = "block" ->
         [ExecuteAll([e EXCEPT !.depth = @ + 1], x.list, 1) EXCEPT !.depth = @ - 1]
    [] ~Stopped(e) /\ x.k = "expression" -> Evaluate(e, x.value)
    [] ~Stopped(e) /\ x.k = "print" -> LET v == Evaluate(e, x.value) IN Event(v, <<PrintMark>> \o v.value.term)
    [] ~Stopped(e) /\ x.k = "return" -> [Evaluate(e, x.value) EXCEPT !.returned = TRUE]
    [] ~Stopped(e) /\ x.k = "var" -> LET v == Evaluate(e, x.value) IN Define(v, x.at, v.value)
    [] ~Stopped(e) /\ x.k = "function" -> Define(e, x.at, FunctionValue)
    [] ~Stopped(e) /\ x.k = "class" -> IF x.super = <<>> THEN e ELSE Read(e, x.super[1])
    [] ~Stopped(e) /\ x.k = "if" -> LET test == Evaluate(e, x.test)
                                   IN  Execute(test, IF test.value.truth THEN x.then ELSE x.else)
    [] ~Stopped(e) /\ x.k = "while" -> While(e, x)

\* The body of a function or of the script, to its return; an initializer answers this.
Run(f, truths, fuel) ==
  LET e == ExecuteAll(Begin(IF f.kind = "script" THEN 0 ELSE 1, truths, fuel), f.body.list, 1)
      answer == CASE f.kind = "initializer" -> ThisValue
                  [] f.kind # "initializer" /\ e.returned -> e.value
                  [] OTHER -> NilValue
  IN  [events |-> IF e.fuel < 0 THEN e.events ELSE Append(e.events, <<ReturnMark>> \o answer.term),
       done |-> e.fuel >= 0]
=============================================================================
