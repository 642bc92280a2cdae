-------------------------------- MODULE Code --------------------------------
(***************************************************************************)
(* What a chunk holds (clox/chunk.h) and what running it may show.  A cell *)
(* of code is an opcode or a byte of an operand, so that a jump which lands *)
(* on an operand is seen.  Offsets are clox's: the first byte is at 0.     *)
(*                                                                         *)
(* A value is the expression that computed it, as a string of places in    *)
(* the program and of the marks below, each after its operands, and        *)
(* whether it is true in a condition.  An event is a value an outsider can *)
(* see: what is read, assigned, called, printed or returned, in order.     *)
(***************************************************************************)
EXTENDS Integers, Sequences

Op(name) == [op |-> name, n |-> 0]
Byte(n) == [op |-> "byte", n |-> n]

\* Marks: none is a place in a program, which is a positive number.
NilMark == 0
ThisMark == -1
SuperMark == -2
FunctionMark == -3
ClassMark == -4
ReadMark == -5
SetMark == -6
DefineMark == -7
PrintMark == -8
ReturnMark == -9
CallMark == -10
GetMark == -11
SetPropertyMark == -12
IndexMark == -13
Negate == -14
Not == -15
Add == -16
Subtract == -17
Multiply == -18
Less == -19
Equal == -20
CrashMark == -99

Value(term, truth) == [term |-> term, truth |-> truth]
NilValue == Value(<<NilMark>>, FALSE)
ThisValue == Value(<<ThisMark>>, TRUE)
SuperValue == Value(<<SuperMark>>, TRUE)
FunctionValue == Value(<<FunctionMark>>, TRUE)
ClassValue == Value(<<ClassMark>>, TRUE)

\* What the operators answer.  Only `!' looks at the truth of its operand; a comparison may
\* answer either, and the tests use it as true.
Unary(mark, v) == Value(Append(v.term, mark), IF mark = Not THEN ~v.truth ELSE TRUE)
Binary(mark, v, w) == Value(v.term \o w.term \o <<mark>>, TRUE)
Terms(values) == LET at[i \in 0 .. Len(values)] == IF i = 0 THEN <<>> ELSE at[i - 1] \o values[i].term
                 IN  at[Len(values)]
Called(callee, args) == Value(callee.term \o Terms(args) \o <<CallMark, Len(args)>>, TRUE)
Property(object, name) == Value(object.term \o <<GetMark, name>>, TRUE)
=============================================================================
