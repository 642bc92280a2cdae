------------------------------ MODULE Programs ------------------------------
(***************************************************************************)
(* A program in both implementations: clox compiles it (Parser.tla) a      *)
(* declaration at a time and its virtual machine (run, vm.c) executes one  *)
(* body of it, an instruction a step; plox parses it to trees              *)
(* (PloxParser.tla) and walks those (TreeWalk.tla).  The tests of the      *)
(* repository run every program through both and expect one output.        *)
(***************************************************************************)
EXTENDS Parser

CONSTANTS
  Inputs,    \* the programs: sequences of tokens
  MaxReads,  \* reads that may be true
  MaxLoops   \* OP_LOOPs that are followed

ASSUME ProgramsAssumption == MaxReads \in Nat /\ MaxLoops \in Nat

VARIABLES
  phase,     \* compile, compiled, run, done
  parser,    \* clox's compiler
  plox,      \* what plox's parser answers
  vm,        \* clox's virtual machine in the body it runs
  expected   \* what plox does in the same body

vars == <<tokens, phase, parser, plox, vm, expected>>

Plox == INSTANCE PloxParser
Tree == INSTANCE TreeWalk
D == INSTANCE Disassembler

NoMachine == [f |-> 0, ip |-> 0, stack |-> <<>>, events |-> <<>>, reads |-> 0, loops |-> 0,
              truths |-> <<>>]

Init == /\ tokens \in Inputs
        /\ phase = "compile"
        /\ parser = Begun
        /\ plox = [errors |-> <<>>, functions |-> <<>>, extension |-> FALSE]
        /\ vm = NoMachine
        /\ expected = [events |-> <<>>, done |-> FALSE]

\* compile's loop.
Declare == /\ phase = "compile"
           /\ ~Check(parser, EOF)
           /\ parser' = Declaration(parser)
           /\ UNCHANGED <<tokens, phase, plox, vm, expected>>

EndCompile == /\ phase = "compile"
              /\ Check(parser, EOF)
              /\ phase' = "compiled"
              /\ parser' = Ended(parser)
              /\ LET p == Plox!Parse
                 IN  plox' = [errors |-> p.errors, functions |-> p.functions, extension |-> p.extension]
              /\ UNCHANGED <<tokens, vm, expected>>

\* A frame for a body: slot 0, the arguments, the first instruction.  What reads answer is
\* anybody's choice; as many are chosen as the program has names.
Names == Cardinality({i \in DOMAIN tokens : Kind(i) = "id"})
\* As many iterations may have begun and not ended as there are loops.
Loops == Cardinality({i \in DOMAIN tokens : Kind(i) \in {"while", "for"}})
Interpret ==
  /\ phase = "compiled"
  /\ parser.errors = <<>> /\ plox.errors = <<>> /\ ~plox.extension
  /\ phase' = "run"
  /\ \E f \in DOMAIN parser.functions, n \in {Min({MaxReads, Names})} :
     \E truths \in [1 .. n -> BOOLEAN] :
       /\ vm' = [NoMachine EXCEPT !.f = f, !.truths = truths,
                   !.stack = <<ThisValue>> \o [i \in 1 .. parser.functions[f].arity |-> NilValue]]
       /\ expected' = Tree!Run(plox.functions[f], truths, MaxLoops + Loops)
  /\ UNCHANGED <<tokens, parser, plox>>

-----------------------------------------------------------------------------
(* One instruction of run().                                               *)

Running == parser.functions[vm.f]
Cell(i) == IF vm.ip + i < Len(Running.code) THEN Running.code[vm.ip + i + 1] ELSE Op("end")
Instruction == Cell(0).op
ReadByte == Cell(1).n
ReadShort == Cell(1).n * Base + Cell(2).n
ReadConstant == Running.constants[ReadByte + 1]
Height == Len(vm.stack)
Peek(distance) == vm.stack[Height - distance]
Top(n) == SubSeq(vm.stack, Height - n + 1, Height)
Drop(n) == SubSeq(vm.stack, 1, Height - n)

\* The instruction is `bytes' long, takes `pops' values, leaves `pushed' and shows `events'.
Does(bytes, pops, pushed, events) ==
  vm' = [vm EXCEPT !.ip = @ + bytes, !.stack = Drop(pops) \o pushed, !.events = @ \o events]

Simple ==
  \/ Instruction = "CONSTANT" /\ Does(2, 0, <<Value(<<ReadConstant>>, TRUE)>>, <<>>)
  \/ Instruction = "NIL" /\ Does(1, 0, <<NilValue>>, <<>>)
  \/ Instruction = "POP" /\ Does(1, 1, <<>>, <<>>)
  \/ Instruction = "GET_LOCAL" /\ Does(2, 0, <<vm.stack[ReadByte + 1]>>, <<>>)
  \/ Instruction = "GET_UPVALUE" /\ Does(2, 0, <<SuperValue>>, <<>>)
  \/ Instruction = "CLOSURE" /\ Does(2, 0, <<FunctionValue>>, <<>>)
  \/ Instruction = "CLASS" /\ Does(2, 0, <<ClassValue>>, <<>>)
  \/ Instruction \in {"INHERIT", "METHOD"} /\ Does(IF Instruction = "METHOD" THEN 2 ELSE 1, 1, <<>>, <<>>)
  \/ Instruction = "PRINT" /\ Does(1, 1, <<>>, <<<<PrintMark>> \o Peek(0).term>>)

Operator ==
  \/ Instruction = "NOT" /\ Does(1, 1, <<Unary(Not, Peek(0))>>, <<>>)
  \/ Instruction = "NEGATE" /\ Does(1, 1, <<Unary(Negate, Peek(0))>>, <<>>)
  \/ Instruction = "ADD" /\ Does(1, 2, <<Binary(Add, Peek(1), Peek(0))>>, <<>>)
  \/ Instruction = "SUBTRACT" /\ Does(1, 2, <<Binary(Subtract, Peek(1), Peek(0))>>, <<>>)
  \/ Instruction = "MULTIPLY" /\ Does(1, 2, <<Binary(Multiply, Peek(1), Peek(0))>>, <<>>)
  \/ Instruction = "LESS" /\ Does(1, 2, <<Binary(Less, Peek(1), Peek(0))>>, <<>>)
  \/ Instruction = "EQUAL" /\ Does(1, 2, <<Binary(Equal, Peek(1), Peek(0))>>, <<>>)

GetGlobal ==
  /\ Instruction = "GET_GLOBAL"
  /\ IF ReadConstant = ClassMark THEN Does(2, 0, <<ClassValue>>, <<>>)
     ELSE vm' = [vm EXCEPT !.ip = @ + 2, !.reads = @ + 1,
                  !.stack = Append(@, Value(<<ReadConstant>>, Tree!Truth(vm.truths, vm.reads + 1))),
                  !.events = Append(@, <<ReadMark, ReadConstant>>)]

DefineGlobal ==
  /\ Instruction = "DEFINE_GLOBAL"
  /\ Does(2, 1, <<>>, IF Peek(0) = ClassValue THEN <<>>
                      ELSE <<<<DefineMark, ReadConstant>> \o Peek(0).term>>)

SetGlobal ==
  /\ Instruction = "SET_GLOBAL"
  /\ Does(2, 0, <<>>, <<<<SetMark, ReadConstant>> \o Peek(0).term>>)

Answers(bytes, pops, v) == Does(bytes, pops, <<v>>, <<v.term>>)

Access ==
  \/ Instruction = "GET_PROPERTY" /\ Does(2, 1, <<Property(Peek(0), ReadConstant)>>, <<>>)
  \/ Instruction = "GET_SUPER" /\ Does(2, 2, <<Property(Peek(0), ReadConstant)>>, <<>>)
  \/ Instruction = "SET_PROPERTY"
     /\ Does(2, 2, <<Peek(0)>>, <<<<SetPropertyMark, ReadConstant>> \o Terms(Top(2))>>)
  \/ Instruction = "SUBSCRIPT" /\ Answers(1, 2, Value(Append(Terms(Top(2)), IndexMark), TRUE))

Calls ==
  \/ Instruction = "CALL" /\ Answers(2, ReadByte + 1, Called(Peek(ReadByte), Top(ReadByte)))
  \/ LET n == Cell(2).n
     IN  \/ Instruction = "INVOKE"
            /\ Answers(3, n + 1, Called(Property(Peek(n), ReadConstant), Top(n)))
         \/ Instruction = "SUPER_INVOKE"
            /\ Answers(3, n + 2, Called(Property(Peek(0), ReadConstant), Front(Top(n + 1))))

Jumps ==
  \/ Instruction = "JUMP" /\ Does(3 + ReadShort, 0, <<>>, <<>>)
  \/ Instruction = "JUMP_IF_FALSE" /\ Does(IF Peek(0).truth THEN 3 ELSE 3 + ReadShort, 0, <<>>, <<>>)
  \/ Instruction = "LOOP" /\ vm.loops < MaxLoops
     /\ vm' = [vm EXCEPT !.ip = @ + 3 - ReadShort, !.loops = @ + 1]

Step == /\ phase = "run"
        /\ Simple \/ Operator \/ GetGlobal \/ DefineGlobal \/ SetGlobal \/ Access \/ Calls \/ Jumps
        /\ UNCHANGED <<tokens, phase, parser, plox, expected>>

\* The end of the body; or of the code, or a place that is no instruction.
Return == /\ phase = "run"
          /\ \/ Instruction = "RETURN" /\ Does(1, 1, <<>>, <<<<ReturnMark>> \o Peek(0).term>>)
             \/ Instruction \in {"byte", "end"} /\ Does(0, 0, <<>>, <<<<CrashMark>>>>)
          /\ phase' = "done"
          /\ UNCHANGED <<tokens, parser, plox, expected>>

Next == Declare \/ EndCompile \/ Interpret \/ Step \/ Return

Spec == Init /\ [][Next]_vars

-----------------------------------------------------------------------------
(* What is claimed.                                                        *)

Compiled == phase # "compile"

\* Both parsers accept the same programs, but for the forms only plox has, the limits of clox's
\* operands and the errors that plox leaves to its resolver.  Of a program that clox alone rejects
\* the first error is one of those: its panic may skip the end of a block, and then what follows
\* is no longer the program's syntax (test/class/local_inherit_self.lox:4).  Of one that neither
\* accepts both name the same token first, unless the trouble is an assignment or a character.
SameLanguage ==
  Compiled =>
    /\ parser.errors = <<>> => plox.errors = <<>> /\ ~plox.extension
    /\ plox.errors = <<>> /\ ~plox.extension /\ parser.errors # <<>> =>
         parser.errors[1].what \in {"static", "limit"}
    /\ (parser.errors # <<>> /\ plox.errors # <<>> /\ ~plox.extension) =>
         LET mine == parser.errors[1] theirs == plox.errors[1]
         IN  mine.what = "syntax" /\ theirs.what \notin {"scan", "limit"} => mine.at = theirs.at

\* What the machine shows is what plox shows, in the same order and of the same operands: the
\* precedences, the jumps, the constants and the order of for's clauses come to the same program.
SameMeaning ==
  /\ phase \in {"run", "done"} =>
       IsPrefix(vm.events, expected.events) \/ (~expected.done /\ IsPrefix(expected.events, vm.events))
  /\ phase = "done" => expected.done /\ vm.events = expected.events

\* At the first instruction of every declaration the stack is as high as the compiler has counted
\* locals, whatever path led there: the slot a local was given is the slot its value is in.
SlotsAreHeights ==
  phase = "run" => \A m \in Running.marks : m.at = vm.ip => m.slots = Height

\* The disassembler sees the instructions the compiler has written, and never the middle of one.
Aligned ==
  Compiled => \A i \in DOMAIN parser.functions :
    LET code == parser.functions[i].code
    IN  D!Lines(code, 0) = {j \in 0 .. Len(code) - 1 : code[j + 1].op # "byte"}

\* After an error nothing more is reported before a place where a statement ends or begins, but
\* what the scanner cannot read; and that is seen one token ahead of the parser.
NoCascade ==
  \A i \in 2 .. Len(parser.errors) :
    LET last == parser.errors[i - 1]
        from == IF last.what = "scan" THEN last.at - 1 ELSE last.at
    IN  \/ parser.errors[i].what = "scan"
        \/ \E j \in from .. parser.errors[i].at : Kind(j) \in Beginners \cup {";", EOF}

\* Every declaration, parsed or given up, takes at least one token: compile's loop comes to the
\* end of any program.
DeclarationsAdvance ==
  phase = "compile" /\ ~Check(parser, EOF) => Declaration(parser).cur > parser.cur

\* A statement that is said to be unreachable is never reached (clox/compiler.c, statement).
UnreachableIsTrue == phase = "run" => vm.ip \notin Running.warned
=============================================================================
