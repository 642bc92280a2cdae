# Verification of plox and clox

The repository holds two implementations of the language Lox: `clox`, a
bytecode compiler and virtual machine in C (`src/clox`), and `plox`, a
tree-walking interpreter in Python (`src/plox`). This directory specifies the
parts of them whose correctness is hard to see from a test, in TLA+: TLC checks
the specifications on small instances, TLAPS proves the most important
properties for instances of every size.

To run everything: `tlc -config X.cfg M` for each row of the table of runs
below, `tlapm M.tla` for each module of proofs.

## The system

### clox

A source text goes through `compile` (scanner, single-pass compiler) to an
`ObjFunction` with its chunk of bytecode; `interpret` wraps it in a closure and
`run` executes it. Everything on the heap is allocated by `reallocate`, which
may run the garbage collector first. There is one thread; what makes the code
hard is that the collector can run inside any allocation, that the state is
shared by all parts through the global `vm`, and that errors leave in the
middle of things.

| part | state it keeps | operations | talks to |
| --- | --- | --- | --- |
| memory manager (`memory.c`, `object.c`) | list of all objects, marks, gray stack, `bytesAllocated`, `nextGC` | allocate, grow, mark, blacken, sweep, free | called by every part that allocates; reads the roots of VM and compiler; deletes from `vm.strings` |
| hash table (`table.c`) | `count`, `capacity` (a mask), `entries` | get, set, delete, grow, copy, find by characters, remove white | globals, fields, methods, `vm.strings`; allocation may re-enter it through the collector |
| stack, frames, upvalues (`vm.c`) | `stack`, `frames`, `openUpvalues` | locals, calls, returns, closures, capture, close, runtime error | bytecode from the compiler; upvalues are heap objects |
| classes, calls, globals (`vm.c`) | method and field tables, `globals` | call, invoke, bind, inherit, get and set | the table and the stack |
| strings (`object.c`, `vm.c`) | `vm.strings` | intern, concatenate, coerce | the table; allocation with values held in C locals |
| compiler (`compiler.c`) | parser, chain of `Compiler`s with locals and upvalue operands, chunk | declare, resolve, begin and end scope, emit and patch jumps, recover from errors, warn | emits what the VM executes |
| disassembler (`debug.c`) | none | walk a chunk | the lengths of instructions, which the compiler also knows |
| scanner, values | positions and arrays | | |
| main program (`main.c`) | | run a file, prompt | after an error a file ends, the prompt goes on |

### plox

`Lox.run` scans, parses, resolves and interprets. The resolver walks the tree
once and records, for each use of a local variable, how many scopes out it is
declared; the interpreter walks the tree again with a chain of environments and
looks exactly so many environments out. Break, return and runtime errors are
Python exceptions that cross the walk. At the prompt one `Lox` and one
interpreter live through all lines.

### What makes each part correct

* Memory manager: nothing the program can get to is freed, everything else is
  freed by the end of a collection, collections end, the list of objects and
  the byte count stay exact.
* Hash table: whatever the history of deletions and growth, its answers are
  those of a map, and a probe for a missing key ends.
* Upvalues: a captured variable is one variable for all who captured it, before
  and after its slot is gone; it is never mistaken for the next user of the slot.
* Strings: equal strings are the same object; no operand is freed under an operator.
* Compiler: a name means what lexical scoping says; jumps land where the
  statement says and leave the stack as high as they found it; an error never
  stops the compiler from coming to the end.
* Calls and classes: `this` is always an instance that has the method; the short
  instructions do what the long way does; an error leaves nothing behind.
* plox resolver and interpreter: the two walks push and pop at the same places.
* Both: they accept the same programs and do the same with them. The tests of the
  repository are one directory for both, with one expected output.

`PROJECT.json` lists the hazards of the code, each at its line, and the
properties that would notice one.

## Modules

| module | of | what it is |
| --- | --- | --- |
| `Heap` | | what the memory manager promises: a set of blocks, a set of objects in reach, a collection in one step |
| `Collector` | `memory.c`, `object.c` | objects, fields, root tables, allocation, the steps of a collection, `freeVM` |
| `CollectorInv` | | its inductive invariant, in named parts |
| `CollectorProofs` | | the theorems about it |
| `Dict` | | what a hash table promises: a map |
| `Table` | `table.c` | the table, one step for each turn of a loop |
| `TableInv` | | its inductive invariant |
| `TableProofs` | | the theorems about it, with the one that it is a map |
| `Variables` | | what local variables promise: reads answer with the value last assigned |
| `Upvalues` | `vm.c`, `compiler.c` | stack, frames, closures, the list of open upvalues |
| `UpvaluesInv` | | its inductive invariant |
| `UpvaluesProofs` | | the theorems about it, with the one that it implements Variables |
| `Lexical` | | what the compiler promises about names: the variable of the innermost block, exact captures, an error for each broken rule |
| `Scopes` | `compiler.c` | the `Compiler`s in a chain, their locals and upvalues, the `ClassCompiler`s |
| `ScopesInv` | | its inductive invariant |
| `ScopesProofs` | | the theorems about its arrays |
| `ScopesRefines` | | the proof that it implements Lexical |
| `Resolver` | `resolver.py` | the walk before the run: scopes, distances, errors and warnings |
| `ResolverInv` | | its inductive invariant |
| `ResolverProofs` | | the theorem about it, and what the text of a program has around a node |
| `Environments` | `interpreter.py`, `environment.py`, `lox_function.py`, `lox_class.py` | the run: environments, closures, classes, and the exceptions that leave blocks and calls; extends `Resolver` |
| `EnvironmentsInv` | | the inductive invariant of the run |
| `EnvironmentsProofs` | | the theorems about it |
| `Tokens`, `Code` | `scanner.c`, `chunk.h` | what goes into a parser and what comes out: tokens; instructions, values and events |
| `Parser` | `compiler.c` | clox's parser, with every instruction it emits, its errors and its recovery |
| `PloxParser` | `parser.py` | plox's parser, with the trees it makes |
| `TreeWalk` | `interpreter.py` | what walking such a tree shows |
| `Disassembler` | `debug.c` | the lengths it takes instructions to have |
| `Programs` | | composes these five with the instructions of `run` (`vm.c`): one program in both implementations |
| `Machine` | `vm.c` | calls, classes, methods, globals and errors, line after line of the prompt |
| `MachineInv` | | its inductive invariant |
| `MachineProofs` | | the theorems about it |
| `MCCollector`, `MCTable`, `MCUpvalues`, `MCScopes`, `MCEnvironments`, `MCPrograms`, `MCMachine` | | instances for TLC |

### Collector

An object is an address with a kind, the pointers in its fields and the size of
the buffer it owns. The mutator (`Store`, `Erase`, `Root`, `Unroot`,
`FindString`) does what the VM and the compiler do to pointers: it only uses
objects it can get to, and puts them only into fields and root tables that hold
such objects (`Holds`, `RootHolds`). `Reallocate` is the first half of
`reallocate`; when it collects, `MarkRoots`, `BlackenObject` (a turn of
`traceReferences`), `RemoveWhite` (`tableRemoveWhite`), `SweepMarked` and
`SweepUnreached` (the two arms of `sweep`) and `SweepDone` follow one by one;
then `FinishNew` or `FinishGrow` is the rest of the allocating function. The
fields that `blackenObject` follows (`Traced`) and the tables `markRoots` goes
through (`MarkedRoots`) are written down apart from those the mutator uses, so
a forgotten field is a counterexample and not an omission of the model.
`LastSlot` says which strings have their entry in the last slot of `vm.strings`,
which `tableRemoveWhite` never looks at. `Coerce` is the allocation in
`coerce_and_concatenate_string`: the converted operand and the other one have been
popped and are in C locals when `reallocate` is called. When the number is on the
right (`Request` with roots unchanged) the string is still on the stack; when it is
on the left the string is nowhere, and `ConvertsLeft` says whether programs do that.

Sizes are in units: an object takes one, each growth of its table or array
another. The gray stack is a set: the order in which it is emptied is arbitrary.

### Table

One table, a table of names or `vm.strings` (`interning`): the first is set, deleted
from and copied, the second is only added to by characters and purged by the
collector. Keys are interned, so equal keys are equal pointers. `capacity` is
the mask as in the code, -1 for no array. A call that loops over the array
(growth, copying, the collector's pass) takes one step per turn, so the
collector can run in the middle of the growth of `vm.strings`, as it does in
`adjustCapacity`. A probe is one step, and its end is a property (`ProbesEnd`).

### Upvalues

The bytecode that runs is any that the compiler emits: the guards of the actions
are what the compiler guarantees (a statement leaves only variables on the
stack, an operand names a local that is marked captured), and the rest is
nondeterministic. A slot carries the variable it stands for and an upvalue the
variable it was made for; the code has neither, and the actions never read them
except in those guards. `captureUpvalue` is one step with the position where
its walk stops (`WalkStops`), because nothing runs in between but the collection
in `newUpvalue`, which is a step of its own before it; `closeUpvalues` takes a
step per turn. `ErrorsEnd` tells a script file, where the first runtime error is
the end, from the prompt.

### Parser, PloxParser and Programs

A token is its kind, and its text is its place in the program: names and numbers
are all different, so that which operand went where can be told, and how names
resolve is left to Scopes and Environments. Each operator of `Parser` is a function
of `compiler.c`, takes the state of `parser` and `current` as a record and returns
it changed, in the same order of consuming, emitting and reporting. A chunk is a
sequence of opcodes and operand bytes; a byte has `Base` values, so a jump that does
not fit is within reach. `marks` (the slots the compiler counts where a declaration
begins) and `warned` (the statements called dead) are kept for the properties.
`PloxParser` is the same of `parser.py`: a method is an operator, and an exception is
a flag that makes everything up to `_declaration` stand still.

`Programs` parses a program with both, then runs each function of it and the script
through both. A value is the expression that made it, in postfix with the places of
its operands; an event is what an outsider sees (read, assign, define, call, print,
return) with its values. Which reads are true is chosen at the start of a run, so
that every path of the conditions is taken; `expected` is what `TreeWalk` makes of
the tree and `vm` executes the chunk, an instruction a step. Calls are answered at
once and functions are run one by one: what a call does to the stack is Machine's.

Both languages have forms the other lacks, which `SameLanguage` names: getters and
functions without a name (`extension`), the `break` statement (no token here), limits
and errors that plox finds in its resolver ("static"). After such an error in the head
of a statement in a block, clox's `synchronize` takes the block's brace, and an end of
file is unexpected that plox's parser accepts: only the first error is judged, by its
kind or its token; for a bad assignment target, clox names the next token and
plox the equals sign, so they are not compared.

### Machine

The instructions of `run` that call, look up, bind, inherit or assign, in any order
the compiler could emit them in: the guards (`Has`, `InMethod`, `Declaring`)
say that a frame pops only what it pushed, uses `this` only in methods and `super`
only in methods of a class that has one, and that nothing runs inside a class
declaration. `Low`, in `Room`, is a bound of the instance and no check of the code:
`push` has none. Operators take and return the machine, as
the C functions change the one there is; an error is the machine after `resetStack`,
and `Interpret` begins the next line on it. `counted` is what the compiler takes a
frame to hold once the call it is making has answered, `super` and `own` are what the
text of a class says; the instructions never read them but in those guards. A native
answers nil. Collection is left out: an instance that nothing refers to may be had
again (`Free`), which is all a program can tell.

### Scopes

The compiler parses in one pass, so what it does to its arrays is told by the
order of the grammar's productions, and each action is one: `VarDeclaration` and
`DefineVariable` are a variable's name and the end of its initializer (or a
parameter), `BeginScope` and `EndScope` the braces of a block, `FunDeclaration`
or `Method` and `EndFunction` a function, `ClassDeclaration`, `Superclass`,
`Inherit` or `ClassBody`, and `EndClass` a class, `Variable`, `This` and `Super`
the expressions that name something. `pc` and `todo` say what the parser has
begun and not finished. A name that belongs to an enclosing function takes more
than one step: `NamedVariable` is the recursion of `resolveUpvalue` out to the
function that has the local, and `AddUpvalue` is each return from it.

`emitted` holds what a step adds that depends on variables: the instruction for
a name, `OP_POP` and `OP_CLOSE_UPVALUE` at the end of a block, the operands of
`OP_CLOSURE`, the warnings, or the error reported. After an error the bytecode
is thrown away but the parser goes on, and so does the model. Errors of syntax
are not in it: they change no array, and what `synchronize` skips is as if it
were not in the program. Names are compared as a whole except in `Leaves`, where
the code compares five characters: a local whose name begins with "super" is
never reported as unused (`SuperNames`). Indices start at 1 here, at 0 in the code.

`Lexical` has blocks and variables where `Scopes` has arrays and depths: for each
function entered a sequence of blocks, each a function from names to what is known
of their variables. The refinement mapping (`Blocks`, `Captures`, `Classes`,
`Header`, `Answer`) rebuilds the blocks from the depths, an uninitialized local being of the
current block, and follows upvalue operands through the functions to the variable
they end at. A name counts as
resolved when its local is found; the functions whose upvalue is still to be
added already have it for Lexical, so the steps of `AddUpvalue` stutter. After the name
of a superclass Lexical has only `Inherit`, and after the class's own name only
`Reject`: a class that inherits from itself and is not reported breaks the refinement.

### Resolver and Environments

`Resolver` writes the program while it walks it: each action is the visit of one
node of the syntax tree, appended to `code`; nodes that hold others are closed by
an `end`. Its variables are the resolver's own stacks, `locals` is the
interpreter's `_locals`, `open` stands for the recursion of the visitors, and
`mid` says that an expression was visited and may go on with a call, a property or
an assignment. Once every node is closed and nothing was rejected, `Interpret`
starts the run, whose actions visit the same nodes: `Run...` for each visitor,
`EndOfBlock` and `EndOfBody` for the normal ends of `_execute_block` and
`LoxFunction.call`, `Unwind` for one activation that an exception passes, its
`finally` and its `except` clauses. `stack` stands for those activations of
Python's stack; `value` is what the last expression answered.

Values never change once made, so an instance is its class (fields are left out) and
a class the chain of method tables that `find_method` goes through. A condition may
come out either way at each test. An environment notes the node that made it (`at`),
which the actions never read: the properties compare it with the program text.
`Around`, `LexicalScope` and `ScopeOf` are that text, read without the resolver's
scopes. `else` branches, several parameters, operators, subscripts, `set` expressions
and the native `clock` touch scopes and environments in no other way than what is
there, and are left out. Only files are run: at the prompt the same interpreter goes
on, and every line gets a resolver of its own.

## Runs

| run | shows | bounds |
| --- | --- | --- |
| `collector` | `TypeOK`, `NoDangling`, `ListIntact`, `TriColor`, `InternsAllocated`, `MarksClear`, `BytesAccounted`, `KeepsPromise` (Collector implements Heap), `CollectionEnds` | 3 objects, 3 roots at a time, 4 units of memory, a collection at every allocation (`DEBUG_STRESS_GC`); closures that capture one another, or classes, instances and strings, at one time |
| `collector_last_slot` | a violation of `InternsAllocated` | one of the strings in the last slot |
| `collector_conversion` | a violation of `NoDangling` | a number added to a string from the left |
| `table` | `TypeOK`, `KeysFindable`, `ProbesEnd`, `KeepsMap` (Table implements Dict) | 3 keys that collide and wrap, 2 values, sizes 2, 4 and 8, both uses of a table |
| `upvalues` | `TypeOK`, `ClosesOverItsVariable`, `OneUpvalueEach`, `Sorted`, `KeepsPromise` (Upvalues implements Variables) | 3 variables, 2 upvalues, 2 closures, 5 slots, 2 frames |
| `upvalues_prompt` | a violation of `ClosesOverItsVariable` | the same |
| `scopes` | `TypeOK`, `OperandsReach`, `DepthsOrdered`, `KeepsPromise` (Scopes implements Lexical) | 2 names and `super`, arrays of 3, functions nested 3 deep, blocks 2 deep, any number of errors in the script (`Bound` in `MCScopes`) |
| `environments` | `TypeOK`, `EnvironmentsNest`, `LookupsAreLexical`, `MissesInInitializer`, `WarningsTrue`, `SuperIsStatic`, `Unwound` | the programs of `MCEnvironments`, 9 environments, 6 activations |
| `environments_break` | a violation of `BreakEndsALoop` | any program of 7 nodes with one name |
| `programs` | `SameLanguage`, `SameMeaning`, `SlotsAreHeights`, `Aligned`, `NoCascade`, `DeclarationsAdvance` | the programs of `MCPrograms`; bytes of 6 values, 9 constants, 2 arguments, 3 reads that may be true, 3 turns of loops |
| `programs_unreachable` | a violation of `UnreachableIsTrue` | an if whose branch returns, and a statement after it |
| `machine` | `TypeOK`, `HeightsAsCounted`, `ThisUnderstands`, `DispatchIsLookup`, `ErrorsLeaveNothing` | 2 classes, 1 instance at a time, 1 function and 3 methods, 3 frames of at most 3 values (`FewValues`), a stack of 5, 2 arguments |

Three objects are enough for a chain root, middle, leaf, for a cycle beside a live
object, for two dead neighbours in the list and for a dead head; four units let the
heap be full and still grow something, so that a collection meets a full heap. At one
time the heap holds one family of kinds (`OneFamily`), because the two share no
pointer field, and at most three roots (`FewRoots`): a root more reaches what a root
already does, or an object that needs no other. The lowest free address is given out
(`LowestFirst`), because addresses differ in nothing. Three keys with the same home
in the last slot fill three quarters of four slots and make every probe wrap; the
first table has two slots, which makes full tables reachable (the code starts at
eight, with the same arithmetic). Two upvalues and two frames are the least that has
an order, a capture across functions and a slot that is reused; three variables let
one appear in the slot of another while a third is captured. Three nested functions
are the least where an upvalue is passed on from an upvalue; arrays of three locals
(the code's have 256) put the limits within reach of a few declarations, and still
hold a shadowed and a shadowing variable beside slot 0. `Bound` keeps the three
functions from all being full at once: two are, or the outer two have what overflows
the upvalues of the inner. The theorems cover every size.

`programs` has every chain of three of the ten binary forms between names, every
sign and parenthesis in one, every two postfixes after one operand, every pair of
control statements in each other with each way to leave out a clause of `for`, every
class with a method in a block, and five longer programs with a token lost or
replaced anywhere, some with two; and `this` where it may not stand in a condition, a
loop and their blocks, whose error takes a brace with it. One or two operators of a level stand for it;
the others differ in their opcode only. Six values of a byte make jumps
of 36 and more fail to fit, which the longest bodies have, nine constants are fewer
than such a body needs; three reads and three turns take each branch and each loop
twice. In `machine` three frames are a method, what it calls through super and the
script; one instance at a time suffices because `this` is compared with the class
that declares the method, and two classes because a chain of two has an override, an
inherited method and a super call; longer chains are the same copy again.

`environments` runs every program of up to seven nodes with one name and without
classes (`FreeForm`), which has each way of leaving a block, loop or function in
each other. Deeper programs follow an outline that gives for each place the nodes
to choose from: closures called where their variable is shadowed, or after the
call they were made in; functions called in an initializer, or after the loop they
leave; classes inherited from, overridden, two levels deep, with super in a
closure, an initializer or a getter, as globals and in a block. Nine environments
are those of a method called through super through a subclass; loops that would
make more stop there. An error, or the last node, is the end of a program.

The runs of Environments, Collector, Upvalues and Programs switch deadlock checking
off because the program may stop there: at its end, after `freeVM`, after a fatal
runtime error, or with memory, variables or stack used up, which are bounds of the
instance. The runs of Table, Scopes and Machine check it.
Symmetry is used for variables, upvalues, closures and names, in runs without
liveness only; nothing distinguishes them but the set they are chosen from.

Fairness: `CollectionEnds` assumes weak fairness of `Collect` only. Once
`reallocate` has called `collectGarbage` the C code runs on by itself, nothing
can interrupt it, and it waits for nothing. No fairness is assumed of the program.
That the compiler comes to an end is `DeclarationsAdvance`: each turn of `compile`'s
loop takes a token, and the end of the file ends it; fairness would add nothing.

Each property has a seeded fault in `PROJECT.json` ("mutants"), a plausible slip
in the same lines of code, that makes its run fail. The definitions for them are
next to those they replace and say so.

## Findings

* `tableRemoveWhite` (`table.c:140`) loops `i < capacity`, and `capacity` is a
  mask: the last slot is skipped. A collected string stays in `vm.strings` if its
  entry is there. Run `collector_last_slot`.
* `resetStack` (`vm.c:53`) forgets the open upvalues without closing them. At the
  prompt a closure in a global survives, and later reads whatever takes the slot
  of its variable. Run `upvalues_prompt`.
* `freeObject` (`memory.c:125`) never frees a class's method table. This is in the
  model (`Lost`, `leaked`); `BytesAccounted` says that it is the only leak.
* `coerce_and_concatenate_string` (`vm.c:353`) converts a number or a boolean on the
  left when the string on the right has been popped; a collection in the conversion
  frees the string if nothing else refers to it. Run `collector_conversion`.
* `return_emitted` (`compiler.c:987`) is a flag of the function, not of the block: after
  `if (c) return;` the next statement is called unreachable. Run `programs_unreachable`.
* `function` (`compiler.c:720`) ends a body with `endCompiler`, and only `endScope`
  warns: parameters and the variables of a function's outermost block are never
  reported as unused. Scopes has it so (`EndFunction`); no doc says when the
  warnings are due.
* `visit_break_stmt` (`resolver.py:81`) accepts a break in a function that is
  declared in a loop. The exception leaves the function and ends a loop of its
  caller; called after the loop, it ends the program with a Python traceback. Run
  `environments_break`.
* `visit_variable_expr` (`resolver.py:179`) asks only the innermost scope whether a
  variable is in its own initializer: `{ var f = (fun () { return f; })(); }` is
  accepted and ends in a `KeyError`. `MissesInInitializer` says that this is the
  only way a lookup by distance can miss.
* `push` (`vm.c:131-134`) does not check `STACK_MAX`, which is `UINT8_COUNT` values for
  each frame (`vm.h:10`). The compiler limits locals to 256 and arguments to 255, but a
  frame may hold both and temporaries besides: deep calls from such frames can pass the
  end of `stack` before they reach `FRAMES_MAX`. No line of the repository says
  otherwise, so there is no run for it, and no property here says that it fits.
* A class with a superclass opens two scopes, so a distance can exceed the number of
  nodes before it. No code relies on that it does not; a type invariant here once said
  so, and the proof of `RunTypes` showed that it was wrong (`locals[p] \in 0..2 * p`).

## Proofs

Checked by `tlapm` for every value of the constants.

**CollectorProofs**, assuming `LastSlot = {}` (no string in the slot that
`tableRemoveWhite` skips) and `~ConvertsLeft` (no number added to a string from the
left); without either, the property is false, see above.
`NeverDangling` alone is not inductive. `IInv` adds: before sweep, the whole heap
is closed, garbage included (`HeapClosed`); while tracing, roots are marked and
the marked objects that are not gray point only at marked ones (`Tracing`); then
at an empty gray stack the marked set is closed and holds the roots, so it is
exactly what is in reach; while sweeping, what is behind the sweep pointer is
unmarked and live and what is before it is marked exactly when live (`Sweeping`).
That the list is walked in order, without missing an object, needs a witness: a
rank that falls along the list (`Ranked`). Integers are ranks, which puts this
invariant out of TLC's reach; its other parts imply the properties of the run.
That same order gives `ListIntact` (`OrderedList`): the last of the listed objects
ranked above one that is not listed would be followed by none. `BytesAccounted` needs
finitely many objects and no buffer where there is none (`Counted`), and what sums
over finite sets do, from the fold of the community modules up (`TotalExists`,
`TotalAdd`, `TotalSame`).
`Implements` shows each step to be a step of Heap or a stutter: sweep and
`freeObjects` happen, for Heap, when they begin.

**UpvaluesProofs**, assuming `ErrorsEnd` (a script file,
not the prompt, where it is false). `IInv` says that open upvalues are in the
list, in order, each at the slot of its own variable, which the compiler marked
as captured (`Sorted`, `Anchored`, `OpenOrClosed`); so a scope that ends closes
what must be closed (`ClosedGone`: the variable of a closed upvalue has left the
stack, or is just leaving). From it follow `Shared` and `NeverMistaken`, and
`Implements`: the value of a variable, in its slot or its upvalue, changes only
when somebody assigns it.

**ScopesProofs**, assuming only that the arrays hold two or more. The bounds of the
arrays depend on more than `addLocal`'s check: `markInitialized` writes the last
local, which must be the one just declared and not slot 0, also after `addLocal`
refused; and `endScope` must stop before it empties the array. So `IInv` adds to
the properties that the locals lie in the order of their blocks with slot 0 at
depth 0 and at most the last one uninitialized (`ArraysOrdered`), that a function
in which another is being compiled has a local to mark when that ends, unless it
is inside a class body (`NamesWait`), and that classes open in different functions,
those with a superclass inside its scope (`ClassesNest`). Each action keeps it:
`EditStep` reduces the actions that change one function to what they do to its
arrays, the lemmas before it. `OperandsSound` needs that locals and upvalues of an
enclosing function only grow while an inner one is compiled (`Grows`).

**ScopesRefines** proves that Scopes implements Lexical (`Implements`), from the same
assumption. Until an error is reported more is known of the arrays than `IInv` says,
because the program so far keeps the rules; `Accepted` (ScopesInv) is that: a block
declares a name once (`Scoped`), slot 0 is alone in the outermost block of a function,
the local that the end of a declaration will mark is of the current block (`EndsHere`),
a class with a superclass and no other has a "super", the last local, in a block of its
own, and no upvalue is added twice. `LexicalInv` is `IInv` with `UsesLeft` (names are
left to resolve only where a statement or an initializer goes on) and `Accepted` until
`hadError`; TLC checked it on the instance of `MCScopes` before it was proved
(`AcceptedAlways`). The argument has three parts. The last local of a name, in the
innermost function that has one, is the variable of the innermost block that declares
it, because depths do not fall along the array (`InnermostIs`). The
variable that an upvalue operand stands for is the same after any step that adds locals
or upvalues behind it or reads a local, so what a function captures changes only by
`NamedVariable`, for all functions between at once, and `AddUpvalue` changes nothing
that Lexical sees. And each production is one step of Lexical: one lemma for each
(`DefineFollows`, `EndFollows`, ...) says that `Accepted` is kept and which step it is,
one for each kind of error (`DeclareRejects`, `UnreadyRejects`, ...) which rule is
broken; `Limits` counts the variables of a function by its locals and what it captures
by its upvalues, so that an accepted program never exceeds what Lexical allows.

**MachineProofs**, assuming of the constants only what `MachineAssumption` says.
`call` checks that `callStack` has room, and `TypeOK` says that it suffices, whatever
is called and from where. For `stack` there is no check, and none is claimed here:
`HeightsAsCounted` says that each frame holds what the compiler counts, which needs
the frames to lie one above the other, but how much that is nothing bounds (see
Findings). `IInv` (MachineInv) adds what values may be: instances and classes that are there, bound methods whose
receiver's class has or inherits the method, so that `this` is understood whichever
way the method is called; method tables that hold the declarations of the class over
those it inherits; and for a frame that runs a method the same of its slot 0.
`InvokesAreLookups` expands both sides, the short instruction and the two long ones,
for each kind of value that may be found, errors included. `ErrorsKeepGlobals` is an
action property: a step that ends in a runtime error leaves the globals as they were,
`OP_SET_GLOBAL` too, which has added the name by then and takes it out again.

**TableProofs**, assuming that the first size is at least two (8 in the code).
With an array of one slot the load could not stay below three quarters after
a growth, and a probe might not end; the proof showed this, the runs start at two.
The core of `IInv` (TableInv) is `Reachable`: between the home of a key and its slot
nothing is empty and nothing has the same key. A set fills the first hole on the way
(`ReachableAfterSet`), a deletion leaves a tombstone (`ReachableAfterDelete`), so both
keep it; `FoundWhere` then says that findEntry, and tableFindString, which skips
tombstones, stop at the slot of a key that is there, and `FoundNowhere` where they
stop for one that is not. An array of at most three quarters has an empty slot
(`HasEmpty`), so probes end. During growth and copying `Moving` and `Copying` say
exactly which entries have been moved (`Within`, both ways), because the load of the
new array is bounded by that of the old one, tombstones left behind; a string table
collected in the middle of its own growth keeps its load too. `TableIsMap` maps each
step to a step of Dict or a stutter: growth and the turns of a copy change nothing
(`SameContents`), a set happens when its slot is written, and all deletions of
`tableRemoveWhite` happen, for Dict, when the pass begins, the key in the last slot,
which the pass never looks at, being the one that Dict allows to stay.

**ResolverProofs**, with no assumption but what the constants are: any names, any
program, as long and as deep as one likes. `ResolverInv` says what the text and the
stacks are to each other, in terms of the text alone (`Encl`, `Scope`, `Outer`,
`Lexical`: the nodes around a place, the scope it is in, the one around
that, and the one that declares a name). The text is well formed and closed as far as
it goes (`WellFormed`, `Linked`), and each stack is as high as the open nodes that
pushed on it (`Counts`). As long as nothing is rejected (`Accepted`), `scopes` names
the scopes around the current place, each inside the one below (`Shaped`), with
exactly the declarations made so far (`Named`); so a distance, counted from the
innermost scope that has the name, is the number of steps from scope to scope of the
text to the one that declares it (`ResolvedAt`), and stays so when code follows,
because all of it is asked of a place and looks at nothing behind that. Unused names
need that a name with `accessed` unset has no use so far that leads to it, and
unreachable nodes that a return scope that is set belongs to a node that has warned, or
ends with the return itself (`Watched`). All that is about an accepted program only:
after an error the stacks still are as high as they should be (`Counts` holds), and
nothing is said of the rest, which never runs.

**EnvironmentsProofs** builds on it: the run begins when nothing is open and there was
no error, and then the text, the distances and the warnings stay as they are. `RunInv`
says where everything stands. An environment is of the scope noted in it and is
enclosed by nothing (the globals) or by an earlier one, of the scope outside
(`EnvironmentOK`), and has every name that its scope declared before the place that
made it (`Upto`): that is why a lookup finds its name, unless the name is still in its
own initializer, where the declaration is around the use and not before it. The
current environment is of the scope of the current node (`Stands`); that survives
calls, loops and exceptions because the same is said of each closure at the function it
was made for (`FunctionOK`, `MethodOK`) and of each activation on Python's stack at the
node where it goes on (`BlockOK`, `LoopOK`, `CallOK`). That what follows a return never
runs is `Live`, said of the place of every closure and every activation too, since a
call or the end of a loop may go on there. `super` needs `ChainOK`: wherever a class
stands in a chain of method tables, and whoever inherits from it, the rest of the chain
is the class its methods close over as their superclass; and an environment of `this`
holds an instance whose chain has a method that closes over what is outside it. The
lemma they share is `Reached`: from an environment, so many enclosing ones out, is an
environment of the scope so many steps out in the text.
`RunInv` was checked by TLC on the programs of `MCEnvironments` before it was proved.

Only model-checked:

* `CollectionEnds`: liveness is out of the prover's reach.
* The properties of Programs: `Parser`, `PloxParser`, `TreeWalk` and `Disassembler` are
  recursive in the grammar, which the prover cannot follow.

## Not modelled

Left out of the models of a part that has one: the text that `print` and the
disassembler write; the characters of strings and what the native functions answer;
fields of plox's instances and `LoxBool`'s equality; plox's `break` in `PloxParser`
(it is in Resolver and Environments); what plox's prompt keeps from one line to the
next (counters of errors, which nothing reads but a message).

Not modelled: the scanners (one position, well covered by tests), NaN boxing (bit
operations on doubles), the generator and the printer of syntax trees, the test
runner and the scripts.
