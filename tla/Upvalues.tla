------------------------------ MODULE Upvalues ------------------------------
(***************************************************************************)
(* Call frames, the value stack and captured variables in clox/vm.c: a     *)
(* closure reaches a variable of an enclosing function through an upvalue, *)
(* which points into the stack while the variable is there and holds the   *)
(* value itself afterwards.                                                *)
(*                                                                         *)
(* The bytecode that runs is any that clox/compiler.c emits: what the      *)
(* compiler guarantees about it are guards here, and whether a local is    *)
(* captured is known when it is declared.  Each turn of a loop over the    *)
(* upvalues is a step.                                                     *)
(*                                                                         *)
(* Abstracted: Lox values are opaque and a closure is not one of them; any *)
(* closure there is can be called at any time, as if a global held it.     *)
(* Which variable a slot holds is kept beside the slot, and which variable *)
(* an upvalue was made for beside the upvalue: the code has neither.       *)
(***************************************************************************)
EXTENDS Integers, Sequences, FiniteSets

CONSTANTS
  Variable,    \* names for variables, to tell them apart
  Value, NIL,
  Upvalue,     \* ObjUpvalue addresses
  Closure,     \* ObjClosure addresses
  SCRIPT,      \* the closure of the script, which captures nothing
  NONE, CLOSED, NULL,
  ErrorsEnd,   \* whether the program ends at a runtime error: main.c, not at the prompt
  STACK_MAX, FRAMES_MAX,
  MaxArity, MaxUpvalues  \* bound a call's arguments and a closure's captures

ASSUME UpvaluesAssumption ==
  /\ NIL \in Value
  /\ NONE \notin Variable
  /\ SCRIPT \notin Closure
  /\ CLOSED \notin Int /\ NULL \notin Int /\ CLOSED # NULL
  /\ ErrorsEnd \in BOOLEAN
  /\ STACK_MAX \in Nat /\ FRAMES_MAX \in Nat
  /\ MaxArity \in Nat /\ MaxUpvalues \in Nat

VARIABLES
  stack, stackTop,    \* vm.stack up to vm.stackTop, from 0
  frames,             \* vm.frames up to vm.frameCount
  openUpvalues,       \* the list vm.openUpvalues, head first
  location,           \* of an upvalue: a slot, CLOSED (its own field), or NULL
  closed,             \* the closed field of an upvalue
  of,                 \* the variable an upvalue was made for
  closures, upvalues, \* the closures there are, and their arrays
  pc,
  work,               \* operands and locals of the instruction in progress
  reply               \* the variable just read and the value, for Variables

heap == <<location, closed, of, closures, upvalues>>
vars == <<stack, stackTop, frames, openUpvalues, heap, pc, work, reply>>

NoWork == [closure |-> SCRIPT, left |-> 0, last |-> 0, result |-> NIL]

Temporary(v) == [variable |-> NONE, isCaptured |-> FALSE, value |-> v]

-----------------------------------------------------------------------------
(* The stack and the frames *)

Init == /\ stack = [s \in {} |-> Temporary(NIL)] /\ stackTop = 0
        /\ frames = <<>> /\ openUpvalues = <<>>
        /\ location = [u \in Upvalue |-> NULL]
        /\ closed = [u \in Upvalue |-> NIL]
        /\ of = [u \in Upvalue |-> NONE]
        /\ closures = {SCRIPT}
        /\ upvalues = [c \in Closure \cup {SCRIPT} |-> <<>>]
        /\ pc = "idle" /\ work = NoWork /\ reply = <<>>

Pushed(cell) == [s \in 0..stackTop |-> IF s = stackTop THEN cell ELSE stack[s]]

(* Operators whose names say what they get wrong are seeded faults: each     *)
(* replaces the definition after it in one run, which must then fail.        *)
CutToOneMore(n) == [s \in 0..n |-> stack[s]]

CutTo(n) == [s \in 0..(n - 1) |-> stack[s]]

frame == frames[Len(frames)]
Top   == stackTop - 1

IsVariable(s) == stack[s].variable # NONE

\* A block has its variables lowest, then the temporaries of one statement.
OnlyVariables(from, to) == \A s \in from..to : IsVariable(s)

Live == {stack[s].variable : s \in DOMAIN stack} \cup {of[u] : u \in Upvalue}

\* Distinct variables nothing refers to yet, one for each member of S.
Fresh(S) == {f \in [S -> Variable \ Live] : \A s, t \in S : f[s] = f[t] => s = t}

Push(v) ==
  /\ pc = "run" /\ stackTop < STACK_MAX
  /\ stack' = Pushed(Temporary(v)) /\ stackTop' = stackTop + 1
  /\ reply' = <<>>
  /\ UNCHANGED <<frames, openUpvalues, heap, pc, work>>

\* The compiler's addLocal and markInitialized: the initializer's temporary is
\* the variable from here on. No instruction does it.
Declare(x, captured) ==
  /\ pc = "run"
  /\ Top > frame.slots /\ ~IsVariable(Top)
  /\ OnlyVariables(frame.slots + 1, Top - 1)
  /\ x \notin Live
  /\ stack' = [stack EXCEPT ![Top].variable = x, ![Top].isCaptured = captured]
  /\ reply' = <<>>
  /\ UNCHANGED <<stackTop, frames, openUpvalues, heap, pc, work>>

\* OP_POP at the end of an expression
Pop ==
  /\ pc = "run"
  /\ Top > frame.slots /\ ~IsVariable(Top)
  /\ stack' = CutTo(Top) /\ stackTop' = Top
  /\ reply' = <<>>
  /\ UNCHANGED <<frames, openUpvalues, heap, pc, work>>

GetLocal(s) ==
  /\ pc = "run" /\ stackTop < STACK_MAX
  /\ s >= frame.slots /\ IsVariable(s)
  /\ stack' = Pushed(Temporary(stack[s].value)) /\ stackTop' = stackTop + 1
  /\ reply' = <<stack[s].variable, stack[s].value>>
  /\ UNCHANGED <<frames, openUpvalues, heap, pc, work>>

SetLocal(s) ==
  /\ pc = "run"
  /\ s >= frame.slots /\ IsVariable(s)
  /\ Top > s /\ ~IsVariable(Top)
  /\ stack' = [stack EXCEPT ![s].value = stack[Top].value]
  /\ reply' = <<>>
  /\ UNCHANGED <<stackTop, frames, openUpvalues, heap, pc, work>>

EndScopeOnlyPops ==
  /\ pc = "run"
  /\ Top > frame.slots + frame.arity /\ IsVariable(Top)
  /\ stack' = CutTo(Top) /\ stackTop' = Top
  /\ reply' = <<>>
  /\ UNCHANGED <<frames, openUpvalues, heap, pc, work>>

\* endScope for the innermost variable of the block that ends: OP_CLOSE_UPVALUE
\* if it is captured, else OP_POP. Parameters stay until the function returns.
EndScope ==
  /\ pc = "run"
  /\ Top > frame.slots + frame.arity /\ IsVariable(Top)
  /\ IF stack[Top].isCaptured
     THEN /\ pc' = "end" /\ work' = [NoWork EXCEPT !.last = Top]
          /\ UNCHANGED <<stack, stackTop>>
     ELSE /\ stack' = CutTo(Top) /\ stackTop' = Top
          /\ UNCHANGED <<pc, work>>
  /\ reply' = <<>>
  /\ UNCHANGED <<frames, openUpvalues, heap>>

\* interpret(): the script's closure and its frame.
Interpret ==
  /\ pc = "idle"
  /\ stack' = Pushed(Temporary(NIL)) /\ stackTop' = stackTop + 1
  /\ frames' = Append(frames, [closure |-> SCRIPT, slots |-> stackTop, arity |-> 0])
  /\ pc' = "run"
  /\ reply' = <<>>
  /\ UNCHANGED <<openUpvalues, heap, work>>

\* call(): the arguments are the callee's parameters from here on, and slot 0 is
\* the variable "this" of a method.
Call(c, n, isMethod) ==
  LET base == stackTop - n - 1
      new  == (base + (IF isMethod THEN 0 ELSE 1))..Top
  IN
  /\ pc = "run" /\ Len(frames) < FRAMES_MAX
  /\ base > frame.slots
  /\ \A s \in base..Top : ~IsVariable(s)
  /\ \E name \in Fresh(new), captured \in [new -> BOOLEAN] :
       stack' = [s \in 0..Top |->
                   IF s \in new THEN [variable |-> name[s], isCaptured |-> captured[s],
                                      value |-> stack[s].value]
                   ELSE stack[s]]
  /\ frames' = Append(frames, [closure |-> c, slots |-> base, arity |-> n])
  /\ reply' = <<>>
  /\ UNCHANGED <<stackTop, openUpvalues, heap, pc, work>>

\* OP_RETURN up to its closeUpvalues; the script only returns at its end.
Return ==
  /\ pc = "run"
  /\ Top > frame.slots /\ ~IsVariable(Top)
  /\ OnlyVariables(frame.slots + 1, Top - 1)
  /\ Len(frames) = 1 => Top = 1
  /\ stack' = CutTo(Top) /\ stackTop' = Top
  /\ pc' = "return"
  /\ work' = [NoWork EXCEPT !.last = frame.slots, !.result = stack[Top].value]
  /\ reply' = <<>>
  /\ UNCHANGED <<frames, openUpvalues, heap>>

\* runtimeError and resetStack, after which run and interpret return.
RuntimeError ==
  /\ pc = "run"
  /\ stack' = CutTo(0) /\ stackTop' = 0
  /\ frames' = <<>> /\ openUpvalues' = <<>>
  /\ pc' = IF ErrorsEnd THEN "exit" ELSE "idle"
  /\ reply' = <<>>
  /\ UNCHANGED <<heap, work>>

-----------------------------------------------------------------------------
(* Closures and upvalues *)

\* OP_CLOSURE up to its loop, for a closure that captures n variables. That of
\* a local function declaration is that variable already.
MakeClosure(c, n, cell) ==
  /\ pc = "run" /\ stackTop < STACK_MAX
  /\ c \notin closures
  /\ cell.variable # NONE =>
       /\ OnlyVariables(frame.slots + 1, Top)
       /\ cell.variable \notin Live
  /\ stack' = Pushed(cell) /\ stackTop' = stackTop + 1
  /\ closures' = closures \cup {c}
  /\ pc' = "capture" /\ work' = [NoWork EXCEPT !.closure = c, !.left = n]
  /\ reply' = <<>>
  /\ UNCHANGED <<frames, openUpvalues, location, closed, of, upvalues>>

\* The walk of captureUpvalue stops behind the k upvalues above the slot.
WalkStops(s, k) ==
  /\ \A j \in 1..k : location[openUpvalues[j]] > s
  /\ k < Len(openUpvalues) => location[openUpvalues[k + 1]] <= s

FoundNever(s, k) == FALSE

\* It has found the upvalue of the slot.
Found(s, k) == k < Len(openUpvalues) /\ location[openUpvalues[k + 1]] = s

\* The operand of OP_CLOSURE names a local that the closure captures.
Capturable(s) == s >= frame.slots /\ IsVariable(s) /\ stack[s].isCaptured

InsertedAtHead(u, k) == <<u>> \o openUpvalues

Inserted(u, k) ==
  [j \in 1..(Len(openUpvalues) + 1) |->
     IF j <= k THEN openUpvalues[j]
     ELSE IF j = k + 1 THEN u ELSE openUpvalues[j - 1]]

\* The end of one turn of OP_CLOSURE's loop.
Captured(u) ==
  /\ upvalues' = [upvalues EXCEPT ![work.closure] = Append(@, u)]
  /\ work' = [work EXCEPT !.left = @ - 1]
  /\ reply' = <<>>

\* captureUpvalue, for a local that has an upvalue already
ReuseUpvalue(s, k) ==
  /\ pc = "capture" /\ work.left > 0
  /\ Capturable(s) /\ WalkStops(s, k) /\ Found(s, k)
  /\ Captured(openUpvalues[k + 1])
  /\ UNCHANGED <<stack, stackTop, frames, openUpvalues, location, closed, of,
                 closures, pc>>

\* captureUpvalue and newUpvalue, for a local that has none
CreateUpvalue(s, k, u) ==
  /\ pc = "capture" /\ work.left > 0
  /\ Capturable(s) /\ WalkStops(s, k) /\ ~Found(s, k)
  /\ location[u] = NULL
  /\ location' = [location EXCEPT ![u] = s]
  /\ closed' = [closed EXCEPT ![u] = NIL]
  /\ of' = [of EXCEPT ![u] = stack[s].variable]
  /\ openUpvalues' = Inserted(u, k)
  /\ Captured(u)
  /\ UNCHANGED <<stack, stackTop, frames, closures, pc>>

\* The operand of the instructions on upvalues: one of the running function's.
Named(i) == upvalues[frame.closure][i]
InReach  == IF frames = <<>> THEN {} ELSE DOMAIN upvalues[frame.closure]

\* A variable from further out: the upvalue of the function that is running.
ShareUpvalue(i) ==
  /\ pc = "capture" /\ work.left > 0
  /\ Captured(Named(i))
  /\ UNCHANGED <<stack, stackTop, frames, openUpvalues, location, closed, of,
                 closures, pc>>

CaptureDone ==
  /\ pc = "capture" /\ work.left = 0
  /\ pc' = "run" /\ work' = NoWork
  /\ reply' = <<>>
  /\ UNCHANGED <<stack, stackTop, frames, openUpvalues, heap>>

\* What *upvalue->location can be; above the top of the stack, anything.
Dereferenced(u) ==
  IF location[u] = CLOSED THEN {closed[u]}
  ELSE IF location[u] < stackTop THEN {stack[location[u]].value} ELSE Value

GetUpvalue(i) ==
  /\ pc = "run" /\ stackTop < STACK_MAX
  /\ \E v \in Dereferenced(Named(i)) :
       /\ stack' = Pushed(Temporary(v)) /\ stackTop' = stackTop + 1
       /\ reply' = <<of[Named(i)], v>>
  /\ UNCHANGED <<frames, openUpvalues, heap, pc, work>>

SetUpvalue(i) ==
  LET u == Named(i) IN
  /\ pc = "run"
  /\ Top > frame.slots /\ ~IsVariable(Top)
  /\ IF location[u] = CLOSED
     THEN closed' = [closed EXCEPT ![u] = stack[Top].value] /\ UNCHANGED stack
     ELSE stack' = [stack EXCEPT ![location[u]].value = stack[Top].value]
          /\ UNCHANGED closed
  /\ reply' = <<>>
  /\ UNCHANGED <<stackTop, frames, openUpvalues, location, of, closures, upvalues,
                 pc, work>>

\* closeUpvalues goes on.
MoreToClose == openUpvalues # <<>> /\ location[Head(openUpvalues)] >= work.last

CloseUpvalueUncopied ==
  LET u == Head(openUpvalues) IN
  /\ pc \in {"end", "return"} /\ MoreToClose
  /\ location' = [location EXCEPT ![u] = CLOSED]
  /\ openUpvalues' = Tail(openUpvalues)
  /\ reply' = <<>>
  /\ UNCHANGED <<stack, stackTop, frames, closed, of, closures, upvalues, pc, work>>

\* One turn of closeUpvalues.
CloseUpvalue ==
  LET u == Head(openUpvalues) IN
  /\ pc \in {"end", "return"} /\ MoreToClose
  /\ closed' = [closed EXCEPT ![u] = stack[location[u]].value]
  /\ location' = [location EXCEPT ![u] = CLOSED]
  /\ openUpvalues' = Tail(openUpvalues)
  /\ reply' = <<>>
  /\ UNCHANGED <<stack, stackTop, frames, of, closures, upvalues, pc, work>>

\* The rest of OP_CLOSE_UPVALUE.
ScopeEnded ==
  /\ pc = "end" /\ ~MoreToClose
  /\ stack' = CutTo(Top) /\ stackTop' = Top
  /\ pc' = "run" /\ work' = NoWork
  /\ reply' = <<>>
  /\ UNCHANGED <<frames, openUpvalues, heap>>

\* The rest of OP_RETURN: the result replaces the callee and its arguments, or
\* interpret is done.
Returned ==
  /\ pc = "return" /\ ~MoreToClose
  /\ frames' = SubSeq(frames, 1, Len(frames) - 1)
  /\ IF Len(frames) = 1
     THEN /\ stack' = CutTo(Top) /\ stackTop' = Top
          /\ pc' = "idle"
     ELSE /\ stack' = [s \in 0..frame.slots |->
                         IF s = frame.slots THEN Temporary(work.result) ELSE stack[s]]
          /\ stackTop' = frame.slots + 1
          /\ pc' = "run"
  /\ work' = NoWork
  /\ reply' = <<>>
  /\ UNCHANGED <<openUpvalues, heap>>

\* A collection frees closures that are neither running nor being made, and the
\* upvalues that only they hold; the open ones are roots.
CollectGarbage(C) ==
  LET left == closures \ C
      kept == {u \in Upvalue : \/ \E j \in DOMAIN openUpvalues : openUpvalues[j] = u
                               \/ \E c \in left : \E i \in DOMAIN upvalues[c] :
                                    upvalues[c][i] = u}
  IN
  /\ pc \in {"run", "capture", "idle"}
  /\ SCRIPT \notin C /\ work.closure \notin C
  /\ \A j \in DOMAIN frames : frames[j].closure \notin C
  /\ closures' = left
  /\ upvalues' = [c \in DOMAIN upvalues |-> IF c \in left THEN upvalues[c] ELSE <<>>]
  /\ location' = [u \in Upvalue |-> IF u \in kept THEN location[u] ELSE NULL]
  /\ closed' = [u \in Upvalue |-> IF u \in kept THEN closed[u] ELSE NIL]
  /\ of' = [u \in Upvalue |-> IF u \in kept THEN of[u] ELSE NONE]
  /\ reply' = <<>>
  /\ UNCHANGED <<stack, stackTop, frames, openUpvalues, pc, work>>

Next ==
  \/ \E v \in Value : Push(v)
  \/ \E x \in Variable, captured \in BOOLEAN : Declare(x, captured)
  \/ Pop \/ EndScope \/ Interpret \/ Return \/ Returned \/ RuntimeError
  \/ \E s \in DOMAIN stack : GetLocal(s) \/ SetLocal(s)
  \/ \E c \in closures \ {SCRIPT}, n \in 0..MaxArity, m \in BOOLEAN : Call(c, n, m)
  \/ \E c \in Closure, n \in 0..MaxUpvalues :
       \/ MakeClosure(c, n, Temporary(NIL))
       \/ \E x \in Variable, captured \in BOOLEAN :
            MakeClosure(c, n, [variable |-> x, isCaptured |-> captured, value |-> NIL])
  \/ \E s \in DOMAIN stack, k \in 0..Len(openUpvalues) :
       ReuseUpvalue(s, k) \/ \E u \in Upvalue : CreateUpvalue(s, k, u)
  \/ \E i \in InReach : ShareUpvalue(i) \/ GetUpvalue(i) \/ SetUpvalue(i)
  \/ CaptureDone \/ CloseUpvalue \/ ScopeEnded
  \/ \E C \in SUBSET Closure : CollectGarbage(C)

Spec == Init /\ [][Next]_vars
-----------------------------------------------------------------------------
(* Properties *)

Slot == [variable : Variable \cup {NONE}, isCaptured : BOOLEAN, value : Value]

TypeOK ==
  /\ stackTop \in Nat
  /\ stack \in [0..Top -> Slot]
  /\ frames \in Seq([closure : Closure \cup {SCRIPT}, slots : Nat, arity : Nat])
  /\ openUpvalues \in Seq(Upvalue)
  /\ location \in [Upvalue -> Nat \cup {CLOSED, NULL}]
  /\ closed \in [Upvalue -> Value]
  /\ of \in [Upvalue -> Variable \cup {NONE}]
  /\ closures \subseteq Closure \cup {SCRIPT}
  /\ upvalues \in [Closure \cup {SCRIPT} -> Seq(Upvalue)]
  /\ pc \in {"idle", "run", "capture", "end", "return", "exit"}
  /\ work \in [closure : Closure \cup {SCRIPT}, left : Nat, last : Nat, result : Value]
  /\ reply \in {<<>>} \cup Variable \X Value

\* Upvalues some closure holds.
Used == {u \in Upvalue : \E c \in closures : \E i \in DOMAIN upvalues[c] : upvalues[c][i] = u}

\* An upvalue in the stack points at the variable it was made for, never at
\* what took the slot after it (test/closure/reuse_closure_slot.lox).
ClosesOverItsVariable ==
  \A u \in Used : location[u] \in DOMAIN stack => stack[location[u]].variable = of[u]

\* Closures that capture one variable share one upvalue, before and after it is
\* closed, so that what one assigns the other reads (vm.c:245-266).
OneUpvalueEach ==
  \A u, v \in Upvalue : of[u] # NONE /\ of[u] = of[v] => u = v

\* The list is ordered by slot, topmost first, as captureUpvalue and
\* closeUpvalues take it to be.
Sorted ==
  \A j, k \in DOMAIN openUpvalues :
    j < k => location[openUpvalues[j]] > location[openUpvalues[k]]

\* The value of every variable, wherever it is, until the program ends.
Store ==
  [x \in (IF pc = "exit" THEN {} ELSE Live \ {NONE}) |->
     LET slots == {s \in DOMAIN stack : stack[s].variable = x} IN
     IF slots # {} THEN stack[CHOOSE s \in slots : TRUE].value
     ELSE closed[CHOOSE u \in Upvalue : of[u] = x]]

\* Reads and assignments, through slots and upvalues, are those of Variables.
Promise == INSTANCE Variables WITH store <- Store
KeepsPromise == Promise!Spec
=============================================================================
