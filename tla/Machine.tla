------------------------------ MODULE Machine ------------------------------
(***************************************************************************)
(* Calls, classes, methods and globals in clox's virtual machine (vm.c) at *)
(* the prompt (main.c): an error ends a line, and the next line goes on    *)
(* with the globals.  The program is any sequence of the instructions the  *)
(* compiler could emit.  Every operator takes and returns the machine,     *)
(* `vm', as every C function changes the one there is.                     *)
(*                                                                         *)
(* Three fields are not the code's: a frame's `counted', the values the    *)
(* compiler takes it to hold once the call it is making has answered; and  *)
(* a class's `super' and `own', what its declaration says.                 *)
(***************************************************************************)
EXTENDS Integers, Sequences, FiniteSets, SequencesExt

CONSTANTS
  Function,   \* the functions of the program, methods included
  Arity,      \* [Function -> Nat]
  Name,       \* of properties
  Field,      \* the names of properties that the program assigns
  Global,     \* names of globals
  Natives,    \* those of them that hold natives; the program only reads these
  MethodName, \* [Function -> Name \cup {NONE}], NONE for what is no method
  Owner,      \* [Function -> Nat], the class that declares the method
  InitString,       \* vm.initString
  GetterString,     \* vm.getterString
  NONE,
  FramesMax,  \* FRAMES_MAX
  MaxArguments,  \* UINT8_MAX: of a call
  MaxClasses, MaxInstances,
  MaxHeight   \* of the stack, in the programs that are followed

VARIABLE vm

Nil == [type |-> "nil"]
Native == [type |-> "native"]
Closure(f, super) == [type |-> "closure", function |-> f, super |-> super]
Class(c) == [type |-> "class", class |-> c]
Instance(i) == [type |-> "instance", instance |-> i]
Bound(i, method) == [type |-> "bound", receiver |-> i, method |-> method]

Closures == {Closure(f, super) : f \in Function, super \in 0 .. MaxClasses}
Bounds == {Bound(i, method) : i \in 1 .. MaxInstances, method \in Closures}

ASSUME MachineAssumption ==
  /\ Arity \in [Function -> Nat]
  /\ MethodName \in [Function -> Name \cup {NONE}]
  /\ NONE \notin Name /\ NONE \notin Function /\ NONE \notin Closures /\ NONE \notin Bounds
  /\ Owner \in [Function -> Nat]
  /\ Natives \subseteq Global
  /\ InitString \in Name /\ GetterString \in Name
  /\ FramesMax \in Nat \ {0} /\ {MaxArguments, MaxClasses, MaxInstances, MaxHeight} \subseteq Nat

Empty == [n \in Name |-> NONE]
NoBody == [class |-> 0, super |-> 0, methods |-> FALSE]

\* initVM defines the natives.
Init == vm = [phase |-> "ready", stack |-> <<>>, frames |-> <<>>, classes |-> <<>>, instances |-> <<>>,
              globals |-> [n \in Global |-> IF n \in Natives THEN Native ELSE NONE], body |-> NoBody]

-----------------------------------------------------------------------------
(* The stack and the frames.                                               *)

Height(v) == Len(v.stack)
Peek(v, distance) == v.stack[Height(v) - distance]
Pushed(v, value) == [v EXCEPT !.stack = Append(@, value)]
Popped(v, n) == [v EXCEPT !.stack = SubSeq(@, 1, Height(v) - n)]
Put(v, distance, value) == [v EXCEPT !.stack[Height(v) - distance] = value]

Frame(v) == Last(v.frames)
Counted(v, change) == [v EXCEPT !.frames[Len(v.frames)].counted = @ + change]

ResetStack(v) == [v EXCEPT !.stack = <<>>, !.frames = <<>>, !.body = NoBody]
RuntimeError(v) == [ResetStack(v) EXCEPT !.phase = "failed"]

-----------------------------------------------------------------------------
(* Calls.                                                                  *)

\* Seeded fault: no check of the frames.
CallUnlimited(v, closure, argCount) ==
  IF argCount # Arity[closure.function] THEN RuntimeError(v)
  ELSE [v EXCEPT !.frames = Append(@, [function |-> closure.function, super |-> closure.super,
                                       slots |-> Height(v) - argCount - 1,
                                       counted |-> 1 + Arity[closure.function]])]

Call(v, closure, argCount) ==
  IF argCount # Arity[closure.function] \/ Len(v.frames) = FramesMax THEN RuntimeError(v)
  ELSE [v EXCEPT !.frames = Append(@, [function |-> closure.function, super |-> closure.super,
                                       slots |-> Height(v) - argCount - 1,
                                       counted |-> 1 + Arity[closure.function]])]

\* Instances that nothing refers to can be had again.
Refers(value, i) == \/ value.type = "instance" /\ value.instance = i
                    \/ value.type = "bound" /\ value.receiver = i
ValuesIn(map) == {map[n] : n \in {n \in DOMAIN map : map[n] # NONE}}
Values(v) == {v.stack[k] : k \in DOMAIN v.stack} \cup ValuesIn(v.globals)
             \cup UNION {ValuesIn(v.instances[i].fields) : i \in DOMAIN v.instances}
Free(v) == {i \in 1 .. MaxInstances : i > Len(v.instances) \/ \A x \in Values(v) : ~Refers(x, i)}
NewInstance(v, c, i) ==
  [v EXCEPT !.instances = IF i > Len(@) THEN Append(@, [class |-> c, fields |-> Empty])
                          ELSE [@ EXCEPT ![i] = [class |-> c, fields |-> Empty]]]

CallClass(v, c, argCount) ==
  LET i == CHOOSE i \in Free(v) : \A j \in Free(v) : i <= j
      made == Put(NewInstance(v, c, i), argCount, Instance(i))
      initializer == v.classes[c].methods[InitString]
  IN  CASE initializer # NONE -> Call(made, initializer, argCount)
        [] initializer = NONE /\ argCount # 0 -> RuntimeError(v)
        [] OTHER -> made

\* Seeded fault: the bound method stays where the receiver should be.
CallBoundAlone(v, bound, argCount) == Call(v, bound.method, argCount)

CallBound(v, bound, argCount) ==
  Call(Put(v, argCount, Instance(bound.receiver)), bound.method, argCount)

\* Seeded fault: the native stays under its answer.
CallNativeStays(v, argCount) == Pushed(Popped(v, argCount), Nil)

CallNative(v, argCount) == Pushed(Popped(v, argCount + 1), Nil)

CallValue(v, callee, argCount) ==
  CASE callee.type = "bound" -> CallBound(v, callee, argCount)
    [] callee.type = "closure" -> Call(v, callee, argCount)
    [] callee.type = "class" -> CallClass(v, callee.class, argCount)
    [] callee.type = "native" -> CallNative(v, argCount)
    [] OTHER -> RuntimeError(v)

InvokeFromClass(v, c, name, argCount) ==
  LET method == v.classes[c].methods[name]
  IN  IF method = NONE THEN RuntimeError(v) ELSE Call(v, method, argCount)

\* Seeded fault: methods come before fields.
InvokeMethodsFirst(v, name, argCount) ==
  LET receiver == Peek(v, argCount)
      object == v.instances[receiver.instance]
      field == object.fields[name]
  IN  CASE receiver.type # "instance" -> RuntimeError(v)
        [] receiver.type = "instance" /\ v.classes[object.class].methods[name] = NONE /\ field # NONE ->
             CallValue(Put(v, argCount, field), field, argCount)
        [] OTHER -> InvokeFromClass(v, object.class, name, argCount)

Invoke(v, name, argCount) ==
  LET receiver == Peek(v, argCount)
      object == v.instances[receiver.instance]
      field == object.fields[name]
  IN  CASE receiver.type # "instance" -> RuntimeError(v)
        [] receiver.type = "instance" /\ field # NONE -> CallValue(Put(v, argCount, field), field, argCount)
        [] OTHER -> InvokeFromClass(v, object.class, name, argCount)

BindMethod(v, c, name) ==
  LET method == v.classes[c].methods[name]
  IN  IF method = NONE THEN RuntimeError(v)
      ELSE Pushed(Popped(v, 1), Bound(Peek(v, 0).instance, method))

GetProperty(v, name) ==
  LET object == v.instances[Peek(v, 0).instance]
      field == object.fields[name]
  IN  CASE Peek(v, 0).type # "instance" -> RuntimeError(v)
        [] Peek(v, 0).type = "instance" /\ field # NONE -> Pushed(Popped(v, 1), field)
        [] OTHER -> BindMethod(v, object.class, name)

HasProperty(v, i, name) ==
  \/ v.instances[i].fields[name] # NONE
  \/ v.classes[v.instances[i].class].methods[name] # NONE

Subscript(v) ==
  IF Peek(v, 1).type = "instance" /\ HasProperty(v, Peek(v, 1).instance, GetterString)
  THEN Invoke(v, GetterString, 1) ELSE RuntimeError(v)

-----------------------------------------------------------------------------
(* Instructions.  A frame's parameters are never popped, and only slots    *)
(* after slot 0 are assigned to.                                           *)

Running == vm.phase = "running" /\ vm.body = NoBody
InScript == Len(vm.frames) = 1
Here == Frame(vm)
Params(frame) == IF frame.function = NONE THEN 1 ELSE 1 + Arity[frame.function]
Has(n) == Running /\ Here.counted - n >= Params(Here)

\* A bound of the model alone: push checks nothing, and the compiler counts no temporaries.
Low(n) == Height(vm) + n <= MaxHeight
Room(n) == Running /\ Low(n)
InMethod == Here.function # NONE /\ MethodName[Here.function] # NONE

Interpret ==
  /\ vm.phase # "running"
  /\ vm' = [vm EXCEPT !.phase = "running", !.stack = Append(@, Closure(NONE, 0)),
              !.frames = Append(@, [function |-> NONE, super |-> 0, slots |-> Height(vm), counted |-> 1])]

\* OP_CLOSURE; numbers, nil and the like come from natives, which is all that they differ in here.
MakeClosure == /\ Room(1)
               /\ \E f \in {f \in Function : MethodName[f] = NONE} :
                    vm' = Counted(Pushed(vm, Closure(f, 0)), 1)

Pop == Has(1) /\ vm' = Counted(Popped(vm, 1), -1)

GetLocal == /\ Room(1)
            /\ \E slot \in (IF InMethod THEN 0 ELSE 1) .. Here.counted - 1 :
                 vm' = Counted(Pushed(vm, vm.stack[Here.slots + slot + 1]), 1)

SetLocal == /\ Has(1)
            /\ \E slot \in 1 .. Here.counted - 2 :
                 vm' = [vm EXCEPT !.stack[Here.slots + slot + 1] = Peek(vm, 0)]

GetGlobal(name) == /\ Room(1)
                   /\ vm' = IF vm.globals[name] = NONE THEN RuntimeError(vm)
                            ELSE Counted(Pushed(vm, vm.globals[name]), 1)

DefineGlobal(name) == /\ Has(1) /\ InScript
                      /\ vm' = Counted(Popped([vm EXCEPT !.globals[name] = Peek(vm, 0)], 1), -1)

\* Seeded fault: the name stays.
AssignedKept(v, name) ==
  LET set == [v EXCEPT !.globals[name] = Peek(v, 0)]
  IN  IF v.globals[name] # NONE THEN set ELSE RuntimeError(set)

\* tableSet answers that the name is new; then it is deleted again.
Assigned(v, name) ==
  LET set == [v EXCEPT !.globals[name] = Peek(v, 0)]
  IN  IF v.globals[name] # NONE THEN set ELSE RuntimeError([set EXCEPT !.globals[name] = NONE])
SetGlobal(name) == Has(1) /\ vm' = Assigned(vm, name)

Property(name) == Has(1) /\ vm' = GetProperty(vm, name)

SetProperty(name) ==
  /\ Has(2) /\ name \in Field
  /\ vm' = IF Peek(vm, 1).type # "instance" THEN RuntimeError(vm)
           ELSE Counted(Pushed(Popped([vm EXCEPT !.instances[Peek(vm, 1).instance].fields[name] = Peek(vm, 0)], 2),
                               Peek(vm, 0)), -1)

\* `this' and the superclass are pushed just before; the superclass is popped at once.
GetSuper(name) == /\ Room(1) /\ InMethod /\ Here.super # 0
                  /\ vm' = BindMethod(Counted(Pushed(vm, vm.stack[Here.slots + 1]), 1), Here.super, name)

\* The caller counts one value for the callee and its arguments, whoever answers.
Answered(v, argCount) == Counted(v, -argCount)

\* A call that makes an instance needs one that is free: a bound of the model.
Calling(value) == value.type = "class" => Free(vm) # {}
CallingField(receiver, name) ==
  receiver.type = "instance" =>
    LET field == vm.instances[receiver.instance].fields[name] IN field # NONE => Calling(field)

CallInstruction(argCount) ==
  /\ Has(argCount + 1) /\ Calling(Peek(vm, argCount))
  /\ vm' = CallValue(Answered(vm, argCount), Peek(vm, argCount), argCount)

InvokeInstruction(name, argCount) ==
  /\ Has(argCount + 1) /\ CallingField(Peek(vm, argCount), name)
  /\ vm' = Invoke(Answered(vm, argCount), name, argCount)

\* The receiver that the compiler pushed is `this'.
SuperInvoke(name, argCount) ==
  /\ Has(argCount + 1) /\ InMethod /\ Here.super # 0
  /\ Peek(vm, argCount) = vm.stack[Here.slots + 1]
  /\ vm' = InvokeFromClass(Answered(vm, argCount), Here.super, name, argCount)

SubscriptInstruction == Has(2) /\ CallingField(Peek(vm, 1), GetterString) /\ vm' = Subscript(Answered(vm, 1))

Returned(v) ==
  LET left == [v EXCEPT !.stack = SubSeq(@, 1, Frame(v).slots), !.frames = Front(@)]
  IN  IF Len(v.frames) = 1 THEN [Popped(v, 2) EXCEPT !.frames = <<>>, !.phase = "ready"]
      ELSE Pushed(left, Peek(v, 0))

\* With a value, or what emitReturn has pushed just before: slot 0 or nil.
InInitializer == InMethod /\ MethodName[Here.function] = InitString
Return ==
  \/ Has(1) /\ ~InScript /\ ~InInitializer /\ vm' = Returned(vm)
  \/ /\ Running /\ (InScript => Here.counted = 1)
     /\ vm' = Returned(Pushed(vm, IF InInitializer THEN vm.stack[Here.slots + 1] ELSE Nil))

-----------------------------------------------------------------------------
(* Class declarations: nothing else runs between their instructions.       *)

Declaring == vm.phase = "running" /\ vm.body # NoBody

\* A class is a local, or at the script's level a global from its first instruction on.
ClassInstruction ==
  /\ Running /\ Len(vm.classes) < MaxClasses
  /\ LET c == Len(vm.classes) + 1
         made == [vm EXCEPT !.classes = Append(@, [methods |-> Empty, super |-> 0, own |-> Empty]),
                            !.body.class = c]
     IN  \/ Room(1) /\ vm' = Counted(Pushed(made, Class(c)), 1)
         \/ InScript /\ \E name \in Global \ Natives : vm' = [made EXCEPT !.globals[name] = Class(c)]

\* OP_INHERIT: the superclass's methods are copied, and it stays on the stack, a local.
Inherited(v, superclass) ==
  LET c == v.body.class
      from == v.classes[superclass.class].methods
  IN  IF superclass.type # "class" THEN RuntimeError(v)
      ELSE [v EXCEPT !.classes[c].methods = [n \in Name |-> IF from[n] # NONE THEN from[n] ELSE @[n]],
                     !.classes[c].super = superclass.class, !.body.super = superclass.class]
Inherit ==
  /\ Declaring /\ vm.body.super = 0 /\ ~vm.body.methods
  /\ Low(1)
  /\ \E superclass \in Values(vm) \ {Class(vm.body.class)} :
       vm' = Inherited(Counted(Pushed(vm, superclass), 1), superclass)

DefineMethod(v, f, method) ==
  [v EXCEPT !.classes[v.body.class].methods[MethodName[f]] = method,
            !.classes[v.body.class].own[MethodName[f]] = method, !.body.methods = TRUE]
Method ==
  /\ Declaring
  /\ \E f \in Function : /\ MethodName[f] # NONE /\ Owner[f] = vm.body.class
                         /\ vm' = DefineMethod(vm, f, Closure(f, vm.body.super))

EndClass ==
  /\ Declaring
  /\ vm' = [(IF vm.body.super = 0 THEN vm ELSE Counted(Popped(vm, 1), -1)) EXCEPT !.body = NoBody]

Globals == \/ \E name \in Global : GetGlobal(name)
           \/ \E name \in Global \ Natives : DefineGlobal(name) \/ SetGlobal(name)
Properties == \E name \in Name : Property(name) \/ SetProperty(name) \/ GetSuper(name)
Calls == \E argCount \in 0 .. MaxArguments :
           \/ CallInstruction(argCount)
           \/ \E name \in Name : InvokeInstruction(name, argCount) \/ SuperInvoke(name, argCount)

Next == \/ Interpret \/ MakeClosure \/ Pop \/ GetLocal \/ SetLocal \/ Globals \/ Properties \/ Calls \/ SubscriptInstruction
        \/ Return \/ ClassInstruction \/ Inherit \/ Method \/ EndClass

Spec == Init /\ [][Next]_vm

-----------------------------------------------------------------------------
(* Properties                                                              *)

Classes == DOMAIN vm.classes

\* A class and those it inherits from; and its methods, as the declarations have them: its
\* own, else its superclass's.
Chain == LET chain[c \in 0 .. MaxClasses] ==
               IF c \notin Classes THEN {} ELSE {c} \cup chain[vm.classes[c].super]
         IN  chain
Meant(name) ==
  LET look[c \in 0 .. MaxClasses] ==
        IF c \notin Classes THEN NONE
        ELSE IF vm.classes[c].own[name] # NONE THEN vm.classes[c].own[name]
        ELSE look[vm.classes[c].super]
  IN  look

\* The array of frames is never overrun, however calls are nested and whatever is called; a class
\* inherits from an earlier one, and what refers to a class refers to one that is there.  Of the
\* stack's array nothing is said: `call' counts frames, and nothing bounds the values of a frame.
TypeOK ==
  /\ vm.phase \in {"ready", "running", "failed"}
  /\ Len(vm.frames) <= FramesMax
  /\ vm.body.class \in Classes \cup {0} /\ vm.body.super \in Classes \cup {0}
  /\ \A c \in Classes : vm.classes[c].super < c
  /\ \A i \in DOMAIN vm.instances : vm.instances[i].class \in Classes

\* Whatever a frame has called, and whoever has answered, it has as many values as the compiler
\* has counted, and the frame it calls begins at the callee it pushed; between two lines nothing
\* is left of either, after an error no more than after a return.
HeightsAsCounted ==
  LET frames == vm.frames
      End(k) == IF k = Len(frames) THEN Height(vm) ELSE frames[k + 1].slots + 1
  IN  /\ \A k \in DOMAIN frames : frames[k].slots + frames[k].counted = End(k)
      /\ vm.phase # "running" => vm.stack = <<>> /\ frames = <<>>
      /\ vm.phase = "running" => frames # <<>> /\ frames[1].slots = 0

\* A method runs with an instance in slot 0 that has the method by its class or by one that class
\* inherits from, by whatever road it came there: a call, a bound method kept for later, super.
ThisUnderstands ==
  \A k \in DOMAIN vm.frames :
    LET f == vm.frames[k].function
        this == vm.stack[vm.frames[k].slots + 1]
    IN  f # NONE /\ MethodName[f] # NONE =>
          /\ this.type = "instance"
          /\ \E c \in Chain[vm.instances[this.instance].class] :
               LET method == vm.classes[c].own[MethodName[f]]
               IN  method # NONE /\ method.function = f

\* What an instance answers to a name, and NONE when it has no answer.
Answer(value, name) ==
  IF value.type # "instance" THEN NONE
  ELSE LET object == vm.instances[value.instance]
           method == Meant(name)[object.class]
       IN  IF object.fields[name] # NONE THEN object.fields[name]
           ELSE IF method # NONE THEN Bound(value.instance, method) ELSE NONE

CalledWith(got, argCount) ==
  IF got = NONE THEN RuntimeError(vm) ELSE CallValue(Put(vm, argCount, got), got, argCount)

\* OP_INVOKE, OP_SUPER_INVOKE and the subscript of an instance are short for getting the property
\* and calling it: the same frame with the same values, and an error for an error.
DispatchIsLookup ==
  Running => \A n \in 0 .. Here.counted - Params(Here) - 1, name \in Name :
      LET receiver == Peek(vm, n)
          got == Answer(receiver, name)
          super == Meant(name)[Here.super]
      IN  CallingField(receiver, name) =>
          /\ Invoke(vm, name, n) = CalledWith(got, n)
          /\ n = 1 /\ name = GetterString => Subscript(vm) = CalledWith(got, n)
          /\ n = 0 => GetProperty(vm, name) = IF got = NONE THEN RuntimeError(vm) ELSE Put(vm, 0, got)
          /\ InMethod /\ Here.super # 0 /\ receiver = vm.stack[Here.slots + 1] =>
               InvokeFromClass(vm, Here.super, name, n)
                 = CalledWith(IF super = NONE THEN NONE ELSE Bound(receiver.instance, super), n)

\* An error leaves the globals as they were, that of an assignment to a name nobody declared too.
ErrorsLeaveNothing ==
  [][vm.phase = "running" /\ vm'.phase = "failed" => vm'.globals = vm.globals]_vm
=============================================================================
