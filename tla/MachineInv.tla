----------------------------- MODULE MachineInv -----------------------------
(***************************************************************************)
(* The inductive invariant of Machine.tla, of any machine `v', so that it  *)
(* can be said of those a call passes through: `owed' is the number of     *)
(* values on the stack that the caller no longer counts.                   *)
(***************************************************************************)
EXTENDS Machine

Script == Closure(NONE, 0)
Plain == {f \in Function : MethodName[f] = NONE}
Methods == {Closure(f, super) : f \in Function \ Plain, super \in 0 .. MaxClasses}

ClassValues == {Class(c) : c \in 1 .. MaxClasses}
InstanceValues == {Instance(i) : i \in 1 .. MaxInstances}
BoundMethods == {Bound(i, method) : i \in 1 .. MaxInstances, method \in Methods}
PlainValues == {Nil, Native} \cup {Closure(f, 0) : f \in Plain}
AnyValue == PlainValues \cup ClassValues \cup InstanceValues \cup BoundMethods

FrameType == [function : Function \cup {NONE}, super : 0 .. MaxClasses, slots : Nat, counted : Int]
ClassType == [methods : [Name -> Methods \cup {NONE}], super : 0 .. MaxClasses,
              own : [Name -> Methods \cup {NONE}]]
InstanceType == [class : 1 .. MaxClasses, fields : [Name -> AnyValue \cup {NONE}]]

MachineType ==
  [phase : {"ready", "running", "failed"}, stack : Seq(AnyValue \cup {Script}), frames : Seq(FrameType),
   classes : Seq(ClassType), instances : Seq(InstanceType), globals : [Global -> AnyValue \cup {NONE}],
   body : [class : 0 .. MaxClasses, super : 0 .. MaxClasses, methods : BOOLEAN]]

\* The class c and those it inherits from: what is in every set that has c and with a class its
\* superclass.
Above(classes, c) ==
  {d \in 1 .. c : \A S \in SUBSET (1 .. c) :
     c \in S /\ (\A e \in S : classes[e].super # 0 => classes[e].super \in S) => d \in S}

\* An instance has the method by its class or by one that class inherits from.
Understands(v, i, method) ==
  \E d \in Above(v.classes, v.instances[i].class) :
    v.classes[d].own[MethodName[method.function]] = method

\* The value refers to nothing that is not there.
There(v, x) ==
  /\ x \in AnyValue
  /\ x \in ClassValues => x.class \in DOMAIN v.classes
  /\ x \in InstanceValues => x.instance \in DOMAIN v.instances
  /\ x \in BoundMethods => x.receiver \in DOMAIN v.instances /\ Understands(v, x.receiver, x.method)

\* Frames lie one above the other, each with what the compiler has counted; a caller
\* has counted the value that its callee leaves.
End(v, owed, k) == IF k = Len(v.frames) THEN Height(v) - owed ELSE v.frames[k + 1].slots + 1
HeightsFit(v, owed) ==
  /\ Len(v.frames) <= FramesMax
  /\ \A k \in DOMAIN v.frames :
       /\ v.frames[k].slots + v.frames[k].counted = End(v, owed, k)
       /\ v.frames[k].counted >= Params(v.frames[k])
       /\ k < Len(v.frames) => v.frames[k].counted > Params(v.frames[k])
  /\ \A j, k \in DOMAIN v.frames : j < k => v.frames[j].slots < v.frames[k].slots
  /\ v.phase # "running" => v.stack = <<>> /\ v.frames = <<>>
  /\ v.phase = "running" => v.frames # <<>> /\ v.frames[1].slots = 0

\* While a class is declared it is the last one, has no instances, and its superclass is on top
\* of the stack.
Declares(v) ==
  /\ v.body.class = 0 => v.body = NoBody
  /\ v.body.class # 0 =>
       /\ v.phase = "running" /\ v.body.class = Len(v.classes)
       /\ v.body.super = v.classes[v.body.class].super
       /\ v.body.super # 0 => Frame(v).counted > Params(Frame(v))
       /\ ~v.body.methods => v.classes[v.body.class].own = Empty
  /\ \A i \in DOMAIN v.instances : v.instances[i].class \in DOMAIN v.classes \ {v.body.class}

\* A class has its own methods, and its superclass's for the names it has none of.
Inherits(v) ==
  /\ Len(v.classes) <= MaxClasses /\ Len(v.instances) <= MaxInstances
  /\ \A c \in DOMAIN v.classes, n \in Name :
       LET class == v.classes[c] IN
       /\ class.super < c
       /\ class.own[n] # NONE => MethodName[class.own[n].function] = n /\ class.own[n].super = class.super
       /\ class.methods[n] = IF class.own[n] # NONE THEN class.own[n]
                             ELSE IF class.super = 0 THEN NONE ELSE v.classes[class.super].methods[n]

\* The script is in its own slot and nowhere else.
ValuesThere(v) ==
  /\ \A k \in DOMAIN v.stack : IF k = 1 THEN v.stack[k] = Script ELSE There(v, v.stack[k])
  /\ \A n \in Global : v.globals[n] # NONE => There(v, v.globals[n])
  /\ \A i \in DOMAIN v.instances, n \in Name :
       v.instances[i].fields[n] # NONE => There(v, v.instances[i].fields[n])

\* Only the first frame is the script's; a method's has an instance in slot 0 that understands it.
FramesRun(v) ==
  \A k \in DOMAIN v.frames :
    LET frame == v.frames[k]
        this == v.stack[frame.slots + 1]
    IN  /\ frame.function = NONE <=> k = 1
        /\ k > 1 /\ frame.function \notin Plain =>
             this \in InstanceValues /\ Understands(v, this.instance, Closure(frame.function, frame.super))

Fine(v, owed) ==
  /\ v \in MachineType
  /\ HeightsFit(v, owed) /\ Declares(v) /\ Inherits(v) /\ ValuesThere(v) /\ FramesRun(v)

IInv == Fine(vm, 0)
=============================================================================
