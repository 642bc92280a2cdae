--------------------------- MODULE MachineProofs ---------------------------
(***************************************************************************)
(* That IInv is an invariant of Machine.tla, one lemma per instruction and *)
(* per function of vm.c it calls, and what follows from it for every       *)
(* program, every number of frames, classes and instances.                 *)
(***************************************************************************)
EXTENDS MachineInv, SequenceTheorems, WellFoundedInduction, TLAPS

-----------------------------------------------------------------------------
(* The values and the machine's fields.                                    *)

\* What the members of the sets of values are, and what they are not.
LEMMA ValueFields ==
  ASSUME NEW x
  PROVE  /\ x \in ClassValues => x.type = "class" /\ x.class \in 1 .. MaxClasses /\ x = Class(x.class)
         /\ x \in InstanceValues => /\ x.type = "instance" /\ x.instance \in 1 .. MaxInstances
                                    /\ x = Instance(x.instance)
         /\ x \in BoundMethods => /\ x.type = "bound" /\ x.receiver \in 1 .. MaxInstances
                                  /\ x.method \in Methods /\ x = Bound(x.receiver, x.method)
         /\ x \in PlainValues => x.type \in {"nil", "native", "closure"}
         /\ x \in PlainValues /\ x.type = "closure" =>
              /\ x.function \in Function /\ MethodName[x.function] = NONE
              /\ x.super = 0 /\ x = Closure(x.function, 0)
<1>1. x \in ClassValues => x.type = "class" /\ x.class \in 1 .. MaxClasses /\ x = Class(x.class)
  BY DEF ClassValues, Class
<1>2. x \in InstanceValues => /\ x.type = "instance" /\ x.instance \in 1 .. MaxInstances
                              /\ x = Instance(x.instance)
  BY DEF InstanceValues, Instance
<1>3. x \in BoundMethods => /\ x.type = "bound" /\ x.receiver \in 1 .. MaxInstances
                            /\ x.method \in Methods /\ x = Bound(x.receiver, x.method)
  BY DEF BoundMethods, Bound
<1>4. x \in PlainValues => x.type \in {"nil", "native", "closure"}
  BY DEF PlainValues, Nil, Native, Closure
<1>5. ASSUME x \in PlainValues, x.type = "closure"
      PROVE  /\ x.function \in Function /\ MethodName[x.function] = NONE
             /\ x.super = 0 /\ x = Closure(x.function, 0)
  <2>1. PICK f \in Plain : x = Closure(f, 0)
    BY <1>5 DEF PlainValues, Nil, Native
  <2> QED BY <2>1 DEF Closure, Plain
<1> QED BY <1>1, <1>2, <1>3, <1>4, <1>5

\* A method's closure.
LEMMA MethodFields ==
  ASSUME NEW m \in Methods
  PROVE  /\ m.type = "closure" /\ m.function \in Function /\ m.function \notin Plain
         /\ m.super \in 0 .. MaxClasses /\ m = Closure(m.function, m.super)
         /\ MethodName[m.function] \in Name /\ MethodName[m.function] # NONE
         /\ m \in Closures /\ m # NONE
<1>1. PICK f \in Function \ Plain, super \in 0 .. MaxClasses : m = Closure(f, super)
  BY DEF Methods
<1>2. m \in Closures
  BY <1>1 DEF Closures
<1>3. m.type = "closure" /\ m.function = f /\ m.super = super
  BY <1>1 DEF Closure
<1> QED BY <1>1, <1>2, <1>3, MachineAssumption DEF Plain

\* Values of one kind are not of another.
LEMMA Kinds ==
  ASSUME NEW x \in AnyValue
  PROVE  /\ x.type = "class" <=> x \in ClassValues
         /\ x.type = "instance" <=> x \in InstanceValues
         /\ x.type = "bound" <=> x \in BoundMethods
         /\ x.type \in {"nil", "native", "closure"} <=> x \in PlainValues
<1>1. \/ x \in ClassValues \/ x \in InstanceValues \/ x \in BoundMethods \/ x \in PlainValues
  BY DEF AnyValue
<1> QED BY <1>1, ValueFields

\* What the type of the machine says of its fields.
LEMMA MachineFields ==
  ASSUME NEW v \in MachineType
  PROVE  /\ v.phase \in {"ready", "running", "failed"}
         /\ v.stack \in Seq(AnyValue \cup {Script}) /\ v.frames \in Seq(FrameType)
         /\ v.classes \in Seq(ClassType) /\ v.instances \in Seq(InstanceType)
         /\ v.globals \in [Global -> AnyValue \cup {NONE}]
         /\ v.body \in [class : 0 .. MaxClasses, super : 0 .. MaxClasses, methods : BOOLEAN]
         /\ Height(v) \in Nat /\ DOMAIN v.stack = 1 .. Height(v)
         /\ \A k \in 1 .. Height(v) : v.stack[k] \in AnyValue \cup {Script}
         /\ Len(v.frames) \in Nat /\ DOMAIN v.frames = 1 .. Len(v.frames)
         /\ \A k \in 1 .. Len(v.frames) : v.frames[k] \in FrameType
         /\ Len(v.classes) \in Nat /\ DOMAIN v.classes = 1 .. Len(v.classes)
         /\ \A c \in 1 .. Len(v.classes) : v.classes[c] \in ClassType
         /\ Len(v.instances) \in Nat /\ DOMAIN v.instances = 1 .. Len(v.instances)
         /\ \A i \in 1 .. Len(v.instances) : v.instances[i] \in InstanceType
<1>1. /\ v.phase \in {"ready", "running", "failed"}
      /\ v.stack \in Seq(AnyValue \cup {Script}) /\ v.frames \in Seq(FrameType)
      /\ v.classes \in Seq(ClassType) /\ v.instances \in Seq(InstanceType)
      /\ v.globals \in [Global -> AnyValue \cup {NONE}]
      /\ v.body \in [class : 0 .. MaxClasses, super : 0 .. MaxClasses, methods : BOOLEAN]
  BY DEF MachineType
<1> HIDE DEF MachineType
<1>2. \A S : \A s \in Seq(S) : /\ Len(s) \in Nat /\ DOMAIN s = 1 .. Len(s)
                               /\ \A k \in 1 .. Len(s) : s[k] \in S
  OBVIOUS
<1> QED BY <1>1, <1>2 DEF Height

\* Fields of the members.
LEMMA MemberFields ==
  /\ \A x \in FrameType : /\ x.function \in Function \cup {NONE} /\ x.super \in 0 .. MaxClasses
                          /\ x.slots \in Nat /\ x.counted \in Int
  /\ \A x \in ClassType : /\ x.methods \in [Name -> Methods \cup {NONE}]
                          /\ x.super \in 0 .. MaxClasses
                          /\ x.own \in [Name -> Methods \cup {NONE}]
  /\ \A x \in InstanceType : x.class \in 1 .. MaxClasses /\ x.fields \in [Name -> AnyValue \cup {NONE}]
BY DEF FrameType, ClassType, InstanceType

\* A machine with another field of its type is a machine.
LEMMA WithStack ==
  ASSUME NEW v \in MachineType, NEW stack \in Seq(AnyValue \cup {Script})
  PROVE  [v EXCEPT !.stack = stack] \in MachineType
BY DEF MachineType

\* The same for its frames.
LEMMA WithFrames ==
  ASSUME NEW v \in MachineType, NEW frames \in Seq(FrameType)
  PROVE  [v EXCEPT !.frames = frames] \in MachineType
BY DEF MachineType

\* The stack and the frames apart, the two machines are the same.
SameBelow(v, w) ==
  /\ w.phase = v.phase /\ w.classes = v.classes /\ w.instances = v.instances
  /\ w.globals = v.globals /\ w.body = v.body

\* Pushed: one value more, the others where they were.
LEMMA PushedIs ==
  ASSUME NEW v \in MachineType, NEW x \in AnyValue \cup {Script}
  PROVE  LET w == Pushed(v, x) IN
         /\ w \in MachineType /\ SameBelow(v, w) /\ w.frames = v.frames
         /\ Height(w) = Height(v) + 1 /\ w.stack[Height(w)] = x
         /\ \A k \in 1 .. Height(v) : w.stack[k] = v.stack[k]
<1> DEFINE s == Append(v.stack, x)
<1>1. v.stack \in Seq(AnyValue \cup {Script})
  BY MachineFields
<1>2. /\ s \in Seq(AnyValue \cup {Script}) /\ Len(s) = Len(v.stack) + 1 /\ s[Len(s)] = x
      /\ \A k \in 1 .. Len(v.stack) : s[k] = v.stack[k]
  BY <1>1
<1>3. Pushed(v, x) = [v EXCEPT !.stack = s]
  BY DEF Pushed, MachineType
<1> HIDE DEF s
<1>4. [v EXCEPT !.stack = s] \in MachineType
  BY <1>2, WithStack
<1>5. [v EXCEPT !.stack = s].stack = s
  BY DEF MachineType
<1> QED BY <1>2, <1>3, <1>4, <1>5 DEF SameBelow, MachineType, Height

\* Popped: n values less, the others where they were.
LEMMA PoppedIs ==
  ASSUME NEW v \in MachineType, NEW n \in 0 .. Height(v)
  PROVE  LET w == Popped(v, n) IN
         /\ w \in MachineType /\ SameBelow(v, w) /\ w.frames = v.frames
         /\ Height(w) = Height(v) - n
         /\ \A k \in 1 .. Height(w) : w.stack[k] = v.stack[k]
<1> DEFINE s == SubSeq(v.stack, 1, Height(v) - n)
<1>1. v.stack \in Seq(AnyValue \cup {Script}) /\ Height(v) \in Nat /\ Height(v) = Len(v.stack)
  BY MachineFields DEF Height
<1>2. /\ s \in Seq(AnyValue \cup {Script}) /\ Len(s) = Height(v) - n
      /\ \A k \in 1 .. Len(s) : s[k] = v.stack[k]
  BY <1>1
<1>3. Popped(v, n) = [v EXCEPT !.stack = s]
  BY DEF Popped, MachineType
<1> HIDE DEF s
<1>4. [v EXCEPT !.stack = s] \in MachineType
  BY <1>2, WithStack
<1>5. [v EXCEPT !.stack = s].stack = s
  BY DEF MachineType
<1> QED BY <1>2, <1>3, <1>4, <1>5 DEF SameBelow, MachineType, Height

\* Put: one value is another.
LEMMA PutIs ==
  ASSUME NEW v \in MachineType, NEW d \in 0 .. Height(v) - 1, NEW x \in AnyValue \cup {Script}
  PROVE  LET w == Put(v, d, x) IN
         /\ w \in MachineType /\ SameBelow(v, w) /\ w.frames = v.frames
         /\ Height(w) = Height(v)
         /\ \A k \in 1 .. Height(w) : w.stack[k] = IF k = Height(v) - d THEN x ELSE v.stack[k]
<1> DEFINE s == [v.stack EXCEPT ![Height(v) - d] = x]
<1>1. v.stack \in Seq(AnyValue \cup {Script}) /\ Height(v) \in Nat /\ Height(v) = Len(v.stack)
  BY MachineFields DEF Height
<1>2. /\ s \in Seq(AnyValue \cup {Script}) /\ Len(s) = Height(v)
      /\ \A k \in 1 .. Len(s) : s[k] = IF k = Height(v) - d THEN x ELSE v.stack[k]
  BY <1>1
<1>3. Put(v, d, x) = [v EXCEPT !.stack = s]
  BY DEF Put, MachineType
<1> HIDE DEF s
<1>4. [v EXCEPT !.stack = s] \in MachineType
  BY <1>2, WithStack
<1>5. [v EXCEPT !.stack = s].stack = s
  BY DEF MachineType
<1> QED BY <1>2, <1>3, <1>4, <1>5 DEF SameBelow, MachineType, Height

\* Counted: the top frame counts more or less.
LEMMA CountedIs ==
  ASSUME NEW v \in MachineType, NEW change \in Int, v.frames # <<>>
  PROVE  LET w == Counted(v, change) IN
         /\ w \in MachineType /\ SameBelow(v, w) /\ w.stack = v.stack
         /\ Len(w.frames) = Len(v.frames)
         /\ \A k \in 1 .. Len(v.frames) - 1 : w.frames[k] = v.frames[k]
         /\ Frame(w) = [Frame(v) EXCEPT !.counted = @ + change]
<1> DEFINE top == [v.frames[Len(v.frames)] EXCEPT !.counted = @ + change]
           fs == [v.frames EXCEPT ![Len(v.frames)] = top]
<1>1. v.frames \in Seq(FrameType) /\ Len(v.frames) \in 1 .. Len(v.frames)
  BY MachineFields
<1>2. v.frames[Len(v.frames)] \in FrameType
  BY <1>1
<1>3. top \in FrameType
  BY <1>2 DEF FrameType
<1> HIDE DEF top
<1>4. /\ fs \in Seq(FrameType) /\ Len(fs) = Len(v.frames) /\ fs[Len(fs)] = top
      /\ \A k \in 1 .. Len(v.frames) - 1 : fs[k] = v.frames[k]
  BY <1>1, <1>3
<1>5. Counted(v, change) = [v EXCEPT !.frames = fs]
  BY DEF Counted, MachineType, top
<1> HIDE DEF fs
<1>6. [v EXCEPT !.frames = fs] \in MachineType
  BY <1>4, WithFrames
<1>7. [v EXCEPT !.frames = fs].frames = fs
  BY DEF MachineType
<1> QED BY <1>4, <1>5, <1>6, <1>7 DEF SameBelow, MachineType, Frame, Last, top

-----------------------------------------------------------------------------
(* What the invariant says of the frames.                                  *)

\* A frame has a parameter at least, slot 0.
LEMMA ParamsPositive ==
  ASSUME NEW frame \in FrameType
  PROVE  Params(frame) \in Nat \ {0}
BY MemberFields, MachineAssumption DEF Params

\* The frame that runs: the last, above the others, with the values it counts.
LEMMA Current ==
  ASSUME NEW v, NEW owed \in Nat, Fine(v, owed), v.phase = "running"
  PROVE  /\ v \in MachineType /\ v.frames # <<>>
         /\ Len(v.frames) \in 1 .. FramesMax /\ Frame(v) = v.frames[Len(v.frames)]
         /\ Frame(v) \in FrameType /\ Frame(v).slots \in Nat /\ Frame(v).super \in 0 .. MaxClasses
         /\ Frame(v).counted \in Nat /\ Frame(v).counted >= Params(Frame(v)) /\ Params(Frame(v)) \in Nat \ {0}
         /\ Frame(v).slots + Frame(v).counted = Height(v) - owed
         /\ \A k \in 1 .. Len(v.frames) : v.frames[k].slots \in Nat /\ v.frames[k].slots <= Frame(v).slots
<1>1. /\ v \in MachineType /\ v.frames # <<>> /\ HeightsFit(v, owed)
  BY DEF Fine, HeightsFit
<1>2. /\ v.frames \in Seq(FrameType) /\ Len(v.frames) \in Nat /\ DOMAIN v.frames = 1 .. Len(v.frames)
      /\ \A k \in 1 .. Len(v.frames) : v.frames[k] \in FrameType
  BY <1>1, MachineFields
<1>3. Len(v.frames) \in 1 .. FramesMax /\ Len(v.frames) \in 1 .. Len(v.frames)
  BY <1>1, <1>2, MachineAssumption DEF HeightsFit
<1>4. Frame(v) = v.frames[Len(v.frames)] /\ Frame(v) \in FrameType
  BY <1>2, <1>3 DEF Frame, Last
<1>5. /\ Frame(v).slots \in Nat /\ Frame(v).super \in 0 .. MaxClasses /\ Frame(v).counted \in Int
      /\ Params(Frame(v)) \in Nat \ {0}
  BY <1>4, MemberFields, ParamsPositive
<1>6. /\ Frame(v).counted \in Nat /\ Frame(v).counted >= Params(Frame(v))
      /\ Frame(v).slots + Frame(v).counted = Height(v) - owed
  <2>1. /\ Frame(v).counted >= Params(Frame(v))
        /\ Frame(v).slots + Frame(v).counted = Height(v) - owed
    BY <1>1, <1>2, <1>3, <1>4 DEF HeightsFit, End
  <2> QED BY <1>5, <2>1
<1>7. \A k \in 1 .. Len(v.frames) : v.frames[k].slots \in Nat /\ v.frames[k].slots <= Frame(v).slots
  <2> SUFFICES ASSUME NEW k \in 1 .. Len(v.frames)
               PROVE  v.frames[k].slots \in Nat /\ v.frames[k].slots <= Frame(v).slots
    OBVIOUS
  <2>1. v.frames[k].slots \in Nat
    BY <1>2, MemberFields
  <2>2. k < Len(v.frames) => v.frames[k].slots < v.frames[Len(v.frames)].slots
    BY <1>1, <1>2, <1>3 DEF HeightsFit
  <2> QED BY <1>2, <1>4, <1>5, <2>1, <2>2
<1> QED BY <1>1, <1>3, <1>4, <1>5, <1>6, <1>7

\* What is there depends on the classes and the instances alone.
LEMMA ThereSame ==
  ASSUME NEW v, NEW w, w.classes = v.classes, w.instances = v.instances
  PROVE  /\ \A x : There(w, x) <=> There(v, x)
         /\ \A i, m : Understands(w, i, m) <=> Understands(v, i, m)
BY DEF There, Understands

\* A step of the frame that runs on values above its slot 0 keeps the invariant, as
\* long as it counts them.
LEMMA StackStep ==
  ASSUME NEW v, NEW w, NEW owed \in Nat, NEW owes \in Nat, Fine(v, owed), v.phase = "running",
         w \in MachineType, w.phase = "running", w.classes = v.classes, w.instances = v.instances,
         \A n \in Global : w.globals[n] # NONE => There(v, w.globals[n]),
         Len(w.frames) = Len(v.frames),
         \A k \in 1 .. Len(v.frames) - 1 : w.frames[k] = v.frames[k],
         Frame(w).function = Frame(v).function, Frame(w).super = Frame(v).super,
         Frame(w).slots = Frame(v).slots,
         Frame(w).counted \in Nat /\ Frame(w).counted >= Params(Frame(v)),
         Frame(w).slots + Frame(w).counted = Height(w) - owes,
         \/ w.body = NoBody
         \/ w.body = v.body /\ (v.body.super # 0 => Frame(w).counted > Params(Frame(v))),
         \A k \in 1 .. Height(w) : \/ k <= Height(v) /\ w.stack[k] = v.stack[k]
                                   \/ k > Frame(v).slots + 1 /\ There(v, w.stack[k])
  PROVE  Fine(w, owes)
<1>1. /\ v \in MachineType /\ HeightsFit(v, owed) /\ Declares(v) /\ Inherits(v)
      /\ ValuesThere(v) /\ FramesRun(v)
  BY DEF Fine
<1> DEFINE F == Len(v.frames)
<1>2. /\ DOMAIN v.frames = 1 .. F /\ F \in Nat /\ F >= 1 /\ DOMAIN w.frames = 1 .. F
      /\ \A k \in 1 .. F : v.frames[k] \in FrameType /\ w.frames[k] \in FrameType
      /\ Frame(w) = w.frames[F] /\ Frame(v) = v.frames[F] /\ w.frames # <<>>
  <2>1. w.frames # <<>>
    BY <1>1, Current, MachineFields
  <2> QED BY <1>1, <2>1, Current, MachineFields DEF Frame, Last
<1>3. \A k \in 1 .. F : /\ w.frames[k].function = v.frames[k].function
                        /\ w.frames[k].super = v.frames[k].super
                        /\ w.frames[k].slots = v.frames[k].slots
                        /\ Params(w.frames[k]) = Params(v.frames[k])
                        /\ k < F => w.frames[k].counted = v.frames[k].counted
  <2> TAKE k \in 1 .. F
  <2>1. /\ w.frames[k].function = v.frames[k].function /\ w.frames[k].super = v.frames[k].super
        /\ w.frames[k].slots = v.frames[k].slots
        /\ k < F => w.frames[k].counted = v.frames[k].counted
    <3>1. CASE k < F
      BY <1>2, <3>1
    <3>2. CASE k = F
      BY <1>2, <3>2
    <3> QED BY <1>2, <3>1, <3>2
  <2> QED BY <2>1 DEF Params
<1>4. HeightsFit(w, owes)
  <2>1. F <= FramesMax
    BY <1>1 DEF HeightsFit
  <2>2. ASSUME NEW k \in 1 .. F
        PROVE  /\ w.frames[k].slots + w.frames[k].counted = End(w, owes, k)
               /\ w.frames[k].counted >= Params(w.frames[k])
               /\ k < F => w.frames[k].counted > Params(w.frames[k])
    <3>1. /\ v.frames[k].slots + v.frames[k].counted = End(v, owed, k)
          /\ v.frames[k].counted >= Params(v.frames[k])
          /\ k < F => v.frames[k].counted > Params(v.frames[k])
      BY <1>1, <1>2 DEF HeightsFit
    <3>2. CASE k < F
      <4>1. k + 1 \in 1 .. F /\ k # F
        BY <1>2, <3>2
      <4>2. End(w, owes, k) = End(v, owed, k)
        BY <1>3, <4>1 DEF End
      <4>3. w.frames[k].slots = v.frames[k].slots /\ w.frames[k].counted = v.frames[k].counted
            /\ Params(w.frames[k]) = Params(v.frames[k])
        BY <1>3, <3>2
      <4> HIDE DEF F
      <4> QED BY <3>1, <3>2, <4>2, <4>3
    <3>3. CASE k = F
      BY <1>2, <1>3, <3>1, <3>3 DEF End
    <3> QED BY <3>2, <3>3
  <2>3. \A j, k \in 1 .. F : j < k => w.frames[j].slots < w.frames[k].slots
    BY <1>1, <1>2, <1>3 DEF HeightsFit
  <2>4. w.frames[1].slots = 0
    BY <1>1, <1>2, <1>3 DEF HeightsFit
  <2> QED BY <1>2, <2>1, <2>2, <2>3, <2>4 DEF HeightsFit
<1>5. Declares(w)
  <2>1. CASE w.body = NoBody
    BY <1>1, <2>1, MachineFields DEF Declares, NoBody
  <2>2. CASE w.body = v.body /\ (v.body.super # 0 => Frame(w).counted > Params(Frame(v)))
    <3>1. Params(Frame(w)) = Params(Frame(v))
      BY <1>2, <1>3
    <3> QED BY <1>1, <2>2, <3>1 DEF Declares
  <2> QED BY <2>1, <2>2
<1>6. Inherits(w)
  BY <1>1 DEF Inherits
<1>7. /\ Height(v) \in Nat /\ Height(w) \in Nat /\ Frame(v).slots \in Nat
      /\ DOMAIN v.stack = 1 .. Height(v) /\ DOMAIN w.stack = 1 .. Height(w)
  BY <1>1, Current, MachineFields
<1>8. ValuesThere(w)
  <2>1. ASSUME NEW k \in DOMAIN w.stack
        PROVE  IF k = 1 THEN w.stack[k] = Script ELSE There(w, w.stack[k])
    <3>1. k \in DOMAIN v.stack => IF k = 1 THEN v.stack[k] = Script ELSE There(v, v.stack[k])
      BY <1>1 DEF ValuesThere
    <3> QED BY <1>7, <3>1, ThereSame
  <2>2. \A n \in Global : w.globals[n] # NONE => There(w, w.globals[n])
    BY ThereSame
  <2>3. \A i \in DOMAIN w.instances, n \in Name :
          w.instances[i].fields[n] # NONE => There(w, w.instances[i].fields[n])
    BY <1>1, ThereSame DEF ValuesThere
  <2> QED BY <2>1, <2>2, <2>3 DEF ValuesThere
<1>9. FramesRun(w)
  <2> SUFFICES ASSUME NEW k \in 1 .. F
               PROVE  LET frame == w.frames[k]
                          this == w.stack[frame.slots + 1]
                      IN  /\ frame.function = NONE <=> k = 1
                          /\ k > 1 /\ frame.function \notin Plain =>
                               this \in InstanceValues
                               /\ Understands(w, this.instance, Closure(frame.function, frame.super))
    BY <1>2 DEF FramesRun
  <2>1. w.stack[w.frames[k].slots + 1] = v.stack[v.frames[k].slots + 1]
    <3>1. v.frames[k].slots \in Nat /\ v.frames[k].slots <= Frame(v).slots
      BY Current
    <3>2. Frame(v).slots + 1 <= Height(w)
      <4> DEFINE s == Frame(v).slots
                 n == Frame(w).counted
                 h == Height(w)
      <4>1. s \in Nat /\ n \in Nat /\ n >= 1 /\ h \in Nat /\ s + n = h - owes
        <5>1. Params(Frame(v)) \in Nat \ {0}
          BY Current
        <5> QED BY <1>7, <5>1
      <4> HIDE DEF s, n, h
      <4>2. s + 1 <= h
        BY <4>1
      <4> QED BY <4>2 DEF s, h
    <3>3. v.frames[k].slots + 1 \in 1 .. Height(w) /\ ~(v.frames[k].slots + 1 > Frame(v).slots + 1)
      <4> DEFINE a == v.frames[k].slots
                 b == Frame(v).slots
                 h == Height(w)
      <4>1. a \in Nat /\ b \in Nat /\ h \in Nat /\ a <= b /\ b + 1 <= h
        BY <1>7, <3>1, <3>2
      <4> HIDE DEF a, b, h
      <4>2. a + 1 \in 1 .. h /\ ~(a + 1 > b + 1)
        BY <4>1
      <4> QED BY <4>2 DEF a, b, h
    <3> QED BY <1>3, <3>3
  <2> QED BY <1>1, <1>2, <1>3, <2>1, ThereSame DEF FramesRun
<1> QED BY <1>4, <1>5, <1>6, <1>8, <1>9 DEF Fine

-----------------------------------------------------------------------------
(* Errors and calls.                                                       *)

\* What an error leaves.
LEMMA ErrorIs ==
  ASSUME NEW v \in MachineType
  PROVE  LET w == RuntimeError(v) IN
         /\ w \in MachineType /\ w.phase = "failed" /\ w.stack = <<>> /\ w.frames = <<>> /\ w.body = NoBody
         /\ w.classes = v.classes /\ w.instances = v.instances /\ w.globals = v.globals
<1>1. <<>> \in Seq(AnyValue \cup {Script}) /\ <<>> \in Seq(FrameType)
  OBVIOUS
<1>2. NoBody \in [class : 0 .. MaxClasses, super : 0 .. MaxClasses, methods : BOOLEAN]
  BY MachineAssumption DEF NoBody
<1> QED BY <1>1, <1>2 DEF MachineType, RuntimeError, ResetStack

\* An error keeps the invariant, whatever was on the stack.
LEMMA ErrorKeeps ==
  ASSUME NEW v, NEW owed \in Nat, Fine(v, owed), NEW w \in MachineType, SameBelow(v, w)
  PROVE  Fine(RuntimeError(w), 0)
<1> DEFINE e == RuntimeError(w)
<1>1. /\ e \in MachineType /\ e.phase = "failed" /\ e.stack = <<>> /\ e.frames = <<>> /\ e.body = NoBody
      /\ e.classes = v.classes /\ e.instances = v.instances /\ e.globals = v.globals
  BY ErrorIs DEF SameBelow
<1> HIDE DEF e
<1>2. /\ v \in MachineType /\ Declares(v) /\ Inherits(v) /\ ValuesThere(v)
  BY DEF Fine
<1>3. HeightsFit(e, 0)
  BY <1>1, MachineAssumption DEF HeightsFit
<1>4. Declares(e)
  BY <1>1, <1>2, MachineFields DEF Declares, NoBody
<1>5. Inherits(e)
  BY <1>1, <1>2 DEF Inherits
<1>6. ValuesThere(e)
  BY <1>1, <1>2, ThereSame DEF ValuesThere
<1>7. FramesRun(e)
  BY <1>1 DEF FramesRun
<1> QED BY <1>1, <1>3, <1>4, <1>5, <1>6, <1>7 DEF Fine, e

\* The frame that runs has counted one value for a callee and its arguments.
HasCalled(v, argCount) ==
  /\ Fine(v, argCount) /\ v.phase = "running" /\ v.body = NoBody
  /\ argCount \in Nat /\ Frame(v).counted > Params(Frame(v))

\* What a call makes of a machine: the next frame, an answer or an error.
Outcome(v, w) == Fine(w, 0) /\ w.globals = v.globals /\ w.phase \in {"running", "failed"}

\* An error is an outcome.
LEMMA ErrorOutcome ==
  ASSUME NEW v, NEW owed \in Nat, Fine(v, owed)
  PROVE  Outcome(v, RuntimeError(v))
BY ErrorKeeps, ErrorIs DEF Outcome, SameBelow, Fine

\* The callee lies above slot 0 of the frame that calls it, its arguments above it.
LEMMA CalleeAbove ==
  ASSUME NEW v, NEW argCount, HasCalled(v, argCount)
  PROVE  /\ v \in MachineType /\ argCount \in Nat
         /\ Height(v) - argCount \in 1 .. Height(v) /\ Height(v) - argCount > Frame(v).slots + 1
         /\ argCount \in 0 .. Height(v) - 1 /\ Height(v) \in Nat
         /\ There(v, Peek(v, argCount)) /\ Peek(v, argCount) \in AnyValue
<1>1. argCount \in Nat /\ Fine(v, argCount) /\ v \in MachineType
  BY MachineAssumption DEF HasCalled, Fine
<1>2. /\ Height(v) \in Nat /\ Frame(v).slots \in Nat /\ Frame(v).counted \in Int
      /\ Params(Frame(v)) \in Nat \ {0}
      /\ Frame(v).slots + Frame(v).counted = Height(v) - argCount
      /\ Frame(v).counted > Params(Frame(v)) /\ DOMAIN v.stack = 1 .. Height(v)
  <2>1. Frame(v).counted \in Int
    BY <1>1, Current, MemberFields DEF HasCalled
  <2> QED BY <1>1, <2>1, Current, MachineFields DEF HasCalled
<1>3. /\ Height(v) - argCount \in 1 .. Height(v) /\ Height(v) - argCount > Frame(v).slots + 1
      /\ argCount \in 0 .. Height(v) - 1
  BY <1>1, <1>2
<1>4. There(v, v.stack[Height(v) - argCount])
  BY <1>1, <1>2, <1>3 DEF Fine, ValuesThere
<1> QED BY <1>1, <1>2, <1>3, <1>4 DEF Peek, There

\* Call: a new frame begins at the callee, with its parameters counted.
LEMMA CallOutcome ==
  ASSUME NEW v, NEW argCount, HasCalled(v, argCount), NEW closure, closure.function \in Function,
         closure.super \in 0 .. MaxClasses,
         closure.function \notin Plain =>
           LET this == Peek(v, argCount)
           IN  this \in InstanceValues
               /\ Understands(v, this.instance, Closure(closure.function, closure.super))
  PROVE  Outcome(v, Call(v, closure, argCount))
<1>1. /\ argCount \in Nat /\ Fine(v, argCount) /\ v \in MachineType /\ v.phase = "running"
      /\ HeightsFit(v, argCount) /\ Declares(v) /\ Inherits(v) /\ ValuesThere(v) /\ FramesRun(v)
  BY CalleeAbove DEF HasCalled, Fine
<1>2. CASE argCount # Arity[closure.function] \/ Len(v.frames) = FramesMax
  BY <1>1, <1>2, ErrorOutcome DEF Call
<1>3. CASE argCount = Arity[closure.function] /\ Len(v.frames) # FramesMax
  <2> DEFINE new == [function |-> closure.function, super |-> closure.super,
                     slots |-> Height(v) - argCount - 1, counted |-> 1 + Arity[closure.function]]
             fs == Append(v.frames, new)
             w == [v EXCEPT !.frames = fs]
             F == Len(v.frames)
  <2>1. Call(v, closure, argCount) = w
    BY <1>1, <1>3 DEF Call, MachineType
  <2>2. /\ F \in 1 .. FramesMax /\ F + 1 <= FramesMax /\ F \in Nat /\ DOMAIN v.frames = 1 .. F
        /\ v.frames \in Seq(FrameType) /\ Frame(v) = v.frames[F]
        /\ \A k \in 1 .. F : v.frames[k] \in FrameType
        /\ Height(v) \in Nat /\ Frame(v).slots \in Nat /\ Frame(v).counted \in Nat
        /\ Frame(v).counted > 1
        /\ Frame(v).counted > Params(Frame(v))
        /\ Frame(v).slots + Frame(v).counted = Height(v) - argCount
    <3>1. FramesMax \in Nat
      BY MachineAssumption
    <3>2. /\ F \in 1 .. FramesMax /\ v.frames \in Seq(FrameType) /\ Frame(v) = v.frames[F]
          /\ Frame(v).slots \in Nat /\ Frame(v).counted \in Nat /\ Frame(v).counted >= Params(Frame(v))
          /\ Params(Frame(v)) \in Nat \ {0} /\ Frame(v).counted > Params(Frame(v))
          /\ Frame(v).slots + Frame(v).counted = Height(v) - argCount
      BY <1>1, Current, MachineFields DEF HasCalled
    <3>3. /\ Height(v) \in Nat /\ F \in Nat /\ DOMAIN v.frames = 1 .. F
          /\ \A k \in 1 .. F : v.frames[k] \in FrameType
      BY <1>1, MachineFields
    <3>4. F # FramesMax
      BY <1>3
    <3> HIDE DEF F
    <3>5. Frame(v).counted \in Nat /\ Frame(v).counted > 1
      BY <3>1, <3>2
    <3>6. F + 1 <= FramesMax
      BY <3>1, <3>2, <3>4
    <3> QED BY <3>2, <3>3, <3>5, <3>6
  <2>3. /\ new \in FrameType /\ new.function = closure.function /\ new.super = closure.super
        /\ new.slots = Frame(v).slots + Frame(v).counted - 1 /\ new.counted = 1 + argCount
        /\ new.slots = Height(v) - argCount - 1 /\ new.slots \in Nat
        /\ Params(new) = 1 + argCount
    <3>1. /\ new.function = closure.function /\ new.super = closure.super
          /\ new.counted = 1 + argCount /\ new.slots = Height(v) - argCount - 1
      BY <1>3
    <3>2. new.slots = Frame(v).slots + Frame(v).counted - 1 /\ new.slots \in Nat
      <4> DEFINE a == Frame(v).slots
                 b == Frame(v).counted
                 h == Height(v)
      <4>1. a \in Nat /\ b \in Nat /\ h \in Nat /\ argCount \in Nat /\ b > 1 /\ a + b = h - argCount
        BY <1>1, <2>2
      <4> HIDE DEF a, b, h
      <4>2. h - argCount - 1 = a + b - 1 /\ h - argCount - 1 \in Nat
        BY <4>1
      <4> QED BY <3>1, <4>2 DEF a, b, h
    <3>3. new \in FrameType
      BY <1>1, <3>1, <3>2 DEF FrameType
    <3>4. Params(new) = 1 + argCount
      BY <1>3, <3>1, MachineAssumption DEF Params
    <3> QED BY <3>1, <3>2, <3>3, <3>4
  <2> HIDE DEF new
  <2>4. /\ fs \in Seq(FrameType) /\ Len(fs) = F + 1 /\ DOMAIN fs = 1 .. F + 1 /\ fs[F + 1] = new
        /\ \A k \in 1 .. F : fs[k] = v.frames[k]
    BY <2>2, <2>3
  <2> HIDE DEF fs
  <2>5. /\ w \in MachineType /\ w.frames = fs /\ w.stack = v.stack /\ w.phase = "running" /\ w.body = v.body
        /\ w.classes = v.classes /\ w.instances = v.instances /\ w.globals = v.globals
    BY <1>1, <2>4, WithFrames DEF MachineType
  <2> HIDE DEF w, F
  <2>6. HeightsFit(w, 0)
    <3>1. ASSUME NEW k \in 1 .. F + 1
          PROVE  /\ fs[k].slots + fs[k].counted = End(w, 0, k)
                 /\ fs[k].counted >= Params(fs[k])
                 /\ k < F + 1 => fs[k].counted > Params(fs[k])
      <4>1. CASE k = F + 1
        <5>3. new.slots + new.counted = End(w, 0, F + 1)
          <6>1. Height(w) = Height(v) /\ Len(w.frames) = F + 1
            BY <2>4, <2>5 DEF Height
          <6>2. End(w, 0, F + 1) = Height(v) - 0
            BY <6>1 DEF End
          <6>3. new.slots + new.counted = Height(v)
            <7> DEFINE h == Height(v)
            <7>1. /\ h \in Nat /\ argCount \in Nat /\ new.slots = h - argCount - 1
                  /\ new.counted = 1 + argCount
              BY <1>1, <2>2, <2>3
            <7> HIDE DEF h
            <7>2. new.slots + new.counted = h
              BY <7>1
            <7> QED BY <7>2 DEF h
          <6> QED BY <2>2, <6>2, <6>3
        <5>4. new.counted >= Params(new)
          BY <1>1, <2>3 DEF HasCalled
        <5> QED BY <2>2, <2>4, <4>1, <5>3, <5>4
      <4>2. CASE k < F + 1
        <5>0. k \in 1 .. F /\ fs[k] = v.frames[k]
          BY <2>2, <2>4, <4>2
        <5>1. /\ v.frames[k].slots + v.frames[k].counted = End(v, argCount, k)
              /\ v.frames[k].counted >= Params(v.frames[k])
              /\ k < F => v.frames[k].counted > Params(v.frames[k])
          BY <1>1, <2>2, <5>0 DEF HeightsFit, F
        <5>2. End(w, 0, k) = IF k = F THEN new.slots + 1 ELSE End(v, argCount, k)
          <6>1. k = F => End(w, 0, k) = new.slots + 1
            BY <2>2, <2>4, <2>5 DEF End
          <6>2. k # F => End(w, 0, k) = v.frames[k + 1].slots + 1
            BY <2>2, <2>4, <2>5, <5>0 DEF End
          <6> QED BY <6>1, <6>2, <5>0 DEF End, F
        <5>3. k = F => /\ v.frames[k].slots + v.frames[k].counted = new.slots + 1
                       /\ v.frames[k].counted > Params(v.frames[k])
          BY <2>2, <2>3
        <5> QED BY <2>2, <5>0, <5>1, <5>2, <5>3
      <4> QED BY <2>2, <4>1, <4>2
    <3>2. ASSUME NEW j \in 1 .. F + 1, NEW k \in 1 .. F + 1, j < k
          PROVE  fs[j].slots < fs[k].slots
      <4>1. CASE k = F + 1
        <5>1. j \in 1 .. F /\ fs[j] = v.frames[j]
          BY <2>2, <2>4, <3>2, <4>1
        <5>2. v.frames[j].slots \in Nat /\ v.frames[j].slots <= Frame(v).slots
          BY <1>1, <5>1, Current DEF F
        <5>3. v.frames[j].slots < new.slots
          <6> DEFINE a == v.frames[j].slots
                     b == Frame(v).slots
                     n == Frame(v).counted
          <6>1. a \in Nat /\ a <= b /\ b \in Nat /\ n \in Nat /\ n > 1 /\ new.slots = b + n - 1
            BY <2>2, <2>3, <5>2
          <6> HIDE DEF a, b, n
          <6>2. a < new.slots
            BY <6>1
          <6> QED BY <6>2 DEF a
        <5> QED BY <2>4, <4>1, <5>1, <5>3
      <4>2. CASE k # F + 1
        <5>1. j \in 1 .. F /\ k \in 1 .. F
          BY <2>2, <3>2, <4>2
        <5> QED BY <1>1, <2>2, <2>4, <3>2, <5>1 DEF HeightsFit
      <4> QED BY <4>1, <4>2
    <3>3. fs # <<>> /\ fs[1].slots = 0
      BY <1>1, <2>2, <2>4 DEF HeightsFit
    <3> QED BY <2>2, <2>4, <2>5, <3>1, <3>2, <3>3 DEF HeightsFit
  <2>7. Declares(w) /\ Inherits(w)
    <3>1. v.body = NoBody /\ NoBody.class = 0
      BY DEF HasCalled, NoBody
    <3> QED BY <1>1, <2>5, <3>1 DEF Declares, Inherits
  <2>8. ValuesThere(w)
    BY <1>1, <2>5, ThereSame DEF ValuesThere
  <2>9. FramesRun(w)
    <3> SUFFICES ASSUME NEW k \in 1 .. F + 1
                 PROVE  LET frame == fs[k]
                            this == v.stack[frame.slots + 1]
                        IN  /\ frame.function = NONE <=> k = 1
                            /\ k > 1 /\ frame.function \notin Plain =>
                                 this \in InstanceValues
                                 /\ Understands(v, this.instance, Closure(frame.function, frame.super))
      BY <2>4, <2>5, ThereSame DEF FramesRun
    <3>1. CASE k = F + 1
      <4>1. new.slots + 1 = Height(v) - argCount
        BY <1>1, <2>2, <2>3
      <4>2. new.function # NONE /\ k # 1
        BY <2>2, <2>3, <3>1, MachineAssumption
      <4> QED BY <2>3, <2>4, <3>1, <4>1, <4>2 DEF Peek
    <3>2. CASE k # F + 1
      <4>1. k \in 1 .. F /\ fs[k] = v.frames[k]
        BY <2>2, <2>4, <3>2
      <4> QED BY <1>1, <2>2, <4>1 DEF FramesRun
    <3> QED BY <3>1, <3>2
  <2> QED BY <2>1, <2>5, <2>6, <2>7, <2>8, <2>9 DEF Outcome, Fine
<1> QED BY <1>2, <1>3

-----------------------------------------------------------------------------
(* Classes and what they inherit.                                          *)

\* A set of natural numbers that is not empty has a least one.
LEMMA LeastNat ==
  ASSUME NEW T \in SUBSET Nat, T # {}
  PROVE  \E x \in T : \A y \in T : x <= y
<1>1. \E x \in T : \A y \in T : ~ (<<y, x>> \in OpToRel(<, Nat))
  BY WFMin, NatLessThanWellFounded
<1>2. PICK x \in T : \A y \in T : ~ (<<y, x>> \in OpToRel(<, Nat))
  BY <1>1
<1>3. \A y \in T : y \in Nat /\ x \in Nat
  OBVIOUS
<1>4. \A y \in T : ~ (y < x)
  BY <1>2, <1>3 DEF OpToRel
<1> QED BY <1>3, <1>4

\* Superclasses come before the classes that inherit from them.
Supers(classes, c) == \A d \in 1 .. c : classes[d].super \in 0 .. d - 1

\* A class is above itself; with a class its superclass is above, and all that is above it.
LEMMA AboveClosed ==
  ASSUME NEW classes, NEW c \in Nat \ {0}, Supers(classes, c)
  PROVE  /\ c \in Above(classes, c)
         /\ \A d \in Above(classes, c) :
              /\ d \in 1 .. c /\ Above(classes, d) \subseteq Above(classes, c)
              /\ classes[d].super # 0 => classes[d].super \in Above(classes, c)
<1>1. c \in Above(classes, c)
  BY DEF Above
<1>2. ASSUME NEW d \in Above(classes, c), NEW x \in Above(classes, d)
      PROVE  x \in Above(classes, c)
  <2>1. d \in 1 .. c /\ x \in 1 .. d /\ x \in 1 .. c
    BY <1>2 DEF Above
  <2>2. ASSUME NEW S \in SUBSET (1 .. c), c \in S,
               \A e \in S : classes[e].super # 0 => classes[e].super \in S
        PROVE  x \in S
    <3> DEFINE T == S \cap (1 .. d)
    <3>1. d \in T
      BY <1>2, <2>1, <2>2 DEF Above
    <3>2. \A e \in T : classes[e].super # 0 => classes[e].super \in T
      <4> SUFFICES ASSUME NEW e \in T, classes[e].super # 0
                   PROVE  classes[e].super \in S /\ classes[e].super \in 1 .. d
        OBVIOUS
      <4>1. classes[e].super \in S /\ classes[e].super \in 1 .. e - 1
        BY <2>2 DEF Supers
      <4> QED BY <2>1, <4>1
    <3>3. T \in SUBSET (1 .. d)
      OBVIOUS
    <3> HIDE DEF T
    <3>4. x \in T
      BY <3>1, <3>2, <3>3 DEF Above
    <3> QED BY <3>4 DEF T
  <2> QED BY <2>1, <2>2 DEF Above
<1>3. ASSUME NEW d \in Above(classes, c), classes[d].super # 0
      PROVE  classes[d].super \in Above(classes, c)
  <2>1. d \in 1 .. c /\ classes[d].super \in 1 .. c
    BY <1>3 DEF Above, Supers
  <2> QED BY <1>3, <2>1 DEF Above
<1> QED BY <1>1, <1>2, <1>3 DEF Above

\* What is above a class depends on it and those before it.
LEMMA AboveSame ==
  ASSUME NEW before, NEW after, NEW c, \A d \in 1 .. c : after[d].super = before[d].super
  PROVE  Above(after, c) = Above(before, c)
<1>1. \A S \in SUBSET (1 .. c) :
        (\A e \in S : after[e].super # 0 => after[e].super \in S)
        <=> (\A e \in S : before[e].super # 0 => before[e].super \in S)
  OBVIOUS
<1> QED BY <1>1 DEF Above

\* The classes of a machine that inherits as it should.
LEMMA ClassFields ==
  ASSUME NEW v \in MachineType, Inherits(v), NEW c \in DOMAIN v.classes
  PROVE  /\ c \in Nat \ {0} /\ c \in 1 .. MaxClasses /\ Supers(v.classes, c)
         /\ v.classes[c].super # 0 =>
              v.classes[c].super \in DOMAIN v.classes /\ v.classes[c].super \in 1 .. c - 1
         /\ \A n \in Name : /\ v.classes[c].methods[n] \in Methods \cup {NONE}
                            /\ v.classes[c].own[n] \in Methods \cup {NONE}
<1>1. /\ DOMAIN v.classes = 1 .. Len(v.classes) /\ Len(v.classes) \in Nat /\ Len(v.classes) <= MaxClasses
      /\ \A d \in 1 .. Len(v.classes) : v.classes[d] \in ClassType
  BY MachineFields DEF Inherits
<1>2. \A d \in DOMAIN v.classes : v.classes[d].super \in 0 .. d - 1
  <2> TAKE d \in DOMAIN v.classes
  <2>1. v.classes[d].super \in Nat
    BY <1>1, MemberFields
  <2>2. v.classes[d].super < d
    BY MachineAssumption DEF Inherits
  <2> QED BY <1>1, <2>1, <2>2
<1>3. c \in Nat \ {0} /\ c \in 1 .. MaxClasses
  BY <1>1, MachineAssumption
<1>4. Supers(v.classes, c)
  BY <1>1, <1>2, <1>3 DEF Supers
<1>5. v.classes[c].super # 0 => v.classes[c].super \in DOMAIN v.classes /\ v.classes[c].super \in 1 .. c - 1
  BY <1>1, <1>2, <1>3
<1> QED BY <1>1, <1>3, <1>4, <1>5, MemberFields

\* The method a class has in its table is the own method of a class above it.
LEMMA FoundAbove ==
  ASSUME NEW v \in MachineType, Inherits(v), NEW c \in DOMAIN v.classes, NEW n \in Name,
         v.classes[c].methods[n] # NONE
  PROVE  /\ v.classes[c].methods[n] \in Methods
         /\ MethodName[v.classes[c].methods[n].function] = n
         /\ \E d \in Above(v.classes, c) : v.classes[d].own[n] = v.classes[c].methods[n]
<1> DEFINE Found(b) == /\ MethodName[v.classes[b].methods[n].function] = n
                       /\ \E d \in Above(v.classes, b) : v.classes[d].own[n] = v.classes[b].methods[n]
           T == {b \in DOMAIN v.classes : v.classes[b].methods[n] # NONE /\ ~Found(b)}
<1>1. DOMAIN v.classes = 1 .. Len(v.classes) /\ Len(v.classes) \in Nat
  BY MachineFields
<1>2. T = {}
  <2> SUFFICES ASSUME T # {} PROVE FALSE
    OBVIOUS
  <2>1. T \in SUBSET Nat
    BY <1>1
  <2>2. PICK b \in T : \A y \in T : b <= y
    BY <2>1, LeastNat
  <2> DEFINE class == v.classes[b]
  <2>3. b \in DOMAIN v.classes /\ class.methods[n] # NONE /\ ~Found(b)
    OBVIOUS
  <2>4. /\ b \in Nat \ {0} /\ Supers(v.classes, b)
        /\ class.super # 0 => class.super \in DOMAIN v.classes /\ class.super \in 1 .. b - 1
    BY <2>3, ClassFields
  <2>5. /\ class.own[n] # NONE => MethodName[class.own[n].function] = n
        /\ class.methods[n] = IF class.own[n] # NONE THEN class.own[n]
                              ELSE IF class.super = 0 THEN NONE ELSE v.classes[class.super].methods[n]
    BY <2>3 DEF Inherits
  <2>6. CASE class.own[n] # NONE
    <3>1. b \in Above(v.classes, b)
      BY <2>4, AboveClosed
    <3> QED BY <2>3, <2>5, <2>6, <3>1
  <2>7. CASE class.own[n] = NONE
    <3>1. /\ class.super \in DOMAIN v.classes /\ class.super \in 1 .. b - 1
          /\ class.methods[n] = v.classes[class.super].methods[n]
      BY <2>3, <2>4, <2>5, <2>7
    <3>2. class.super \notin T
      <4>1. ~(b <= class.super)
        BY <2>4, <3>1
      <4> QED BY <2>2, <4>1
    <3>3. Found(class.super)
      BY <2>3, <3>1, <3>2
    <3>4. Above(v.classes, class.super) \subseteq Above(v.classes, b)
      <4>1. b \in Above(v.classes, b) /\ class.super # 0
        BY <2>4, <3>1, AboveClosed
      <4> QED BY <2>4, <4>1, AboveClosed
    <3> QED BY <2>3, <3>1, <3>3, <3>4
  <2> QED BY <2>6, <2>7
<1>3. v.classes[c].methods[n] \in Methods
  BY ClassFields
<1> QED BY <1>2, <1>3

\* The class of an instance, and those above it.
LEMMA InstanceClass ==
  ASSUME NEW v \in MachineType, Inherits(v), Declares(v), NEW i \in DOMAIN v.instances
  PROVE  LET c == v.instances[i].class IN
         /\ i \in 1 .. MaxInstances /\ c \in DOMAIN v.classes /\ c # v.body.class /\ c \in Nat \ {0}
         /\ c \in Above(v.classes, c) /\ Above(v.classes, c) \subseteq DOMAIN v.classes
         /\ \A d \in Above(v.classes, c) : v.classes[d].super # 0 =>
              v.classes[d].super \in Above(v.classes, c)
         /\ v.instances[i].fields \in [Name -> AnyValue \cup {NONE}]
<1> DEFINE c == v.instances[i].class
<1>1. c \in DOMAIN v.classes /\ c # v.body.class
  BY DEF Declares
<1>2. c \in Nat \ {0} /\ Supers(v.classes, c)
  BY <1>1, ClassFields
<1>3. c \in Above(v.classes, c)
      /\ \A d \in Above(v.classes, c) : /\ d \in 1 .. c
                                        /\ v.classes[d].super # 0 => v.classes[d].super \in Above(v.classes, c)
  <2> HIDE DEF c
  <2> QED BY <1>2, AboveClosed
<1>4. DOMAIN v.classes = 1 .. Len(v.classes) /\ Len(v.classes) \in Nat
      /\ DOMAIN v.instances = 1 .. Len(v.instances) /\ Len(v.instances) \in Nat
      /\ v.instances[i] \in InstanceType
  BY MachineFields
<1>5. Above(v.classes, c) \subseteq DOMAIN v.classes
  <2> HIDE DEF c
  <2> QED BY <1>1, <1>3, <1>4
<1>6. i \in 1 .. MaxInstances
  BY <1>4, MachineAssumption DEF Inherits
<1> QED BY <1>1, <1>2, <1>3, <1>4, <1>5, <1>6, MemberFields

\* An instance understands every method that a class above its own has in its table.
LEMMA TableUnderstood ==
  ASSUME NEW v \in MachineType, Inherits(v), Declares(v), NEW i \in DOMAIN v.instances,
         NEW d \in Above(v.classes, v.instances[i].class), NEW n \in Name,
         v.classes[d].methods[n] # NONE
  PROVE  v.classes[d].methods[n] \in Methods /\ Understands(v, i, v.classes[d].methods[n])
<1> DEFINE c == v.instances[i].class
           m == v.classes[d].methods[n]
<1>1. /\ c \in DOMAIN v.classes /\ Above(v.classes, c) \subseteq DOMAIN v.classes
  BY InstanceClass
<1>2. c \in Nat \ {0} /\ Supers(v.classes, c) /\ d \in DOMAIN v.classes
  BY <1>1, ClassFields
<1>3. m \in Methods /\ MethodName[m.function] = n /\ \E e \in Above(v.classes, d) : v.classes[e].own[n] = m
  BY <1>2, FoundAbove
<1>4. Above(v.classes, d) \subseteq Above(v.classes, c)
  <2> HIDE DEF c
  <2>1. d \in Above(v.classes, c)
    BY DEF c
  <2> QED BY <1>2, <2>1, AboveClosed
<1> QED BY <1>3, <1>4 DEF Understands

\* A bound method that an instance understands is there.
LEMMA BoundThere ==
  ASSUME NEW v \in MachineType, Inherits(v), Declares(v), NEW i \in DOMAIN v.instances,
         NEW m \in Methods, Understands(v, i, m)
  PROVE  There(v, Bound(i, m)) /\ There(v, Instance(i))
<1>1. i \in 1 .. MaxInstances
  BY InstanceClass
<1>2. Bound(i, m) \in BoundMethods /\ Instance(i) \in InstanceValues
  BY <1>1 DEF BoundMethods, InstanceValues
<1>3. /\ Bound(i, m).receiver = i /\ Bound(i, m).method = m /\ Bound(i, m).type = "bound"
      /\ Instance(i).instance = i /\ Instance(i).type = "instance"
  BY DEF Bound, Instance
<1>4. Bound(i, m) \in AnyValue /\ Instance(i) \in AnyValue
  BY <1>2 DEF AnyValue
<1>5. /\ Bound(i, m) \notin ClassValues /\ Bound(i, m) \notin InstanceValues
      /\ Instance(i) \notin ClassValues /\ Instance(i) \notin BoundMethods
  BY <1>3, ValueFields
<1> HIDE DEF Instance, Bound
<1> QED BY <1>3, <1>4, <1>5 DEF There

-----------------------------------------------------------------------------
(* Calling a value.                                                        *)

\* The callee may be replaced by any value that is there.
LEMMA PutCalled ==
  ASSUME NEW v, NEW argCount, HasCalled(v, argCount), NEW x, There(v, x)
  PROVE  LET w == Put(v, argCount, x) IN
         /\ HasCalled(w, argCount) /\ Peek(w, argCount) = x /\ w.globals = v.globals
         /\ w.classes = v.classes /\ w.instances = v.instances
<1> DEFINE w == Put(v, argCount, x)
<1>1. /\ v \in MachineType /\ argCount \in Nat /\ argCount \in 0 .. Height(v) - 1 /\ Height(v) \in Nat
      /\ Height(v) - argCount \in 1 .. Height(v) /\ Height(v) - argCount > Frame(v).slots + 1
      /\ x \in AnyValue
  BY CalleeAbove DEF There
<1>2. /\ w \in MachineType /\ SameBelow(v, w) /\ w.frames = v.frames /\ Height(w) = Height(v)
      /\ \A k \in 1 .. Height(w) : w.stack[k] = IF k = Height(v) - argCount THEN x ELSE v.stack[k]
  BY <1>1, PutIs
<1> HIDE DEF w
<1>3. Frame(w) = Frame(v)
  BY <1>2 DEF Frame
<1>4. /\ Fine(v, argCount) /\ v.phase = "running" /\ v.body = NoBody /\ Frame(v).counted > Params(Frame(v))
      /\ argCount \in Nat
  BY DEF HasCalled
<1>5. /\ Frame(v).counted \in Nat /\ Frame(v).counted >= Params(Frame(v))
      /\ Frame(v).slots + Frame(v).counted = Height(v) - argCount
  BY <1>1, <1>4, Current
<1>6. \A n \in Global : w.globals[n] # NONE => There(v, w.globals[n])
  BY <1>2, <1>4 DEF SameBelow, Fine, ValuesThere
<1>7. \A k \in 1 .. Height(w) : \/ k <= Height(v) /\ w.stack[k] = v.stack[k]
                                \/ k > Frame(v).slots + 1 /\ There(v, w.stack[k])
  BY <1>1, <1>2
<1>8. Fine(w, argCount)
  BY <1>1, <1>2, <1>3, <1>4, <1>5, <1>6, <1>7, StackStep DEF SameBelow
<1>9. Peek(w, argCount) = x
  BY <1>1, <1>2 DEF Peek
<1> QED BY <1>2, <1>3, <1>4, <1>8, <1>9 DEF HasCalled, SameBelow, w

\* callNative: the answer takes the place of the callee and its arguments.
LEMMA CallNativeOutcome ==
  ASSUME NEW v, NEW argCount, HasCalled(v, argCount)
  PROVE  Outcome(v, CallNative(v, argCount))
<1> DEFINE u == Popped(v, argCount + 1)
           w == Pushed(u, Nil)
<1>1. /\ v \in MachineType /\ argCount \in Nat /\ argCount \in 0 .. Height(v) - 1 /\ Height(v) \in Nat
      /\ Height(v) - argCount > Frame(v).slots + 1 /\ argCount + 1 \in 0 .. Height(v)
  BY CalleeAbove
<1>2. /\ u \in MachineType /\ SameBelow(v, u) /\ u.frames = v.frames /\ Height(u) = Height(v) - (argCount + 1)
      /\ \A k \in 1 .. Height(u) : u.stack[k] = v.stack[k]
  BY <1>1, PoppedIs
<1> HIDE DEF u
<1>3. Nil \in AnyValue /\ There(v, Nil)
  <2>1. Nil \in PlainValues /\ Nil \in AnyValue /\ Nil.type = "nil"
    BY DEF PlainValues, AnyValue, Nil
  <2>2. Nil \notin ClassValues /\ Nil \notin InstanceValues /\ Nil \notin BoundMethods
    BY <2>1, ValueFields
  <2> QED BY <2>1, <2>2 DEF There
<1>4. /\ w \in MachineType /\ SameBelow(u, w) /\ w.frames = u.frames /\ Height(w) = Height(u) + 1
      /\ w.stack[Height(w)] = Nil /\ \A k \in 1 .. Height(u) : w.stack[k] = u.stack[k]
  BY <1>2, <1>3, PushedIs
<1> HIDE DEF w
<1>5. /\ Fine(v, argCount) /\ v.phase = "running" /\ v.body = NoBody /\ Frame(v).counted > Params(Frame(v))
      /\ Frame(w) = Frame(v)
  BY <1>2, <1>4 DEF HasCalled, Frame
<1>6. /\ Frame(v).counted \in Nat /\ Frame(v).counted >= Params(Frame(v)) /\ Frame(v).slots \in Nat
      /\ Frame(v).slots + Frame(v).counted = Height(v) - argCount
  BY <1>1, <1>5, Current
<1>7. \A n \in Global : w.globals[n] # NONE => There(v, w.globals[n])
  BY <1>2, <1>4, <1>5 DEF SameBelow, Fine, ValuesThere
<1>8. Height(w) = Height(v) - argCount /\ Height(w) \in Nat
  BY <1>1, <1>2, <1>4
<1>9. \A k \in 1 .. Height(w) : \/ k <= Height(v) /\ w.stack[k] = v.stack[k]
                                \/ k > Frame(v).slots + 1 /\ There(v, w.stack[k])
  BY <1>1, <1>2, <1>3, <1>4, <1>8
<1>10. /\ w.phase = "running" /\ w.classes = v.classes /\ w.instances = v.instances /\ w.body = NoBody
       /\ w.frames = v.frames
  BY <1>2, <1>4, <1>5 DEF SameBelow
<1>11. Frame(w).slots + Frame(w).counted = Height(w) - 0
  BY <1>5, <1>6, <1>8
<1>12. Fine(w, 0)
  BY <1>1, <1>4, <1>5, <1>6, <1>7, <1>9, <1>10, <1>11, StackStep
<1> QED BY <1>2, <1>4, <1>5, <1>12 DEF Outcome, SameBelow, CallNative, w, u

\* CallBound: the receiver takes the place of the bound method, and the method runs.
LEMMA CallBoundOutcome ==
  ASSUME NEW v, NEW argCount, HasCalled(v, argCount), NEW bound \in BoundMethods, There(v, bound)
  PROVE  Outcome(v, CallBound(v, bound, argCount))
<1> DEFINE i == bound.receiver
           m == bound.method
           w == Put(v, argCount, Instance(i))
<1>1. /\ v \in MachineType /\ Inherits(v) /\ Declares(v)
  BY DEF HasCalled, Fine
<1>2. m \in Methods /\ i \in DOMAIN v.instances /\ Understands(v, i, m)
  BY ValueFields DEF There
<1>3. There(v, Instance(i)) /\ Instance(i) \in InstanceValues /\ Instance(i).instance = i
  <2>1. i \in 1 .. MaxInstances
    BY ValueFields
  <2> QED BY <1>1, <1>2, <2>1, BoundThere DEF InstanceValues, Instance
<1>4. /\ HasCalled(w, argCount) /\ Peek(w, argCount) = Instance(i) /\ w.globals = v.globals
      /\ w.classes = v.classes /\ w.instances = v.instances
  BY <1>3, PutCalled
<1>5. /\ m.function \in Function /\ m.super \in 0 .. MaxClasses /\ m = Closure(m.function, m.super)
  BY <1>2, MethodFields
<1>6. Understands(w, i, m)
  <2> HIDE DEF w, i, m
  <2> QED BY <1>2, <1>4, ThereSame
<1>7. Outcome(w, Call(w, m, argCount))
  <2> HIDE DEF w, i, m
  <2> QED BY <1>3, <1>4, <1>5, <1>6, CallOutcome
<1> QED BY <1>4, <1>7 DEF Outcome, CallBound

\* The least of the instances that are free: one that is there and nothing refers to, or
\* the next after those that are there.
LEMMA LeastFree ==
  ASSUME NEW v \in MachineType, Free(v) # {}
  PROVE  LET i == CHOOSE i \in Free(v) : \A j \in Free(v) : i <= j IN
         /\ i \in 1 .. MaxInstances /\ i <= Len(v.instances) + 1
         /\ i <= Len(v.instances) => \A x \in Values(v) : ~Refers(x, i)
<1> DEFINE i == CHOOSE i \in Free(v) : \A j \in Free(v) : i <= j
<1>1. Free(v) \in SUBSET Nat /\ Free(v) \subseteq 1 .. MaxInstances /\ MaxInstances \in Nat
  BY MachineAssumption DEF Free
<1>2. \E x \in Free(v) : \A y \in Free(v) : x <= y
  BY <1>1, LeastNat
<1>3. i \in Free(v) /\ \A j \in Free(v) : i <= j
  BY <1>2
<1> HIDE DEF i
<1>4. Len(v.instances) \in Nat
  BY MachineFields
<1>5. i <= Len(v.instances) + 1
  <2> SUFFICES ASSUME i > Len(v.instances) + 1 PROVE FALSE
    BY <1>1, <1>3, <1>4
  <2>1. Len(v.instances) + 1 \in 1 .. MaxInstances /\ Len(v.instances) + 1 > Len(v.instances)
    BY <1>1, <1>3, <1>4
  <2>2. Len(v.instances) + 1 \in Free(v)
    BY <2>1 DEF Free
  <2> QED BY <1>1, <1>3, <1>4, <2>2
<1>6. i <= Len(v.instances) => \A x \in Values(v) : ~Refers(x, i)
  BY <1>1, <1>3, <1>4 DEF Free
<1> QED BY <1>1, <1>3, <1>5, <1>6 DEF i

\* Making an instance: nothing that was there is an other thing now.
LEMMA NewInstanceCalled ==
  ASSUME NEW v, NEW argCount, HasCalled(v, argCount), NEW c \in DOMAIN v.classes,
         NEW i \in 1 .. MaxInstances, i <= Len(v.instances) + 1,
         i <= Len(v.instances) => \A x \in Values(v) : ~Refers(x, i)
  PROVE  LET w == NewInstance(v, c, i) IN
         /\ HasCalled(w, argCount) /\ w.globals = v.globals /\ w.classes = v.classes
         /\ i \in DOMAIN w.instances /\ w.instances[i].class = c
<1> DEFINE new == [class |-> c, fields |-> Empty]
           is == IF i > Len(v.instances) THEN Append(v.instances, new) ELSE [v.instances EXCEPT ![i] = new]
           w == [v EXCEPT !.instances = is]
           N == Len(v.instances)
<1>1. /\ v \in MachineType /\ HeightsFit(v, argCount) /\ Declares(v) /\ Inherits(v) /\ ValuesThere(v)
      /\ FramesRun(v) /\ v.phase = "running" /\ v.body = NoBody
  BY DEF HasCalled, Fine
<1>2. NewInstance(v, c, i) = w
  BY <1>1 DEF NewInstance, MachineType
<1>3. /\ v.instances \in Seq(InstanceType) /\ N \in Nat /\ DOMAIN v.instances = 1 .. N
      /\ c \in 1 .. MaxClasses /\ i \in Nat \ {0} /\ N <= MaxInstances /\ MaxInstances \in Nat
  BY <1>1, MachineFields, ClassFields, MachineAssumption DEF Inherits
<1>4. new \in InstanceType /\ new.class = c /\ new.fields = Empty
  BY <1>3 DEF InstanceType, Empty
<1> HIDE DEF new
<1>5. /\ is \in Seq(InstanceType) /\ Len(is) \in Nat /\ Len(is) <= MaxInstances
      /\ DOMAIN is = 1 .. Len(is) /\ i \in 1 .. Len(is) /\ is[i] = new
      /\ \A j \in 1 .. N : j \in 1 .. Len(is) /\ (j # i => is[j] = v.instances[j])
      /\ \A j \in 1 .. Len(is) : j = i \/ j \in 1 .. N
  <2>1. CASE i > N
    BY <1>3, <1>4, <2>1
  <2>2. CASE ~(i > N)
    <3>1. is = [v.instances EXCEPT ![i] = new] /\ i \in 1 .. N
      BY <1>3, <2>2
    <3> HIDE DEF is
    <3>2. is \in Seq(InstanceType) /\ Len(is) = N
      BY <1>3, <1>4, <3>1
    <3> QED BY <1>3, <3>1, <3>2
  <2> QED BY <2>1, <2>2
<1> HIDE DEF is
<1>6. /\ w \in MachineType /\ w.instances = is /\ w.stack = v.stack /\ w.frames = v.frames
      /\ w.phase = v.phase /\ w.classes = v.classes /\ w.globals = v.globals /\ w.body = v.body
  BY <1>1, <1>5 DEF MachineType
<1> HIDE DEF w
<1>7. ASSUME NEW j \in 1 .. N, j # i, NEW m, Understands(v, j, m)
      PROVE  Understands(w, j, m)
  BY <1>5, <1>6, <1>7 DEF Understands
<1>8. ASSUME NEW x \in Values(v), There(v, x)
      PROVE  There(w, x) /\ (x \in InstanceValues => x.instance # i)
  <2>1. x \in InstanceValues => x.instance \in 1 .. N /\ x.instance # i
    <3>1. x \in InstanceValues => x.instance \in 1 .. N /\ x.type = "instance"
      BY <1>3, <1>8, ValueFields DEF There
    <3> QED BY <1>3, <3>1 DEF Refers
  <2>2. x \in BoundMethods => x.receiver \in 1 .. N /\ x.receiver # i /\ Understands(v, x.receiver, x.method)
    <3>1. x \in BoundMethods => x.receiver \in 1 .. N /\ x.type = "bound" /\ Understands(v, x.receiver, x.method)
      BY <1>3, <1>8, ValueFields DEF There
    <3> QED BY <1>3, <3>1 DEF Refers
  <2>3. x \in BoundMethods => x.receiver \in DOMAIN w.instances /\ Understands(w, x.receiver, x.method)
    BY <1>5, <1>6, <1>7, <2>2
  <2>4. x \in InstanceValues => x.instance \in DOMAIN w.instances
    BY <1>5, <1>6, <2>1
  <2> QED BY <1>6, <1>8, <2>1, <2>3, <2>4 DEF There
<1>9. /\ \A k \in DOMAIN v.stack : v.stack[k] \in Values(v)
      /\ \A n \in Global : v.globals[n] # NONE => v.globals[n] \in Values(v)
      /\ \A j \in DOMAIN v.instances, n \in Name :
           v.instances[j].fields[n] # NONE => v.instances[j].fields[n] \in Values(v)
  <2>1. \A k \in DOMAIN v.stack : v.stack[k] \in Values(v)
    BY DEF Values
  <2>2. ASSUME NEW n \in Global, v.globals[n] # NONE
        PROVE  v.globals[n] \in Values(v)
    <3>1. DOMAIN v.globals = Global
      BY <1>1, MachineFields
    <3>2. v.globals[n] \in ValuesIn(v.globals)
      BY <2>2, <3>1 DEF ValuesIn
    <3> QED BY <3>2 DEF Values
  <2>3. ASSUME NEW j \in DOMAIN v.instances, NEW n \in Name, v.instances[j].fields[n] # NONE
        PROVE  v.instances[j].fields[n] \in Values(v)
    <3>1. DOMAIN v.instances[j].fields = Name
      BY <1>1, InstanceClass
    <3>2. v.instances[j].fields[n] \in ValuesIn(v.instances[j].fields)
      BY <2>3, <3>1 DEF ValuesIn
    <3> QED BY <3>2 DEF Values
  <2> QED BY <2>1, <2>2, <2>3
<1>10. HeightsFit(w, argCount)
  BY <1>1, <1>6 DEF HeightsFit, End, Height
<1>11. Declares(w)
  <2>1. NoBody.class = 0
    BY DEF NoBody
  <2>2. ASSUME NEW j \in DOMAIN is
        PROVE  is[j].class \in DOMAIN v.classes \ {0}
    <3>1. CASE j = i
      BY <1>3, <1>4, <1>5, <3>1
    <3>2. CASE j # i
      BY <1>1, <1>3, <1>5, <2>1, <3>2 DEF Declares
    <3> QED BY <3>1, <3>2
  <2> QED BY <1>1, <1>6, <2>1, <2>2 DEF Declares
<1>12. Inherits(w)
  BY <1>1, <1>5, <1>6 DEF Inherits
<1>13. ValuesThere(w)
  <2>1. \A k \in DOMAIN w.stack : IF k = 1 THEN w.stack[k] = Script ELSE There(w, w.stack[k])
    BY <1>1, <1>6, <1>8, <1>9 DEF ValuesThere
  <2>2. \A n \in Global : w.globals[n] # NONE => There(w, w.globals[n])
    BY <1>1, <1>6, <1>8, <1>9 DEF ValuesThere
  <2>3. ASSUME NEW j \in DOMAIN is, NEW n \in Name, is[j].fields[n] # NONE
        PROVE  There(w, is[j].fields[n])
    <3>1. j # i
      BY <1>4, <1>5, <2>3 DEF Empty
    <3>2. j \in DOMAIN v.instances /\ is[j] = v.instances[j]
      BY <1>3, <1>5, <3>1
    <3>3. There(v, v.instances[j].fields[n]) /\ v.instances[j].fields[n] \in Values(v)
      BY <1>1, <1>9, <2>3, <3>2 DEF ValuesThere
    <3> QED BY <1>8, <3>2, <3>3
  <2> QED BY <1>6, <2>1, <2>2, <2>3 DEF ValuesThere
<1>14. FramesRun(w)
  <2> SUFFICES ASSUME NEW k \in DOMAIN v.frames, k > 1, v.frames[k].function \notin Plain
               PROVE  LET this == v.stack[v.frames[k].slots + 1] IN
                      /\ this \in InstanceValues
                      /\ Understands(w, this.instance, Closure(v.frames[k].function, v.frames[k].super))
    BY <1>1, <1>6 DEF FramesRun
  <2> DEFINE p == v.frames[k].slots + 1
             this == v.stack[p]
  <2>1. /\ this \in InstanceValues
        /\ Understands(v, this.instance, Closure(v.frames[k].function, v.frames[k].super))
    BY <1>1 DEF FramesRun
  <2>2. p \in 2 .. Height(v)
    <3>1. /\ Fine(v, argCount) /\ argCount \in Nat
      BY <1>1, CalleeAbove DEF HasCalled
    <3>2. /\ k \in 1 .. Len(v.frames) /\ Len(v.frames) \in Nat /\ 1 \in DOMAIN v.frames
          /\ DOMAIN v.frames = 1 .. Len(v.frames)
      BY <1>1, MachineFields
    <3>3. /\ v.frames[k].slots \in Nat /\ v.frames[1].slots \in Nat
          /\ v.frames[k].slots <= Frame(v).slots
      BY <1>1, <3>1, <3>2, Current
    <3>4. v.frames[1].slots < v.frames[k].slots
      BY <1>1, <3>2 DEF HeightsFit
    <3>5. Frame(v).slots \in Nat /\ Height(v) - argCount > Frame(v).slots + 1 /\ Height(v) \in Nat
      BY <1>1, <3>1, CalleeAbove, Current
    <3> DEFINE a == v.frames[1].slots
               b == v.frames[k].slots
               d == Frame(v).slots
    <3>6. a \in Nat /\ b \in Nat /\ d \in Nat /\ a < b /\ b <= d /\ Height(v) - argCount > d + 1
      BY <3>3, <3>4, <3>5
    <3> HIDE DEF a, b, d
    <3>7. b + 1 \in 2 .. Height(v)
      BY <3>1, <3>5, <3>6
    <3> QED BY <3>7 DEF b
  <2>3. this \in Values(v) /\ There(v, this)
    <3>1. p \in DOMAIN v.stack /\ p # 1
      BY <1>1, <2>2, MachineFields
    <3> HIDE DEF p
    <3> QED BY <1>1, <1>9, <3>1 DEF ValuesThere
  <2>4. this.instance # i /\ this.instance \in 1 .. N
    BY <1>3, <1>8, <2>1, <2>3 DEF There
  <2> HIDE DEF this, p
  <2>5. Understands(w, this.instance, Closure(v.frames[k].function, v.frames[k].super))
    BY <1>7, <2>1, <2>4
  <2> QED BY <2>1, <2>5 DEF this, p
<1>15. Fine(w, argCount) /\ Frame(w) = Frame(v)
  BY <1>6, <1>10, <1>11, <1>12, <1>13, <1>14 DEF Fine, Frame
<1> QED BY <1>1, <1>2, <1>4, <1>5, <1>6, <1>15 DEF HasCalled

\* CallClass: an instance takes the place of the class, and its initializer runs if there is one.
LEMMA CallClassOutcome ==
  ASSUME NEW v, NEW argCount, HasCalled(v, argCount), NEW c \in DOMAIN v.classes, Free(v) # {}
  PROVE  Outcome(v, CallClass(v, c, argCount))
<1> DEFINE i == CHOOSE i \in Free(v) : \A j \in Free(v) : i <= j
           u == NewInstance(v, c, i)
           made == Put(u, argCount, Instance(i))
           initializer == v.classes[c].methods[InitString]
<1>1. v \in MachineType /\ Inherits(v)
  BY DEF HasCalled, Fine
<1>2. /\ i \in 1 .. MaxInstances /\ i <= Len(v.instances) + 1
      /\ i <= Len(v.instances) => \A x \in Values(v) : ~Refers(x, i)
  BY <1>1, LeastFree
<1>3. CallClass(v, c, argCount)
        = CASE initializer # NONE -> Call(made, initializer, argCount)
            [] initializer = NONE /\ argCount # 0 -> RuntimeError(made)
            [] OTHER -> made
  BY DEF CallClass
<1> HIDE DEF i
<1>4. /\ HasCalled(u, argCount) /\ u.globals = v.globals /\ u.classes = v.classes
      /\ i \in DOMAIN u.instances /\ u.instances[i].class = c
  BY <1>2, NewInstanceCalled
<1> HIDE DEF u
<1>5. There(u, Instance(i)) /\ Instance(i) \in InstanceValues /\ Instance(i).instance = i
  <2>1. Instance(i) \in InstanceValues /\ Instance(i).instance = i /\ Instance(i).type = "instance"
    BY <1>2 DEF InstanceValues, Instance
  <2>2. Instance(i) \notin ClassValues /\ Instance(i) \notin BoundMethods /\ Instance(i) \in AnyValue
    BY <2>1, ValueFields DEF AnyValue
  <2> HIDE DEF Instance
  <2> QED BY <1>4, <2>1, <2>2 DEF There
<1>6. /\ HasCalled(made, argCount) /\ Peek(made, argCount) = Instance(i) /\ made.globals = v.globals
      /\ made.classes = u.classes /\ made.instances = u.instances
  BY <1>4, <1>5, PutCalled
<1> HIDE DEF made
<1>7. made \in MachineType /\ Inherits(made) /\ Declares(made) /\ Fine(made, argCount) /\ argCount \in Nat
  BY <1>6, CalleeAbove DEF HasCalled, Fine
<1>8. CASE initializer # NONE
  <2>1. c \in Above(made.classes, made.instances[i].class)
    BY <1>4, <1>6, <1>7, InstanceClass
  <2>2. initializer \in Methods /\ Understands(made, i, initializer)
    <3>1. made.classes[c].methods[InitString] = initializer /\ i \in DOMAIN made.instances
      BY <1>4, <1>6
    <3> HIDE DEF initializer
    <3> QED BY <1>7, <1>8, <2>1, <3>1, TableUnderstood, MachineAssumption
  <2> HIDE DEF initializer
  <2>3. /\ initializer.function \in Function /\ initializer.super \in 0 .. MaxClasses
        /\ initializer = Closure(initializer.function, initializer.super)
    BY <2>2, MethodFields
  <2>4. Outcome(made, Call(made, initializer, argCount))
    BY <1>5, <1>6, <2>2, <2>3, CallOutcome
  <2> QED BY <1>3, <1>6, <1>8, <2>4 DEF Outcome
<1>9. CASE initializer = NONE /\ argCount # 0
  <2>1. Outcome(made, RuntimeError(made))
    BY <1>7, ErrorOutcome
  <2> HIDE DEF initializer
  <2> QED BY <1>3, <1>6, <1>9, <2>1 DEF Outcome
<1>10. CASE initializer = NONE /\ argCount = 0
  <2> HIDE DEF initializer
  <2> QED BY <1>3, <1>6, <1>7, <1>10 DEF Outcome, HasCalled
<1> QED BY <1>8, <1>9, <1>10

\* CallValue: whatever is called.
LEMMA CallValueOutcome ==
  ASSUME NEW v, NEW argCount, HasCalled(v, argCount), NEW callee, There(v, callee),
         callee.type = "class" => Free(v) # {}
  PROVE  Outcome(v, CallValue(v, callee, argCount))
<1>1. callee \in AnyValue
  BY DEF There
<1>2. CASE callee.type = "bound"
  <2>1. callee \in BoundMethods
    BY <1>1, <1>2, Kinds
  <2> QED BY <1>2, <2>1, CallBoundOutcome DEF CallValue
<1>3. CASE callee.type = "closure"
  <2>1. callee \in PlainValues
    BY <1>1, <1>3, Kinds
  <2>2. callee.function \in Function /\ callee.function \in Plain /\ callee.super = 0
    BY <1>3, <2>1, ValueFields DEF Plain
  <2>3. Outcome(v, Call(v, callee, argCount))
    BY <2>2, CallOutcome, MachineAssumption
  <2> QED BY <1>3, <2>3 DEF CallValue
<1>4. CASE callee.type = "class"
  <2>1. callee \in ClassValues
    BY <1>1, <1>4, Kinds
  <2>2. callee.class \in DOMAIN v.classes
    BY <2>1 DEF There
  <2> QED BY <1>4, <2>2, CallClassOutcome DEF CallValue
<1>5. CASE callee.type = "native"
  BY <1>5, CallNativeOutcome DEF CallValue
<1>6. CASE callee.type \notin {"bound", "closure", "class", "native"}
  <2>1. Outcome(v, RuntimeError(v))
    BY CalleeAbove, ErrorOutcome DEF HasCalled
  <2> QED BY <1>6, <2>1 DEF CallValue
<1> QED BY <1>2, <1>3, <1>4, <1>5, <1>6

\* InvokeFromClass: a method of a class above the receiver's runs, or there is none.
LEMMA InvokeFromClassOutcome ==
  ASSUME NEW v, NEW argCount, HasCalled(v, argCount), NEW n \in Name,
         NEW i \in DOMAIN v.instances, Peek(v, argCount) = Instance(i),
         NEW d \in Above(v.classes, v.instances[i].class)
  PROVE  Outcome(v, InvokeFromClass(v, d, n, argCount))
<1> DEFINE method == v.classes[d].methods[n]
<1>1. v \in MachineType /\ Inherits(v) /\ Declares(v) /\ Fine(v, argCount) /\ argCount \in Nat
  BY CalleeAbove DEF HasCalled, Fine
<1>2. CASE method = NONE
  BY <1>1, <1>2, ErrorOutcome DEF InvokeFromClass
<1>3. CASE method # NONE
  <2>1. method \in Methods /\ Understands(v, i, method)
    BY <1>1, <1>3, TableUnderstood
  <2>2. Instance(i) \in InstanceValues /\ Instance(i).instance = i
    <3>1. i \in 1 .. MaxInstances
      BY <1>1, InstanceClass
    <3> QED BY <3>1 DEF InstanceValues, Instance
  <2>3. InvokeFromClass(v, d, n, argCount) = Call(v, method, argCount)
    BY <1>3 DEF InvokeFromClass
  <2> HIDE DEF method
  <2>4. /\ method.function \in Function /\ method.super \in 0 .. MaxClasses
        /\ method = Closure(method.function, method.super)
    BY <2>1, MethodFields
  <2> QED BY <2>1, <2>2, <2>3, <2>4, CallOutcome
<1> QED BY <1>2, <1>3

\* Invoke: a field that is called, a method that runs, or an error.
LEMMA InvokeOutcome ==
  ASSUME NEW v, NEW argCount, HasCalled(v, argCount), NEW n \in Name,
         LET receiver == Peek(v, argCount)
             field == v.instances[receiver.instance].fields[n]
         IN  receiver.type = "instance" /\ field # NONE /\ field.type = "class" => Free(v) # {}
  PROVE  Outcome(v, Invoke(v, n, argCount))
<1> DEFINE receiver == Peek(v, argCount)
           object == v.instances[receiver.instance]
           field == object.fields[n]
<1>1. /\ v \in MachineType /\ Inherits(v) /\ Declares(v) /\ ValuesThere(v) /\ Fine(v, argCount)
      /\ argCount \in Nat /\ There(v, receiver) /\ receiver \in AnyValue
  BY CalleeAbove DEF HasCalled, Fine
<1>2. CASE receiver.type # "instance"
  BY <1>1, <1>2, ErrorOutcome DEF Invoke
<1>3. CASE receiver.type = "instance"
  <2>1. receiver \in InstanceValues /\ receiver = Instance(receiver.instance)
        /\ receiver.instance \in DOMAIN v.instances
    BY <1>1, <1>3, Kinds, ValueFields DEF There
  <2>2. CASE field # NONE
    <3> DEFINE w == Put(v, argCount, field)
    <3>1. There(v, field)
      BY <1>1, <2>1, <2>2 DEF ValuesThere
    <3>2. /\ HasCalled(w, argCount) /\ w.globals = v.globals
          /\ w.classes = v.classes /\ w.instances = v.instances
      BY <3>1, PutCalled
    <3>3. field.type = "class" => Free(w) # {}
      <4>1. Values(w) \subseteq Values(v)
        <5>1. \A k \in DOMAIN w.stack : w.stack[k] \in Values(v)
          <6>1. /\ argCount \in 0 .. Height(v) - 1 /\ field \in AnyValue /\ Height(v) \in Nat
            BY <3>1, CalleeAbove DEF There
          <6>2. /\ Height(w) = Height(v) /\ w \in MachineType
                /\ \A k \in 1 .. Height(w) :
                     w.stack[k] = IF k = Height(v) - argCount THEN field ELSE v.stack[k]
            BY <1>1, <6>1, PutIs
          <6>3. DOMAIN w.stack = 1 .. Height(v) /\ DOMAIN v.stack = 1 .. Height(v)
            BY <1>1, <6>2, MachineFields
          <6>4. field \in Values(v)
            <7>1. DOMAIN object.fields = Name
              BY <1>1, <2>1, InstanceClass
            <7>2. field \in ValuesIn(object.fields)
              BY <2>2, <7>1 DEF ValuesIn
            <7> QED BY <2>1, <7>2 DEF Values
          <6>5. \A k \in DOMAIN v.stack : v.stack[k] \in Values(v)
            BY DEF Values
          <6> HIDE DEF w, field
          <6> QED BY <6>2, <6>3, <6>4, <6>5
        <5> HIDE DEF w
        <5> QED BY <3>2, <5>1 DEF Values
      <4>2. Free(v) \subseteq Free(w)
        <5> HIDE DEF w
        <5> QED BY <3>2, <4>1 DEF Free
      <4>3. field.type = "class" => Free(v) # {}
        BY <1>3, <2>2
      <4> HIDE DEF w, field
      <4> QED BY <4>2, <4>3
    <3>4. There(w, field)
      <4> HIDE DEF w, field
      <4> QED BY <3>1, <3>2, ThereSame
    <3>5. Invoke(v, n, argCount) = CallValue(w, field, argCount)
      BY <1>3, <2>2 DEF Invoke
    <3>6. Outcome(w, CallValue(w, field, argCount))
      <4> HIDE DEF w, field
      <4> QED BY <3>2, <3>3, <3>4, CallValueOutcome
    <3> QED BY <3>2, <3>5, <3>6 DEF Outcome
  <2>3. CASE field = NONE
    <3>1. Invoke(v, n, argCount) = InvokeFromClass(v, object.class, n, argCount)
      BY <1>3, <2>3 DEF Invoke
    <3>2. object.class \in Above(v.classes, object.class)
      BY <1>1, <2>1, InstanceClass
    <3> QED BY <2>1, <3>1, <3>2, InvokeFromClassOutcome
  <2> QED BY <2>2, <2>3
<1> QED BY <1>2, <1>3

-----------------------------------------------------------------------------
(* Pieces of instructions.                                                 *)

\* Pushing a value that is there, and counting it.
LEMMA PushStep ==
  ASSUME NEW v, Fine(v, 0), v.phase = "running", NEW x, There(v, x)
  PROVE  LET w == Counted(Pushed(v, x), 1) IN
         /\ Fine(w, 0) /\ SameBelow(v, w) /\ Peek(w, 0) = x
         /\ Frame(w).function = Frame(v).function /\ Frame(w).super = Frame(v).super
         /\ Frame(w).slots = Frame(v).slots /\ Frame(w).counted = Frame(v).counted + 1
<1> DEFINE u == Pushed(v, x)
           w == Counted(u, 1)
<1>1. /\ v \in MachineType /\ v.frames # <<>> /\ Frame(v) \in FrameType
      /\ Frame(v).counted \in Nat /\ Frame(v).counted >= Params(Frame(v)) /\ Params(Frame(v)) \in Nat \ {0}
      /\ Frame(v).slots \in Nat /\ Frame(v).slots + Frame(v).counted = Height(v) - 0 /\ x \in AnyValue
      /\ Height(v) \in Nat /\ Len(v.frames) \in Nat
  BY Current, MachineFields, MachineAssumption DEF There
<1>2. /\ u \in MachineType /\ SameBelow(v, u) /\ u.frames = v.frames
      /\ Height(u) = Height(v) + 1 /\ u.stack[Height(u)] = x
      /\ \A k \in 1 .. Height(v) : u.stack[k] = v.stack[k]
  BY <1>1, PushedIs
<1> HIDE DEF u
<1>3. /\ w \in MachineType /\ SameBelow(u, w) /\ w.stack = u.stack /\ Len(w.frames) = Len(u.frames)
      /\ \A k \in 1 .. Len(u.frames) - 1 : w.frames[k] = u.frames[k]
      /\ Frame(w) = [Frame(u) EXCEPT !.counted = @ + 1]
  <2>1. u \in MachineType /\ u.frames # <<>> /\ 1 \in Int
    BY <1>1, <1>2
  <2> QED BY <2>1, CountedIs
<1> HIDE DEF w
<1>4. SameBelow(v, w) /\ Frame(u) = Frame(v) /\ Height(w) = Height(v) + 1
  BY <1>2, <1>3 DEF SameBelow, Frame, Height
<1>5. /\ Frame(w).function = Frame(v).function /\ Frame(w).super = Frame(v).super
      /\ Frame(w).slots = Frame(v).slots /\ Frame(w).counted = Frame(v).counted + 1
  BY <1>1, <1>3, <1>4 DEF FrameType
<1>6. /\ Frame(w).counted \in Nat /\ Frame(w).counted >= Params(Frame(v)) /\ Frame(w).counted > Params(Frame(v))
      /\ Frame(w).slots + Frame(w).counted = Height(w) - 0
  BY <1>1, <1>4, <1>5
<1>7. \A n \in Global : w.globals[n] # NONE => There(v, w.globals[n])
  BY <1>4 DEF SameBelow, Fine, ValuesThere
<1>8. \A k \in 1 .. Height(w) : \/ k <= Height(v) /\ w.stack[k] = v.stack[k]
                                \/ k > Frame(v).slots + 1 /\ There(v, w.stack[k])
  <2> SUFFICES ASSUME NEW k \in 1 .. Height(v) + 1
               PROVE  \/ k <= Height(v) /\ w.stack[k] = v.stack[k]
                      \/ k > Frame(v).slots + 1 /\ There(v, w.stack[k])
    BY <1>4
  <2>1. CASE k \in 1 .. Height(v)
    BY <1>2, <1>3, <2>1
  <2>2. CASE k = Height(v) + 1
    BY <1>1, <1>2, <1>3, <2>2
  <2> QED BY <1>1, <2>1, <2>2
<1>9. /\ w.phase = "running" /\ w.classes = v.classes /\ w.instances = v.instances
      /\ w.body = v.body /\ Len(w.frames) = Len(v.frames)
      /\ \A k \in 1 .. Len(v.frames) - 1 : w.frames[k] = v.frames[k]
  BY <1>2, <1>3, <1>4 DEF SameBelow
<1>10. Fine(w, 0)
  BY <1>1, <1>3, <1>5, <1>6, <1>7, <1>8, <1>9, StackStep
<1>11. Peek(w, 0) = x
  BY <1>1, <1>2, <1>3, <1>4 DEF Peek
<1> QED BY <1>4, <1>5, <1>10, <1>11 DEF w, u

\* Popping values that the frame counts, outside a class declaration or at its end.
LEMMA PopStep ==
  ASSUME NEW v, Fine(v, 0), v.phase = "running", NEW n \in Nat, NEW w,
         Frame(v).counted - n >= Params(Frame(v)),
         LET u == Counted(Popped(v, n), -n) IN
           /\ w \in MachineType /\ w.stack = u.stack /\ w.frames = u.frames /\ w.phase = u.phase
           /\ w.classes = u.classes /\ w.instances = u.instances /\ w.globals = u.globals,
         w.body = NoBody
  PROVE  Fine(w, 0)
<1> DEFINE t == Popped(v, n)
           less == -n
           u == Counted(t, less)
<1>1. /\ v \in MachineType /\ v.frames # <<>> /\ Frame(v) \in FrameType
      /\ Frame(v).counted \in Nat /\ Frame(v).counted >= Params(Frame(v)) /\ Params(Frame(v)) \in Nat \ {0}
      /\ Frame(v).slots \in Nat /\ Frame(v).slots + Frame(v).counted = Height(v) - 0
      /\ Height(v) \in Nat /\ Len(v.frames) \in Nat
  BY Current, MachineFields, MachineAssumption
<1>2. n \in 0 .. Height(v) /\ less \in Int
  BY <1>1
<1>3. /\ t \in MachineType /\ SameBelow(v, t) /\ t.frames = v.frames /\ Height(t) = Height(v) - n
      /\ \A k \in 1 .. Height(t) : t.stack[k] = v.stack[k]
  BY <1>1, <1>2, PoppedIs
<1> HIDE DEF t, less
<1>4. /\ SameBelow(t, u) /\ u.stack = t.stack /\ Len(u.frames) = Len(t.frames)
      /\ \A k \in 1 .. Len(t.frames) - 1 : u.frames[k] = t.frames[k]
      /\ Frame(u) = [Frame(t) EXCEPT !.counted = @ + less]
  BY <1>1, <1>2, <1>3, CountedIs
<1>5. /\ w \in MachineType /\ w.stack = u.stack /\ w.frames = u.frames /\ w.phase = u.phase
      /\ w.classes = u.classes /\ w.instances = u.instances /\ w.globals = u.globals
  BY DEF t, less
<1> HIDE DEF u
<1>6. Frame(t) = Frame(v) /\ Frame(w) = Frame(u) /\ Height(w) = Height(v) - n
  BY <1>3, <1>4, <1>5 DEF Frame, Height
<1>7. /\ Frame(w).function = Frame(v).function /\ Frame(w).super = Frame(v).super
      /\ Frame(w).slots = Frame(v).slots /\ Frame(w).counted = Frame(v).counted + less
  BY <1>1, <1>4, <1>6 DEF FrameType
<1>8. /\ Frame(w).counted \in Nat /\ Frame(w).counted >= Params(Frame(v))
      /\ Frame(w).slots + Frame(w).counted = Height(w) - 0
  BY <1>1, <1>6, <1>7 DEF less
<1>9. \A m \in Global : w.globals[m] # NONE => There(v, w.globals[m])
  BY <1>3, <1>4, <1>5 DEF SameBelow, Fine, ValuesThere
<1>10. \A k \in 1 .. Height(w) : k <= Height(v) /\ w.stack[k] = v.stack[k]
  BY <1>1, <1>2, <1>3, <1>4, <1>5, <1>6
<1>11. /\ w.phase = "running" /\ w.classes = v.classes /\ w.instances = v.instances
       /\ Len(w.frames) = Len(v.frames)
       /\ \A k \in 1 .. Len(v.frames) - 1 : w.frames[k] = v.frames[k]
  BY <1>3, <1>4, <1>5 DEF SameBelow
<1> QED BY <1>5, <1>7, <1>8, <1>9, <1>10, <1>11, StackStep

\* Another value on top in the place of the one that is there.
LEMMA ReplaceStep ==
  ASSUME NEW v, Fine(v, 0), v.phase = "running", v.body = NoBody, NEW x, There(v, x),
         Frame(v).counted > Params(Frame(v))
  PROVE  Outcome(v, Pushed(Popped(v, 1), x))
<1> DEFINE u == Popped(v, 1)
           w == Pushed(u, x)
<1>1. /\ v \in MachineType /\ Frame(v) \in FrameType
      /\ Frame(v).counted \in Nat /\ Frame(v).counted >= Params(Frame(v)) /\ Params(Frame(v)) \in Nat \ {0}
      /\ Frame(v).slots \in Nat /\ Frame(v).slots + Frame(v).counted = Height(v) - 0 /\ x \in AnyValue
      /\ Height(v) \in Nat /\ Len(v.frames) \in Nat
  BY Current, MachineFields, MachineAssumption DEF There
<1>2. 1 \in 0 .. Height(v) /\ Height(v) > Frame(v).slots + 1
  BY <1>1
<1>3. /\ u \in MachineType /\ SameBelow(v, u) /\ u.frames = v.frames /\ Height(u) = Height(v) - 1
      /\ \A k \in 1 .. Height(u) : u.stack[k] = v.stack[k]
  BY <1>1, <1>2, PoppedIs
<1> HIDE DEF u
<1>4. /\ w \in MachineType /\ SameBelow(u, w) /\ w.frames = u.frames
      /\ Height(w) = Height(u) + 1 /\ w.stack[Height(w)] = x
      /\ \A k \in 1 .. Height(u) : w.stack[k] = u.stack[k]
  BY <1>1, <1>3, PushedIs
<1> HIDE DEF w
<1>5. SameBelow(v, w) /\ Frame(w) = Frame(v) /\ Height(w) = Height(v) /\ w.frames = v.frames
  BY <1>1, <1>3, <1>4 DEF SameBelow, Frame
<1>6. \A n \in Global : w.globals[n] # NONE => There(v, w.globals[n])
  BY <1>5 DEF SameBelow, Fine, ValuesThere
<1>7. \A k \in 1 .. Height(w) : \/ k <= Height(v) /\ w.stack[k] = v.stack[k]
                                \/ k > Frame(v).slots + 1 /\ There(v, w.stack[k])
  BY <1>1, <1>2, <1>3, <1>4, <1>5
<1>8. /\ w.phase = "running" /\ w.classes = v.classes /\ w.instances = v.instances /\ w.body = NoBody
  BY <1>5 DEF SameBelow
<1>9. Fine(w, 0)
  BY <1>1, <1>4, <1>5, <1>6, <1>7, <1>8, StackStep
<1> QED BY <1>5, <1>8, <1>9 DEF Outcome, SameBelow, w, u

\* A global gets a value that is there.
LEMMA GlobalStep ==
  ASSUME NEW v, Fine(v, 0), v.phase = "running", NEW x, There(v, x), NEW n \in Global
  PROVE  LET w == [v EXCEPT !.globals[n] = x] IN
         /\ Fine(w, 0) /\ w.phase = "running" /\ w.body = v.body /\ Frame(w) = Frame(v)
         /\ w.stack = v.stack /\ w.frames = v.frames /\ w.classes = v.classes /\ w.instances = v.instances
<1> DEFINE gs == [v.globals EXCEPT ![n] = x]
           w == [v EXCEPT !.globals = gs]
<1>1. /\ v \in MachineType /\ x \in AnyValue /\ v.globals \in [Global -> AnyValue \cup {NONE}]
  BY MachineFields DEF Fine, There
<1>2. gs \in [Global -> AnyValue \cup {NONE}] /\ \A m \in Global : gs[m] = IF m = n THEN x ELSE v.globals[m]
  BY <1>1
<1>3. [v EXCEPT !.globals[n] = x] = w
  BY <1>1 DEF MachineType
<1> HIDE DEF gs
<1>4. /\ w \in MachineType /\ w.globals = gs /\ w.phase = v.phase /\ w.body = v.body
      /\ w.stack = v.stack /\ w.frames = v.frames /\ w.classes = v.classes /\ w.instances = v.instances
  BY <1>1, <1>2 DEF MachineType
<1> HIDE DEF w
<1>5. Frame(w) = Frame(v) /\ Height(w) = Height(v)
  BY <1>4 DEF Frame, Height
<1>6. HeightsFit(w, 0)
  BY <1>4, <1>5 DEF Fine, HeightsFit, End
<1>7. Declares(w) /\ Inherits(w)
  BY <1>4, <1>5 DEF Fine, Declares, Inherits
<1>8. ValuesThere(w)
  BY <1>2, <1>4, ThereSame DEF Fine, ValuesThere
<1>9. FramesRun(w)
  BY <1>4, ThereSame DEF Fine, FramesRun
<1> QED BY <1>3, <1>4, <1>5, <1>6, <1>7, <1>8, <1>9 DEF Fine

\* A field gets a value that is there.
LEMMA FieldStep ==
  ASSUME NEW v, Fine(v, 0), v.phase = "running", NEW x, There(v, x),
         NEW i \in DOMAIN v.instances, NEW n \in Name
  PROVE  LET w == [v EXCEPT !.instances[i].fields[n] = x] IN
         /\ Fine(w, 0) /\ w.phase = "running" /\ w.body = v.body /\ w.globals = v.globals
         /\ w.stack = v.stack /\ w.frames = v.frames
         /\ \A y : There(v, y) => There(w, y)
<1> DEFINE object == v.instances[i]
           new == [object EXCEPT !.fields = [@ EXCEPT ![n] = x]]
           is == [v.instances EXCEPT ![i] = new]
           w == [v EXCEPT !.instances = is]
<1>1. /\ v \in MachineType /\ x \in AnyValue /\ v.instances \in Seq(InstanceType)
      /\ DOMAIN v.instances = 1 .. Len(v.instances) /\ Len(v.instances) \in Nat
      /\ object \in InstanceType
  BY MachineFields DEF Fine, There
<1>2. /\ new \in InstanceType /\ new.class = object.class
      /\ \A m \in Name : new.fields[m] = IF m = n THEN x ELSE object.fields[m]
  BY <1>1 DEF InstanceType
<1>3. [v EXCEPT !.instances[i].fields[n] = x] = w
  BY <1>1 DEF MachineType, InstanceType
<1> HIDE DEF new
<1>4. /\ is \in Seq(InstanceType) /\ Len(is) = Len(v.instances) /\ DOMAIN is = DOMAIN v.instances
      /\ \A j \in DOMAIN v.instances : is[j] = IF j = i THEN new ELSE v.instances[j]
  BY <1>1, <1>2
<1> HIDE DEF is
<1>5. /\ w \in MachineType /\ w.instances = is /\ w.phase = v.phase /\ w.body = v.body
      /\ w.stack = v.stack /\ w.frames = v.frames /\ w.classes = v.classes /\ w.globals = v.globals
  BY <1>1, <1>4 DEF MachineType
<1> HIDE DEF w
<1>6. \A j \in DOMAIN v.instances : w.instances[j].class = v.instances[j].class
  BY <1>2, <1>4, <1>5
<1>7. \A j \in DOMAIN v.instances : \A m : Understands(w, j, m) <=> Understands(v, j, m)
  BY <1>5, <1>6 DEF Understands
<1>8. \A y : There(v, y) => There(w, y)
  BY <1>4, <1>5, <1>7 DEF There
<1>9. Frame(w) = Frame(v) /\ Height(w) = Height(v)
  BY <1>5 DEF Frame, Height
<1>10. HeightsFit(w, 0)
  BY <1>5, <1>9 DEF Fine, HeightsFit, End
<1>11. Declares(w) /\ Inherits(w)
  BY <1>4, <1>5, <1>6, <1>9 DEF Fine, Declares, Inherits
<1>12. ValuesThere(w)
  <2>1. ASSUME NEW j \in DOMAIN is, NEW m \in Name, is[j].fields[m] # NONE
        PROVE  There(w, is[j].fields[m])
    <3>1. is[j].fields[m] = x \/ is[j].fields[m] = v.instances[j].fields[m]
      BY <1>2, <1>4
    <3> QED BY <1>4, <1>8, <2>1, <3>1 DEF Fine, ValuesThere
  <2> QED BY <1>5, <1>8, <2>1 DEF Fine, ValuesThere
<1>13. FramesRun(w)
  <2> SUFFICES ASSUME NEW k \in DOMAIN v.frames, k > 1, v.frames[k].function \notin Plain
               PROVE  LET this == v.stack[v.frames[k].slots + 1] IN
                      /\ this \in InstanceValues
                      /\ Understands(w, this.instance, Closure(v.frames[k].function, v.frames[k].super))
    BY <1>5 DEF Fine, FramesRun
  <2> DEFINE this == v.stack[v.frames[k].slots + 1]
  <2>1. /\ this \in InstanceValues
        /\ Understands(v, this.instance, Closure(v.frames[k].function, v.frames[k].super))
    BY DEF Fine, FramesRun
  <2>2. There(v, this)
    <3>1. v.frames[k].slots + 1 \in DOMAIN v.stack
      <4>1. /\ k \in 1 .. Len(v.frames) /\ Height(v) \in Nat /\ DOMAIN v.stack = 1 .. Height(v)
        BY <1>1, MachineFields
      <4>2. /\ v.frames[k].slots \in Nat /\ v.frames[k].slots <= Frame(v).slots /\ Frame(v).slots \in Nat
            /\ Frame(v).counted \in Nat /\ Frame(v).counted >= Params(Frame(v)) /\ Params(Frame(v)) \in Nat \ {0}
            /\ Frame(v).slots + Frame(v).counted = Height(v) - 0
        BY <4>1, Current
      <4> DEFINE a == v.frames[k].slots
                 b == Frame(v).slots
      <4>3. a \in Nat /\ b \in Nat /\ a <= b /\ b + 1 <= Height(v)
        BY <4>1, <4>2, MachineAssumption
      <4> HIDE DEF a, b
      <4>4. a + 1 \in 1 .. Height(v)
        BY <4>1, <4>3
      <4> QED BY <4>1, <4>4 DEF a
    <3>2. Script \notin InstanceValues
      BY ValueFields DEF Script, Closure
    <3> QED BY <2>1, <3>1, <3>2 DEF Fine, ValuesThere
  <2> HIDE DEF this
  <2>3. Understands(w, this.instance, Closure(v.frames[k].function, v.frames[k].super))
    BY <1>7, <2>1, <2>2 DEF There
  <2> QED BY <2>1, <2>3 DEF this
<1> QED BY <1>3, <1>5, <1>8, <1>10, <1>11, <1>12, <1>13 DEF Fine

-----------------------------------------------------------------------------
(* The instructions.                                                       *)

\* What every instruction does: it keeps the invariant, and if it fails the globals.
Kept(w) == Fine(w, 0) /\ (w.phase = "failed" => w.globals = vm.globals)

\* An outcome is kept.
LEMMA OutcomeKept ==
  ASSUME NEW v, NEW w, Outcome(v, w), v.globals = vm.globals
  PROVE  Kept(w)
BY DEF Outcome, Kept

\* An error is kept.
LEMMA ErrorKept ==
  ASSUME IInv
  PROVE  Kept(RuntimeError(vm))
BY ErrorOutcome, OutcomeKept DEF IInv

\* The frame that runs, between two instructions.
LEMMA HereFacts ==
  ASSUME IInv, vm.phase = "running"
  PROVE  /\ vm \in MachineType /\ Fine(vm, 0) /\ Here \in FrameType
         /\ Inherits(vm) /\ Declares(vm) /\ ValuesThere(vm) /\ FramesRun(vm) /\ HeightsFit(vm, 0)
         /\ Here.slots \in Nat /\ Here.super \in 0 .. MaxClasses /\ Here.counted \in Nat
         /\ Params(Here) \in Nat \ {0} /\ Here.counted >= Params(Here)
         /\ Height(vm) = Here.slots + Here.counted /\ Height(vm) \in Nat
         /\ DOMAIN vm.stack = 1 .. Height(vm)
         /\ \A k \in 2 .. Height(vm) : There(vm, vm.stack[k])
         /\ vm.frames # <<>> /\ Len(vm.frames) \in Nat /\ DOMAIN vm.frames = 1 .. Len(vm.frames)
         /\ Len(vm.frames) \in DOMAIN vm.frames /\ Here = vm.frames[Len(vm.frames)]
<1>1. Fine(vm, 0) /\ vm \in MachineType
  BY DEF IInv, Fine
<1>2. /\ Here \in FrameType /\ Here.slots \in Nat /\ Here.super \in 0 .. MaxClasses
      /\ Here.counted \in Nat /\ Here.counted >= Params(Here) /\ Params(Here) \in Nat \ {0}
      /\ Here.slots + Here.counted = Height(vm) - 0 /\ Len(vm.frames) \in 1 .. FramesMax
      /\ vm.frames # <<>> /\ Here = vm.frames[Len(vm.frames)]
  BY <1>1, Current DEF Here
<1>3. /\ Height(vm) \in Nat /\ DOMAIN vm.stack = 1 .. Height(vm)
      /\ Len(vm.frames) \in Nat /\ DOMAIN vm.frames = 1 .. Len(vm.frames)
  BY <1>1, MachineFields, MachineAssumption
<1>4. \A k \in 2 .. Height(vm) : There(vm, vm.stack[k])
  BY <1>1, <1>3 DEF Fine, ValuesThere
<1>5. Here.counted \in Nat /\ Here.counted >= Params(Here)
  BY <1>2, <1>3
<1>6. Height(vm) = Here.slots + Here.counted
  BY <1>2, <1>3, <1>5
<1> QED BY <1>1, <1>2, <1>3, <1>4, <1>5, <1>6 DEF Fine

\* The values that an instruction takes from the stack are there.
LEMMA TakenThere ==
  ASSUME IInv, NEW n \in Nat, Has(n + 1)
  PROVE  /\ There(vm, Peek(vm, n)) /\ Height(vm) - n \in 2 .. Height(vm)
         /\ Height(vm) - n > Here.slots + 1 /\ vm.phase = "running" /\ vm.body = NoBody
<1>1. vm.phase = "running" /\ vm.body = NoBody /\ Here.counted - (n + 1) >= Params(Here)
  BY DEF Has, Running
<1>2. Height(vm) - n \in 2 .. Height(vm) /\ Height(vm) - n > Here.slots + 1
  BY <1>1, HereFacts
<1> QED BY <1>1, <1>2, HereFacts DEF Peek

\* The machine in which a call begins.
LEMMA AnsweredCalls ==
  ASSUME IInv, NEW n \in Nat, Has(n + 1)
  PROVE  LET w == Answered(vm, n) IN
         /\ HasCalled(w, n) /\ SameBelow(vm, w) /\ w.stack = vm.stack
         /\ \A d : Peek(w, d) = Peek(vm, d)
         /\ w.globals = vm.globals /\ w.classes = vm.classes /\ w.instances = vm.instances
         /\ Free(w) = Free(vm)
<1> DEFINE w == Counted(vm, -n)
<1>1. /\ vm.phase = "running" /\ vm.body = NoBody /\ Here.counted - (n + 1) >= Params(Here)
  BY TakenThere DEF Has
<1>2. vm \in MachineType /\ Fine(vm, 0) /\ vm.frames # <<>> /\ Here = Frame(vm) /\ Here \in FrameType
  BY <1>1, HereFacts DEF Here
<1>3. /\ w \in MachineType /\ SameBelow(vm, w) /\ w.stack = vm.stack /\ Len(w.frames) = Len(vm.frames)
      /\ \A k \in 1 .. Len(vm.frames) - 1 : w.frames[k] = vm.frames[k]
      /\ Frame(w) = [Frame(vm) EXCEPT !.counted = @ + (-n)]
  BY <1>2, CountedIs
<1>4. Answered(vm, n) = w
  BY DEF Answered
<1> HIDE DEF w
<1>5. /\ w.phase = "running" /\ w.body = NoBody /\ w.classes = vm.classes /\ w.instances = vm.instances
      /\ w.globals = vm.globals /\ Height(w) = Height(vm)
  BY <1>1, <1>3 DEF SameBelow, Height
<1>6. /\ Frame(w).function = Here.function /\ Frame(w).super = Here.super
      /\ Frame(w).slots = Here.slots /\ Frame(w).counted = Here.counted - n
  <2>1. Here.counted \in Nat
    BY <1>1, HereFacts
  <2> QED BY <1>2, <1>3, <2>1 DEF FrameType
<1>7. /\ Frame(w).counted \in Nat /\ Frame(w).counted >= Params(Here) /\ Frame(w).counted > Params(Here)
      /\ Frame(w).slots + Frame(w).counted = Height(w) - n
  BY <1>1, <1>5, <1>6, HereFacts
<1>8. \A m \in Global : w.globals[m] # NONE => There(vm, w.globals[m])
  BY <1>1, <1>5, HereFacts DEF ValuesThere
<1>9. \A k \in 1 .. Height(w) : k <= Height(vm) /\ w.stack[k] = vm.stack[k]
  BY <1>1, <1>3, <1>5, HereFacts
<1>10. Fine(w, n)
  BY <1>1, <1>2, <1>3, <1>5, <1>6, <1>7, <1>8, <1>9, StackStep
<1>11. Params(Frame(w)) = Params(Here)
  BY <1>6 DEF Params
<1>12. n \in Nat
  BY <1>1, HereFacts
<1>13. Free(w) = Free(vm)
  <2>1. Values(w) = Values(vm)
    BY <1>3, <1>5 DEF Values
  <2> QED BY <1>5, <2>1 DEF Free
<1> QED BY <1>3, <1>4, <1>5, <1>7, <1>10, <1>11, <1>12, <1>13 DEF HasCalled, Peek, Height

\* In a method slot 0 holds an instance that understands the method, and the classes above
\* the instance's have the frame's superclass among them.
LEMMA ThisThere ==
  ASSUME IInv, vm.phase = "running", InMethod
  PROVE  LET this == vm.stack[Here.slots + 1] IN
         /\ this \in InstanceValues /\ There(vm, this) /\ this.instance \in DOMAIN vm.instances
         /\ this = Instance(this.instance)
         /\ Here.super # 0 => Here.super \in Above(vm.classes, vm.instances[this.instance].class)
<1> DEFINE this == vm.stack[Here.slots + 1]
           m == Closure(Here.function, Here.super)
<1>1. Here.function \in Function /\ Here.function \notin Plain /\ Len(vm.frames) > 1
  <2>1. Here.function \in Function
    BY HereFacts, MemberFields DEF InMethod
  <2>2. Len(vm.frames) # 1
    BY HereFacts DEF FramesRun, InMethod
  <2>3. Len(vm.frames) > 1
    <3>1. Len(vm.frames) \in 1 .. Len(vm.frames) /\ Len(vm.frames) \in Nat
      BY HereFacts
    <3> DEFINE F == Len(vm.frames)
    <3>2. F \in 1 .. F /\ F \in Nat /\ F # 1
      BY <2>2, <3>1
    <3> HIDE DEF F
    <3>3. F > 1
      BY <3>2
    <3> QED BY <3>3 DEF F
  <2>4. Here.function \notin Plain
    BY DEF InMethod, Plain
  <2> QED BY <2>1, <2>3, <2>4
<1>2. this \in InstanceValues /\ Understands(vm, this.instance, m)
  BY <1>1, HereFacts DEF FramesRun
<1>3. There(vm, this)
  <2>1. Here.slots + 1 \in DOMAIN vm.stack
    BY HereFacts
  <2>2. Script \notin InstanceValues
    BY ValueFields DEF Script, Closure
  <2> QED BY <1>2, <2>1, <2>2, HereFacts DEF ValuesThere
<1>4. this.instance \in DOMAIN vm.instances /\ this = Instance(this.instance)
  BY <1>2, <1>3, ValueFields DEF There
<1>5. ASSUME Here.super # 0
      PROVE  Here.super \in Above(vm.classes, vm.instances[this.instance].class)
  <2>0. m.function = Here.function /\ m.super = Here.super /\ m \in Methods /\ m # NONE
        /\ MethodName[m.function] \in Name
    <3>1. m \in Methods
      BY <1>1, HereFacts DEF Methods
    <3> QED BY <3>1, MethodFields DEF Closure
  <2> HIDE DEF this, m
  <2>1. PICK d \in Above(vm.classes, vm.instances[this.instance].class) :
          vm.classes[d].own[MethodName[m.function]] = m
    BY <1>2 DEF Understands
  <2>2. d \in DOMAIN vm.classes
    BY <1>4, HereFacts, InstanceClass
  <2>3. vm.classes[d].super = Here.super
    BY <2>0, <2>1, <2>2, HereFacts DEF Inherits
  <2> QED BY <1>4, <1>5, <2>1, <2>3, HereFacts, InstanceClass
<1> QED BY <1>2, <1>3, <1>4, <1>5

\* A line begins with the script's closure and its frame.
LEMMA InterpretKept == IInv /\ Interpret => Kept(vm')
<1> SUFFICES ASSUME IInv, Interpret PROVE Kept(vm')
  OBVIOUS
<1> DEFINE frame == [function |-> NONE, super |-> 0, slots |-> 0, counted |-> 1]
<1>1. /\ vm \in MachineType /\ vm.phase # "running" /\ vm.stack = <<>> /\ vm.frames = <<>>
      /\ HeightsFit(vm, 0) /\ Declares(vm) /\ Inherits(vm) /\ ValuesThere(vm)
  BY DEF IInv, Fine, HeightsFit, Interpret
<1>2. /\ vm.stack \in Seq(AnyValue \cup {Script}) /\ vm.frames \in Seq(FrameType)
      /\ frame \in FrameType /\ Script \in AnyValue \cup {Script} /\ Len(vm.stack) = 0
  BY <1>1, MachineFields, MachineAssumption DEF FrameType
<1> DEFINE s == Append(vm.stack, Script)
           fs == Append(vm.frames, frame)
<1>3. /\ s \in Seq(AnyValue \cup {Script}) /\ Len(s) = 1 /\ DOMAIN s = 1 .. 1 /\ s[1] = Script
      /\ fs \in Seq(FrameType) /\ Len(fs) = 1 /\ DOMAIN fs = 1 .. 1 /\ fs[1] = frame /\ fs # <<>>
  BY <1>1, <1>2
<1>4. /\ vm' \in MachineType /\ vm'.phase = "running" /\ vm'.stack = s /\ vm'.frames = fs
      /\ vm'.classes = vm.classes /\ vm'.instances = vm.instances /\ vm'.globals = vm.globals
      /\ vm'.body = vm.body
  <2>1. vm' = [vm EXCEPT !.phase = "running", !.stack = s, !.frames = fs]
    BY <1>1, <1>2 DEF Interpret, Script, Height
  <2> HIDE DEF s, fs
  <2> QED BY <1>1, <1>3, <2>1 DEF MachineType
<1> HIDE DEF s, fs
<1>5. HeightsFit(vm', 0)
  <2>1. Params(frame) = 1 /\ FramesMax \in Nat \ {0}
    BY MachineAssumption DEF Params
  <2>2. /\ Len(fs) <= FramesMax /\ vm'.frames[1] = frame /\ DOMAIN vm'.frames = {1} /\ Len(vm'.frames) = 1
        /\ Height(vm') = 1
    BY <1>3, <1>4, <2>1 DEF Height
  <2>3. /\ frame.slots + frame.counted = End(vm', 0, 1)
        /\ frame.counted >= Params(frame) /\ frame.slots = 0
    BY <2>1, <2>2 DEF End
  <2> HIDE DEF frame
  <2>4. ASSUME NEW k \in DOMAIN vm'.frames
        PROVE  /\ vm'.frames[k].slots + vm'.frames[k].counted = End(vm', 0, k)
               /\ vm'.frames[k].counted >= Params(vm'.frames[k])
               /\ ~(k < Len(vm'.frames))
    <3>1. k = 1 /\ vm'.frames[k] = frame
      BY <2>2
    <3> QED BY <2>2, <2>3, <3>1
  <2>5. \A j, k \in DOMAIN vm'.frames : ~(j < k)
    BY <2>2
  <2> QED BY <1>3, <1>4, <2>2, <2>3, <2>4, <2>5 DEF HeightsFit
<1>6. Declares(vm') /\ Inherits(vm')
  BY <1>1, <1>4 DEF Declares, Inherits
<1>7. ValuesThere(vm')
  BY <1>1, <1>3, <1>4, ThereSame DEF ValuesThere
<1>8. FramesRun(vm')
  BY <1>3, <1>4 DEF FramesRun
<1> QED BY <1>4, <1>5, <1>6, <1>7, <1>8 DEF Kept, Fine

\* OP_CLOSURE and the like.
LEMMA MakeClosureKept == IInv /\ MakeClosure => Kept(vm')
<1> SUFFICES ASSUME IInv, MakeClosure PROVE Kept(vm')
  OBVIOUS
<1>1. PICK f \in {f \in Function : MethodName[f] = NONE} : vm' = Counted(Pushed(vm, Closure(f, 0)), 1)
  BY DEF MakeClosure
<1>2. vm.phase = "running"
  BY DEF MakeClosure, Room, Running, Here
<1>3. There(vm, Closure(f, 0))
  <2>1. Closure(f, 0) \in PlainValues /\ Closure(f, 0).type = "closure"
    BY DEF PlainValues, Plain, Closure
  <2>2. Closure(f, 0) \notin ClassValues \cup InstanceValues \cup BoundMethods
    BY <2>1, ValueFields
  <2> QED BY <2>1, <2>2 DEF There, AnyValue
<1> QED BY <1>1, <1>2, <1>3, PushStep DEF IInv, Kept, SameBelow

\* OP_POP.
LEMMA PopKept == IInv /\ Pop => Kept(vm')
<1> SUFFICES ASSUME IInv, Pop PROVE Kept(vm')
  OBVIOUS
<1>1. vm.phase = "running" /\ vm.body = NoBody /\ Here.counted - 1 >= Params(Here)
      /\ vm' = Counted(Popped(vm, 1), -1)
  BY DEF Pop, Has, Running
<1>2. vm \in MachineType /\ 1 \in 0 .. Height(vm) /\ vm.frames # <<>>
  BY <1>1, HereFacts
<1>3. /\ Popped(vm, 1) \in MachineType /\ SameBelow(vm, Popped(vm, 1)) /\ Popped(vm, 1).frames = vm.frames
  BY <1>2, PoppedIs
<1>4. vm' \in MachineType /\ SameBelow(Popped(vm, 1), vm')
  BY <1>1, <1>2, <1>3, CountedIs
<1>5. vm'.body = NoBody /\ vm'.globals = vm.globals
  BY <1>1, <1>3, <1>4 DEF SameBelow
<1>6. Fine(vm', 0)
  BY <1>1, <1>4, <1>5, PopStep DEF IInv, Here
<1> QED BY <1>5, <1>6 DEF Kept

\* OP_GET_LOCAL: slot 0 only in a method.
LEMMA GetLocalKept == IInv /\ GetLocal => Kept(vm')
<1> SUFFICES ASSUME IInv, GetLocal PROVE Kept(vm')
  OBVIOUS
<1>1. vm.phase = "running"
  BY DEF GetLocal, Room, Running, Here
<1>2. PICK slot \in (IF InMethod THEN 0 ELSE 1) .. Here.counted - 1 :
        vm' = Counted(Pushed(vm, vm.stack[Here.slots + slot + 1]), 1)
  BY DEF GetLocal
<1>3. There(vm, vm.stack[Here.slots + slot + 1])
  <2>1. CASE slot = 0
    <3>1. InMethod
      BY <1>2, <2>1
    <3>2. Here.slots + slot + 1 = Here.slots + 1
      BY <1>1, <2>1, HereFacts
    <3> QED BY <1>1, <3>1, <3>2, ThisThere
  <2>2. CASE slot # 0
    <3>1. slot \in 1 .. Here.counted - 1
      BY <1>1, <1>2, <2>2, HereFacts
    <3>2. Here.slots + slot + 1 \in 2 .. Height(vm)
      BY <1>1, <3>1, HereFacts
    <3> QED BY <1>1, <3>2, HereFacts
  <2> QED BY <2>1, <2>2
<1> QED BY <1>1, <1>2, <1>3, PushStep DEF IInv, Kept, SameBelow

\* OP_SET_LOCAL.
LEMMA SetLocalKept == IInv /\ SetLocal => Kept(vm')
<1> SUFFICES ASSUME IInv, SetLocal PROVE Kept(vm')
  OBVIOUS
<1>1. vm.phase = "running" /\ vm.body = NoBody /\ Here.counted - 1 >= Params(Here)
  BY DEF SetLocal, Has, Running
<1>2. PICK slot \in 1 .. Here.counted - 2 : vm' = [vm EXCEPT !.stack[Here.slots + slot + 1] = Peek(vm, 0)]
  BY DEF SetLocal
<1> DEFINE d == Here.counted - slot - 1
<1>3. d \in 0 .. Height(vm) - 1 /\ Height(vm) - d = Here.slots + slot + 1
      /\ Height(vm) - d > Here.slots + 1 /\ d \in Nat
  <2> DEFINE a == Here.slots
             b == Here.counted
             h == Height(vm)
  <2>1. a \in Nat /\ b \in Nat /\ h = a + b /\ slot \in 1 .. b - 2
    BY <1>1, HereFacts
  <2> HIDE DEF a, b, h
  <2>2. /\ b - slot - 1 \in 0 .. h - 1 /\ h - (b - slot - 1) = a + slot + 1
        /\ h - (b - slot - 1) > a + 1 /\ b - slot - 1 \in Nat
    BY <2>1
  <2> QED BY <2>2 DEF a, b, h
<1> HIDE DEF d
<1>4. vm' = Put(vm, d, Peek(vm, 0))
  BY <1>2, <1>3 DEF Put
<1>5. There(vm, Peek(vm, 0)) /\ Peek(vm, 0) \in AnyValue /\ vm \in MachineType
  <2>1. Has(0 + 1)
    BY DEF SetLocal
  <2> QED BY <1>1, <2>1, TakenThere, HereFacts DEF There
<1>6. /\ vm' \in MachineType /\ SameBelow(vm, vm') /\ vm'.frames = vm.frames /\ Height(vm') = Height(vm)
      /\ \A k \in 1 .. Height(vm') : vm'.stack[k] = IF k = Height(vm) - d THEN Peek(vm, 0) ELSE vm.stack[k]
  BY <1>3, <1>4, <1>5, PutIs
<1>7. /\ vm'.phase = "running" /\ vm'.classes = vm.classes /\ vm'.instances = vm.instances
      /\ vm'.body = NoBody /\ vm'.globals = vm.globals /\ Frame(vm') = Frame(vm) /\ Here = Frame(vm)
  BY <1>1, <1>6 DEF SameBelow, Frame, Here
<1>8. \A n \in Global : vm'.globals[n] # NONE => There(vm, vm'.globals[n])
  BY <1>1, <1>7, HereFacts DEF ValuesThere
<1>9. \A k \in 1 .. Height(vm') : \/ k <= Height(vm) /\ vm'.stack[k] = vm.stack[k]
                                  \/ k > Frame(vm).slots + 1 /\ There(vm, vm'.stack[k])
  BY <1>1, <1>3, <1>5, <1>6, <1>7, HereFacts
<1>10. /\ Frame(vm').counted \in Nat /\ Frame(vm').counted >= Params(Frame(vm))
       /\ Frame(vm').slots + Frame(vm').counted = Height(vm') - 0
  BY <1>1, <1>6, <1>7, HereFacts
<1>11. Fine(vm', 0)
  BY <1>1, <1>6, <1>7, <1>8, <1>9, <1>10, HereFacts, StackStep
<1> QED BY <1>7, <1>11 DEF Kept

\* OP_GET_GLOBAL.
LEMMA GetGlobalKept ==
  ASSUME IInv, NEW name \in Global, GetGlobal(name)
  PROVE  Kept(vm')
<1>1. CASE vm.globals[name] = NONE
  BY <1>1, ErrorKept DEF GetGlobal
<1>2. CASE vm.globals[name] # NONE
  <2>1. /\ vm.phase = "running"
        /\ vm' = Counted(Pushed(vm, vm.globals[name]), 1)
    BY <1>2 DEF GetGlobal, Room, Running, Here
  <2>2. There(vm, vm.globals[name])
    BY <1>2 DEF IInv, Fine, ValuesThere
  <2> QED BY <2>1, <2>2, PushStep DEF IInv, Kept, SameBelow
<1> QED BY <1>1, <1>2

\* OP_DEFINE_GLOBAL.
LEMMA DefineGlobalKept ==
  ASSUME IInv, NEW name \in Global, DefineGlobal(name)
  PROVE  Kept(vm')
<1> DEFINE u == [vm EXCEPT !.globals[name] = Peek(vm, 0)]
<1>1. /\ vm.phase = "running" /\ vm.body = NoBody /\ Frame(vm).counted - 1 >= Params(Frame(vm))
      /\ vm' = Counted(Popped(u, 1), -1) /\ Has(0 + 1)
  BY DEF DefineGlobal, Has, Running, Here
<1>2. There(vm, Peek(vm, 0))
  BY <1>1, TakenThere
<1>3. /\ Fine(u, 0) /\ u.phase = "running" /\ u.body = vm.body /\ Frame(u) = Frame(vm)
      /\ u.stack = vm.stack /\ u.frames = vm.frames
  BY <1>1, <1>2, GlobalStep DEF IInv
<1> HIDE DEF u
<1>4. u \in MachineType /\ 1 \in 0 .. Height(u) /\ u.frames # <<>>
  BY <1>1, <1>3, HereFacts DEF Fine, Height, Here
<1>5. Popped(u, 1) \in MachineType /\ SameBelow(u, Popped(u, 1)) /\ Popped(u, 1).frames = u.frames
  BY <1>4, PoppedIs
<1>6. vm' \in MachineType /\ SameBelow(Popped(u, 1), vm')
  BY <1>1, <1>4, <1>5, CountedIs
<1>7. vm'.body = NoBody /\ vm'.phase = "running"
  BY <1>1, <1>3, <1>5, <1>6 DEF SameBelow
<1>8. Fine(vm', 0)
  BY <1>1, <1>3, <1>6, <1>7, PopStep
<1> QED BY <1>7, <1>8 DEF Kept

\* OP_SET_GLOBAL: a name that nobody declared is deleted again.
LEMMA SetGlobalKept ==
  ASSUME IInv, NEW name \in Global, SetGlobal(name)
  PROVE  Kept(vm')
<1> DEFINE u == [vm EXCEPT !.globals[name] = Peek(vm, 0)]
<1>1. vm.phase = "running" /\ Has(0 + 1) /\ vm' = Assigned(vm, name) /\ vm \in MachineType
  BY HereFacts DEF SetGlobal, Has, Running
<1>2. There(vm, Peek(vm, 0))
  BY <1>1, TakenThere
<1>3. CASE vm.globals[name] # NONE
  <2>1. Fine(u, 0) /\ u.phase = "running"
    BY <1>1, <1>2, GlobalStep DEF IInv
  <2>2. vm' = u
    BY <1>1, <1>3 DEF Assigned
  <2> QED BY <2>1, <2>2 DEF Kept
<1>4. CASE vm.globals[name] = NONE
  <2>1. [u EXCEPT !.globals[name] = NONE] = vm
    <3>1. vm.globals \in [Global -> AnyValue \cup {NONE}]
      BY <1>1, MachineFields
    <3>2. [[vm.globals EXCEPT ![name] = Peek(vm, 0)] EXCEPT ![name] = NONE] = vm.globals
      BY <1>4, <3>1
    <3>3. [u EXCEPT !.globals[name] = NONE]
            = [vm EXCEPT !.globals = [[vm.globals EXCEPT ![name] = Peek(vm, 0)] EXCEPT ![name] = NONE]]
      BY <1>1 DEF MachineType
    <3>4. [vm EXCEPT !.globals = vm.globals] = vm
      BY <1>1 DEF MachineType
    <3> QED BY <3>2, <3>3, <3>4
  <2> HIDE DEF u
  <2>2. vm' = RuntimeError(vm)
    BY <1>1, <1>4, <2>1 DEF Assigned, u
  <2> QED BY <2>2, ErrorKept
<1> QED BY <1>3, <1>4

\* bindMethod, of the table of a class above the receiver's.
LEMMA BindMethodOutcome ==
  ASSUME NEW v, Fine(v, 0), v.phase = "running", v.body = NoBody, Frame(v).counted > Params(Frame(v)),
         NEW i \in DOMAIN v.instances, Peek(v, 0) = Instance(i),
         NEW d \in Above(v.classes, v.instances[i].class), NEW n \in Name
  PROVE  Outcome(v, BindMethod(v, d, n))
<1> DEFINE method == v.classes[d].methods[n]
<1>1. v \in MachineType /\ Inherits(v) /\ Declares(v)
  BY DEF Fine
<1>2. CASE method = NONE
  BY <1>2, ErrorOutcome DEF BindMethod
<1>3. CASE method # NONE
  <2>1. method \in Methods /\ Understands(v, i, method)
    BY <1>1, <1>3, TableUnderstood
  <2>2. BindMethod(v, d, n) = Pushed(Popped(v, 1), Bound(i, method))
    BY <1>3 DEF BindMethod, Instance
  <2> HIDE DEF method
  <2>3. There(v, Bound(i, method))
    BY <1>1, <2>1, BoundThere
  <2> QED BY <2>2, <2>3, ReplaceStep
<1> QED BY <1>2, <1>3

\* OP_GET_PROPERTY.
LEMMA PropertyKept ==
  ASSUME IInv, NEW name \in Name, Property(name)
  PROVE  Kept(vm')
<1> DEFINE receiver == Peek(vm, 0)
           object == vm.instances[receiver.instance]
           field == object.fields[name]
<1>1. /\ vm.phase = "running" /\ vm.body = NoBody /\ Frame(vm).counted > Params(Frame(vm))
      /\ Has(0 + 1) /\ vm' = GetProperty(vm, name)
  <2>1. vm.phase = "running" /\ vm.body = NoBody /\ Here.counted - 1 >= Params(Here) /\ Has(0 + 1)
        /\ vm' = GetProperty(vm, name)
    BY DEF Property, Has, Running
  <2>2. Here.counted > Params(Here)
    BY <2>1, HereFacts
  <2> QED BY <2>1, <2>2 DEF Here
<1>2. There(vm, receiver) /\ receiver \in AnyValue /\ vm \in MachineType /\ Inherits(vm) /\ Declares(vm)
      /\ ValuesThere(vm)
  BY <1>1, TakenThere, HereFacts DEF There
<1>3. CASE receiver.type # "instance"
  BY <1>1, <1>3, ErrorKept DEF GetProperty
<1>4. CASE receiver.type = "instance"
  <2>1. receiver \in InstanceValues /\ receiver = Instance(receiver.instance)
        /\ receiver.instance \in DOMAIN vm.instances
    BY <1>2, <1>4, Kinds, ValueFields DEF There
  <2>2. CASE field # NONE
    <3>1. There(vm, field)
      BY <1>2, <2>1, <2>2 DEF ValuesThere
    <3>2. vm' = Pushed(Popped(vm, 1), field)
      BY <1>1, <1>4, <2>2 DEF GetProperty
    <3> HIDE DEF field
    <3> QED BY <1>1, <3>1, <3>2, ReplaceStep, OutcomeKept DEF IInv
  <2>3. CASE field = NONE
    <3>1. vm' = BindMethod(vm, object.class, name)
      BY <1>1, <1>4, <2>3 DEF GetProperty
    <3>2. object.class \in Above(vm.classes, object.class)
      BY <1>2, <2>1, InstanceClass
    <3>3. Outcome(vm, BindMethod(vm, object.class, name))
      BY <1>1, <2>1, <3>2, BindMethodOutcome DEF IInv
    <3> QED BY <3>1, <3>3, OutcomeKept
  <2> QED BY <2>2, <2>3
<1> QED BY <1>3, <1>4

\* OP_GET_SUPER.
LEMMA GetSuperKept ==
  ASSUME IInv, NEW name \in Name, GetSuper(name)
  PROVE  Kept(vm')
<1> DEFINE this == vm.stack[Here.slots + 1]
           w == Counted(Pushed(vm, this), 1)
<1>1. /\ vm.phase = "running" /\ vm.body = NoBody
      /\ InMethod /\ Here.super # 0 /\ vm' = BindMethod(w, Here.super, name)
  BY DEF GetSuper, Room, Running, Here
<1>2. /\ There(vm, this) /\ this.instance \in DOMAIN vm.instances /\ this = Instance(this.instance)
      /\ Here.super \in Above(vm.classes, vm.instances[this.instance].class)
  BY <1>1, ThisThere
<1> HIDE DEF this
<1>3. /\ Fine(w, 0) /\ SameBelow(vm, w) /\ Peek(w, 0) = this
      /\ Frame(w).function = Frame(vm).function /\ Frame(w).counted = Frame(vm).counted + 1
  BY <1>1, <1>2, PushStep DEF IInv
<1> HIDE DEF w
<1>4. Frame(w).counted > Params(Frame(w))
  <2>1. Params(Frame(w)) = Params(Frame(vm))
    BY <1>3 DEF Params
  <2> QED BY <1>1, <1>3, <2>1, HereFacts DEF Here
<1>5. /\ w.phase = "running" /\ w.body = NoBody /\ w.instances = vm.instances /\ w.classes = vm.classes
      /\ w.globals = vm.globals
  BY <1>1, <1>3 DEF SameBelow
<1>6. Outcome(w, BindMethod(w, Here.super, name))
  BY <1>2, <1>3, <1>4, <1>5, BindMethodOutcome
<1> QED BY <1>1, <1>5, <1>6, OutcomeKept

\* OP_SET_PROPERTY.
LEMMA SetPropertyKept ==
  ASSUME IInv, NEW name \in Name, SetProperty(name)
  PROVE  Kept(vm')
<1> DEFINE receiver == Peek(vm, 1)
           value == Peek(vm, 0)
           u == [vm EXCEPT !.instances[receiver.instance].fields[name] = value]
           t == Popped(u, 2)
           s == Pushed(t, value)
<1>1. /\ vm.phase = "running" /\ vm.body = NoBody /\ Here.counted - 2 >= Params(Here)
      /\ Has(1 + 1) /\ Has(0 + 1)
  <2>1. vm.phase = "running" /\ vm.body = NoBody /\ Here.counted - 2 >= Params(Here)
    BY DEF SetProperty, Has, Running
  <2>2. Here.counted - 1 >= Params(Here)
    BY <2>1, HereFacts
  <2> QED BY <2>1, <2>2 DEF Has, Running
<1>2. /\ There(vm, receiver) /\ There(vm, value) /\ receiver \in AnyValue /\ value \in AnyValue
  BY <1>1, TakenThere DEF There
<1>3. CASE receiver.type # "instance"
  BY <1>3, ErrorKept DEF SetProperty
<1>4. CASE receiver.type = "instance"
  <2>1. receiver.instance \in DOMAIN vm.instances
    BY <1>2, <1>4, Kinds DEF There
  <2>2. vm' = Counted(s, -1)
    BY <1>4 DEF SetProperty
  <2>3. /\ Fine(u, 0) /\ u.phase = "running" /\ u.body = vm.body /\ u.globals = vm.globals
        /\ u.stack = vm.stack /\ u.frames = vm.frames
        /\ \A y : There(vm, y) => There(u, y)
    <3> HIDE DEF receiver, value
    <3> QED BY <1>1, <1>2, <2>1, FieldStep DEF IInv
  <2>4. There(u, value)
    <3> HIDE DEF u, value
    <3> QED BY <1>2, <2>3
  <2> HIDE DEF receiver, value, u
  <2>5. /\ u \in MachineType /\ Height(u) = Height(vm) /\ Frame(u) = Here /\ u.frames # <<>>
        /\ Height(u) = Here.slots + Here.counted /\ Here.slots \in Nat /\ Here.counted \in Nat
        /\ Params(Here) \in Nat \ {0}
        /\ Here \in FrameType
    BY <1>1, <2>3, HereFacts DEF Fine, Height, Frame, Here
  <2>6. 2 \in 0 .. Height(u) /\ Height(u) - 1 > Here.slots + 1
    BY <1>1, <2>5
  <2>7. /\ t \in MachineType /\ SameBelow(u, t) /\ t.frames = u.frames /\ Height(t) = Height(u) - 2
        /\ \A k \in 1 .. Height(t) : t.stack[k] = u.stack[k]
    BY <2>5, <2>6, PoppedIs
  <2> HIDE DEF t
  <2>8. /\ s \in MachineType /\ SameBelow(t, s) /\ s.frames = t.frames
        /\ Height(s) = Height(t) + 1 /\ s.stack[Height(s)] = value
        /\ \A k \in 1 .. Height(t) : s.stack[k] = t.stack[k]
    BY <1>2, <2>7, PushedIs
  <2> HIDE DEF s
  <2>9. /\ vm' \in MachineType /\ SameBelow(s, vm') /\ vm'.stack = s.stack /\ Len(vm'.frames) = Len(s.frames)
        /\ \A k \in 1 .. Len(s.frames) - 1 : vm'.frames[k] = s.frames[k]
        /\ Frame(vm') = [Frame(s) EXCEPT !.counted = @ + (-1)]
    <3>1. s.frames # <<>> /\ -1 \in Int
      BY <2>5, <2>7, <2>8
    <3> DEFINE less == -1
    <3>2. vm' = Counted(s, less) /\ less \in Int
      BY <2>2, <3>1
    <3> HIDE DEF less
    <3>3. LET w == Counted(s, less) IN
          /\ w \in MachineType /\ SameBelow(s, w) /\ w.stack = s.stack
          /\ Len(w.frames) = Len(s.frames)
          /\ \A k \in 1 .. Len(s.frames) - 1 : w.frames[k] = s.frames[k]
          /\ Frame(w) = [Frame(s) EXCEPT !.counted = @ + less]
      BY <2>8, <3>1, <3>2, CountedIs
    <3> QED BY <3>2, <3>3 DEF less
  <2>10. /\ vm'.phase = "running" /\ vm'.body = NoBody /\ vm'.globals = vm.globals
         /\ vm'.classes = u.classes /\ vm'.instances = u.instances
         /\ Len(vm'.frames) = Len(u.frames)
         /\ \A k \in 1 .. Len(u.frames) - 1 : vm'.frames[k] = u.frames[k]
         /\ Frame(s) = Here /\ Height(vm') = Height(u) - 1
    BY <1>1, <2>3, <2>5, <2>7, <2>8, <2>9 DEF SameBelow, Frame, Height
  <2>11. /\ Frame(vm').function = Here.function /\ Frame(vm').super = Here.super
         /\ Frame(vm').slots = Here.slots /\ Frame(vm').counted = Here.counted - 1
    BY <2>5, <2>9, <2>10 DEF FrameType
  <2>12. /\ Frame(vm').counted \in Nat /\ Frame(vm').counted >= Params(Here)
         /\ Frame(vm').slots + Frame(vm').counted = Height(vm') - 0
    BY <1>1, <2>5, <2>10, <2>11
  <2>13. \A n \in Global : vm'.globals[n] # NONE => There(u, vm'.globals[n])
    BY <2>3, <2>10 DEF Fine, ValuesThere
  <2>14. \A k \in 1 .. Height(vm') : \/ k <= Height(u) /\ vm'.stack[k] = u.stack[k]
                                     \/ k > Here.slots + 1 /\ There(u, vm'.stack[k])
    <3> SUFFICES ASSUME NEW k \in 1 .. Height(u) - 1
                 PROVE  \/ k <= Height(u) /\ vm'.stack[k] = u.stack[k]
                        \/ k > Here.slots + 1 /\ There(u, vm'.stack[k])
      BY <2>10
    <3>1. CASE k = Height(u) - 1
      BY <2>4, <2>5, <2>6, <2>7, <2>8, <2>9, <3>1
    <3>2. CASE k # Height(u) - 1
      BY <2>5, <2>7, <2>8, <2>9, <3>2
    <3> QED BY <3>1, <3>2
  <2>15. Fine(vm', 0)
    <3>1. /\ Frame(vm').function = Frame(u).function /\ Frame(vm').super = Frame(u).super
          /\ Frame(vm').slots = Frame(u).slots
          /\ Frame(vm').counted \in Nat /\ Frame(vm').counted >= Params(Frame(u))
          /\ Frame(vm').slots + Frame(vm').counted = Height(vm') - 0
      BY <2>5, <2>11, <2>12
    <3>2. \A k \in 1 .. Height(vm') : \/ k <= Height(u) /\ vm'.stack[k] = u.stack[k]
                                      \/ k > Frame(u).slots + 1 /\ There(u, vm'.stack[k])
      BY <2>5, <2>14
    <3>3. /\ Fine(u, 0) /\ u.phase = "running" /\ 0 \in Nat
          /\ vm' \in MachineType /\ vm'.phase = "running" /\ vm'.body = NoBody
          /\ vm'.classes = u.classes /\ vm'.instances = u.instances
      BY <2>3, <2>9, <2>10
    <3>4. /\ Len(vm'.frames) = Len(u.frames)
          /\ \A k \in 1 .. Len(u.frames) - 1 : vm'.frames[k] = u.frames[k]
      BY <2>10
    <3> QED BY <2>13, <3>1, <3>2, <3>3, <3>4, StackStep
  <2> QED BY <2>10, <2>15 DEF Kept
<1> QED BY <1>3, <1>4

\* OP_CALL.
LEMMA CallKept ==
  ASSUME IInv, NEW argCount \in Nat, CallInstruction(argCount)
  PROVE  Kept(vm')
<1> DEFINE w == Answered(vm, argCount)
           callee == Peek(vm, argCount)
<1>1. Has(argCount + 1) /\ (callee.type = "class" => Free(vm) # {}) /\ vm' = CallValue(w, callee, argCount)
  BY DEF CallInstruction, Calling
<1>2. /\ HasCalled(w, argCount) /\ w.globals = vm.globals /\ w.classes = vm.classes
      /\ w.instances = vm.instances /\ Free(w) = Free(vm)
  BY <1>1, AnsweredCalls
<1>3. There(vm, callee)
  BY <1>1, TakenThere
<1> HIDE DEF w, callee
<1>4. There(w, callee)
  BY <1>2, <1>3, ThereSame
<1> QED BY <1>1, <1>2, <1>4, CallValueOutcome, OutcomeKept

\* OP_INVOKE.
LEMMA InvokeKept ==
  ASSUME IInv, NEW name \in Name, NEW argCount \in Nat, InvokeInstruction(name, argCount)
  PROVE  Kept(vm')
<1> DEFINE w == Answered(vm, argCount)
<1>1. Has(argCount + 1) /\ CallingField(Peek(vm, argCount), name) /\ vm' = Invoke(w, name, argCount)
  BY DEF InvokeInstruction
<1>2. /\ HasCalled(w, argCount) /\ w.globals = vm.globals /\ w.classes = vm.classes
      /\ w.instances = vm.instances /\ Free(w) = Free(vm) /\ Peek(w, argCount) = Peek(vm, argCount)
  BY <1>1, AnsweredCalls
<1> HIDE DEF w
<1>3. LET receiver == Peek(w, argCount)
          field == w.instances[receiver.instance].fields[name]
      IN  receiver.type = "instance" /\ field # NONE /\ field.type = "class" => Free(w) # {}
  BY <1>1, <1>2 DEF CallingField, Calling
<1> QED BY <1>1, <1>2, <1>3, InvokeOutcome, OutcomeKept

\* OP_SUPER_INVOKE.
LEMMA SuperInvokeKept ==
  ASSUME IInv, NEW name \in Name, NEW argCount \in Nat, SuperInvoke(name, argCount)
  PROVE  Kept(vm')
<1> DEFINE w == Answered(vm, argCount)
           this == vm.stack[Here.slots + 1]
<1>1. /\ Has(argCount + 1) /\ InMethod /\ Here.super # 0 /\ Peek(vm, argCount) = this
      /\ vm' = InvokeFromClass(w, Here.super, name, argCount) /\ vm.phase = "running"
  BY DEF SuperInvoke, Has, Running
<1>2. /\ HasCalled(w, argCount) /\ w.globals = vm.globals /\ w.classes = vm.classes
      /\ w.instances = vm.instances /\ Peek(w, argCount) = Peek(vm, argCount)
  BY <1>1, AnsweredCalls
<1>3. /\ this.instance \in DOMAIN vm.instances /\ this = Instance(this.instance)
      /\ Here.super \in Above(vm.classes, vm.instances[this.instance].class)
  BY <1>1, ThisThere
<1> HIDE DEF w, this
<1>4. Outcome(w, InvokeFromClass(w, Here.super, name, argCount))
  BY <1>1, <1>2, <1>3, InvokeFromClassOutcome
<1> QED BY <1>1, <1>2, <1>4, OutcomeKept

\* OP_SUBSCRIPT of an instance.
LEMMA SubscriptKept == IInv /\ SubscriptInstruction => Kept(vm')
<1> SUFFICES ASSUME IInv, SubscriptInstruction PROVE Kept(vm')
  OBVIOUS
<1> DEFINE w == Answered(vm, 1)
<1>1. Has(1 + 1) /\ CallingField(Peek(vm, 1), GetterString) /\ vm' = Subscript(w)
  BY DEF SubscriptInstruction
<1>2. /\ HasCalled(w, 1) /\ w.globals = vm.globals /\ w.classes = vm.classes
      /\ w.instances = vm.instances /\ Free(w) = Free(vm) /\ Peek(w, 1) = Peek(vm, 1)
  BY <1>1, AnsweredCalls
<1> HIDE DEF w
<1>3. LET receiver == Peek(w, 1)
          field == w.instances[receiver.instance].fields[GetterString]
      IN  receiver.type = "instance" /\ field # NONE /\ field.type = "class" => Free(w) # {}
  BY <1>1, <1>2 DEF CallingField, Calling
<1>4. Outcome(w, Invoke(w, GetterString, 1))
  BY <1>2, <1>3, InvokeOutcome, MachineAssumption
<1>5. Outcome(w, RuntimeError(w))
  BY <1>2, ErrorOutcome DEF HasCalled
<1> QED BY <1>1, <1>2, <1>4, <1>5, OutcomeKept DEF Subscript

\* Between two lines the machine rests: what it refers to is still there.
LEMMA RestStep ==
  ASSUME NEW v, Fine(v, 0), NEW w \in MachineType, w.phase # "running", w.stack = <<>>, w.frames = <<>>,
         w.body = NoBody, w.classes = v.classes, w.instances = v.instances, w.globals = v.globals
  PROVE  Fine(w, 0)
<1>1. /\ v \in MachineType /\ Declares(v) /\ Inherits(v) /\ ValuesThere(v)
  BY DEF Fine
<1>2. HeightsFit(w, 0)
  BY MachineAssumption DEF HeightsFit
<1>3. Declares(w)
  BY <1>1, MachineFields DEF Declares, NoBody
<1>4. Inherits(w)
  BY <1>1 DEF Inherits
<1>5. ValuesThere(w)
  BY <1>1, ThereSame DEF ValuesThere
<1>6. FramesRun(w)
  BY DEF FramesRun
<1> QED BY <1>2, <1>3, <1>4, <1>5, <1>6 DEF Fine

\* A frame that goes leaves one value, where its callee was.
LEMMA ReturnStep ==
  ASSUME NEW v, Fine(v, 0), v.phase = "running", Len(v.frames) > 1, NEW x, There(v, x),
         NEW w \in MachineType, w.phase = "running", w.body = NoBody, w.classes = v.classes,
         w.instances = v.instances, w.globals = v.globals,
         Len(w.frames) = Len(v.frames) - 1,
         \A k \in 1 .. Len(v.frames) - 1 : w.frames[k] = v.frames[k],
         Height(w) = Frame(v).slots + 1, w.stack[Height(w)] = x,
         \A k \in 1 .. Frame(v).slots : w.stack[k] = v.stack[k]
  PROVE  Fine(w, 0)
<1> DEFINE F == Len(v.frames)
           G == Len(w.frames)
           base == Frame(v).slots
<1>1. /\ v \in MachineType /\ HeightsFit(v, 0) /\ Declares(v) /\ Inherits(v)
      /\ ValuesThere(v) /\ FramesRun(v)
  BY DEF Fine
<1>2. /\ F \in Nat /\ F > 1 /\ G = F - 1 /\ G \in Nat /\ G >= 1 /\ G < F
      /\ DOMAIN v.frames = 1 .. F /\ DOMAIN w.frames = 1 .. G
      /\ Frame(v) = v.frames[F] /\ F <= FramesMax /\ FramesMax \in Nat
      /\ \A k \in 1 .. F : v.frames[k] \in FrameType
  <2>1. /\ DOMAIN v.frames = 1 .. F /\ F \in Nat /\ DOMAIN w.frames = 1 .. G /\ G \in Nat
        /\ \A k \in 1 .. F : v.frames[k] \in FrameType
    BY <1>1, MachineFields
  <2>2. F > 1 /\ G = F - 1
    OBVIOUS
  <2>3. F <= FramesMax /\ FramesMax \in Nat
    BY <1>1, MachineAssumption DEF HeightsFit
  <2>4. Frame(v) = v.frames[F]
    BY Current
  <2> HIDE DEF F, G
  <2>5. G >= 1 /\ G < F
    BY <2>1, <2>2
  <2> QED BY <2>1, <2>2, <2>3, <2>4, <2>5
<1>3. /\ base \in Nat /\ Height(v) \in Nat /\ base + 1 <= Height(v)
      /\ DOMAIN v.stack = 1 .. Height(v) /\ DOMAIN w.stack = 1 .. base + 1
  <2> DEFINE b == Frame(v).counted
             h == Height(v)
  <2>1. base \in Nat /\ b \in Nat /\ b >= 1 /\ base + b = h /\ h \in Nat
    <3>1. /\ Frame(v).counted \in Nat /\ Frame(v).counted >= Params(Frame(v)) /\ Params(Frame(v)) \in Nat \ {0}
          /\ Frame(v).slots + Frame(v).counted = Height(v) - 0 /\ Frame(v).slots \in Nat
      BY Current
    <3>2. Height(v) \in Nat
      BY <1>1, MachineFields
    <3> QED BY <3>1, <3>2, MachineAssumption
  <2> HIDE DEF b, h, base
  <2>2. base + 1 <= h
    BY <2>1
  <2>3. Height(w) = base + 1
    BY DEF base
  <2>4. DOMAIN w.stack = 1 .. Height(w) /\ DOMAIN v.stack = 1 .. Height(v)
    BY <1>1, MachineFields
  <2> QED BY <2>1, <2>2, <2>3, <2>4 DEF h
<1> HIDE DEF F, G
<1>4. \A k \in 1 .. G : /\ k \in 1 .. F /\ w.frames[k] = v.frames[k] /\ v.frames[k].slots \in Nat
                        /\ v.frames[k].slots < base
  <2> TAKE k \in 1 .. G
  <2>1. k \in 1 .. F /\ k < F /\ F \in 1 .. F
    BY <1>2
  <2>2. v.frames[k].slots < v.frames[F].slots
    BY <1>1, <1>2, <2>1 DEF HeightsFit
  <2>3. w.frames[k] = v.frames[k]
    BY <1>2, <2>1 DEF G, F
  <2> QED BY <1>2, <2>1, <2>2, <2>3, MemberFields
<1>5. base >= 1
  <2>1. 1 \in 1 .. G
    BY <1>2
  <2> HIDE DEF base
  <2> QED BY <1>3, <1>4, <2>1
<1>6. HeightsFit(w, 0)
  <2>1. ASSUME NEW k \in 1 .. G
        PROVE  /\ w.frames[k].slots + w.frames[k].counted = End(w, 0, k)
               /\ w.frames[k].counted >= Params(w.frames[k])
               /\ k < G => w.frames[k].counted > Params(w.frames[k])
    <3>1. k \in 1 .. F /\ k < F /\ k # F /\ w.frames[k] = v.frames[k]
      BY <1>2, <1>4
    <3>2. /\ v.frames[k].slots + v.frames[k].counted = End(v, 0, k)
          /\ v.frames[k].counted >= Params(v.frames[k])
          /\ v.frames[k].counted > Params(v.frames[k])
      BY <1>1, <1>2, <3>1 DEF HeightsFit, F
    <3>3. End(w, 0, k) = End(v, 0, k)
      <4>1. End(v, 0, k) = v.frames[k + 1].slots + 1
        BY <3>1 DEF End, F
      <4>2. CASE k = G
        <5>1. k + 1 = F
          BY <1>2, <4>2
        <5>2. End(w, 0, k) = Height(w) - 0
          BY <4>2 DEF End, G
        <5>3. Height(w) - 0 = base + 1
          BY <1>3
        <5> QED BY <1>2, <4>1, <5>1, <5>2, <5>3
      <4>3. CASE k # G
        <5>1. k + 1 \in 1 .. G
          BY <1>2, <4>3
        <5> QED BY <1>4, <4>1, <4>3, <5>1 DEF End, G
      <4> QED BY <4>2, <4>3
    <3> QED BY <3>1, <3>2, <3>3
  <2>2. \A j, k \in 1 .. G : j < k => w.frames[j].slots < w.frames[k].slots
    BY <1>1, <1>2, <1>4 DEF HeightsFit
  <2>3. w.frames # <<>> /\ w.frames[1].slots = 0
    <3>1. 1 \in 1 .. G /\ w.frames # <<>>
      BY <1>2
    <3> QED BY <1>1, <1>4, <3>1 DEF HeightsFit
  <2>4. G <= FramesMax
    BY <1>2
  <2> QED BY <1>2, <2>1, <2>2, <2>3, <2>4 DEF HeightsFit, G
<1>7. Declares(w) /\ Inherits(w)
  BY <1>1, MachineFields DEF Declares, NoBody, Inherits
<1>8. ValuesThere(w)
  <2>1. ASSUME NEW k \in 1 .. base + 1
        PROVE  IF k = 1 THEN w.stack[k] = Script ELSE There(v, w.stack[k])
    <3>1. CASE k = base + 1
      <4>1. w.stack[k] = x /\ k # 1
        BY <1>3, <1>5, <3>1
      <4> QED BY <4>1
    <3>2. CASE k # base + 1
      <4>1. k \in 1 .. base /\ k \in DOMAIN v.stack
        BY <1>3, <3>2
      <4>2. w.stack[k] = v.stack[k]
        BY <4>1
      <4> QED BY <1>1, <4>1, <4>2 DEF ValuesThere
    <3> QED BY <3>1, <3>2
  <2>2. \A k \in DOMAIN w.stack : IF k = 1 THEN w.stack[k] = Script ELSE There(w, w.stack[k])
    BY <1>3, <2>1, ThereSame
  <2> QED BY <1>1, <2>2, ThereSame DEF ValuesThere
<1>9. FramesRun(w)
  <2> SUFFICES ASSUME NEW k \in 1 .. G
               PROVE  LET frame == w.frames[k]
                          this == w.stack[frame.slots + 1]
                      IN  /\ frame.function = NONE <=> k = 1
                          /\ k > 1 /\ frame.function \notin Plain =>
                               this \in InstanceValues
                               /\ Understands(w, this.instance, Closure(frame.function, frame.super))
    BY <1>2 DEF FramesRun
  <2>1. v.frames[k].slots + 1 \in 1 .. base
    <3> HIDE DEF base
    <3> DEFINE a == v.frames[k].slots
    <3>1. a \in Nat /\ a < base /\ base \in Nat
      BY <1>3, <1>4
    <3> HIDE DEF a
    <3>2. a + 1 \in 1 .. base
      BY <3>1
    <3> QED BY <3>2 DEF a
  <2>2. w.stack[w.frames[k].slots + 1] = v.stack[v.frames[k].slots + 1] /\ w.frames[k] = v.frames[k]
    <3>1. w.frames[k] = v.frames[k]
      BY <1>4
    <3>2. w.stack[v.frames[k].slots + 1] = v.stack[v.frames[k].slots + 1]
      BY <2>1
    <3> QED BY <3>1, <3>2
  <2>3. k \in DOMAIN v.frames
    BY <1>2, <1>4
  <2> HIDE DEF base
  <2>4. LET frame == v.frames[k]
            this == v.stack[frame.slots + 1]
        IN  /\ frame.function = NONE <=> k = 1
            /\ k > 1 /\ frame.function \notin Plain =>
                 this \in InstanceValues
                 /\ Understands(v, this.instance, Closure(frame.function, frame.super))
    BY <1>1, <2>3 DEF FramesRun
  <2> QED BY <2>2, <2>4, ThereSame
<1> QED BY <1>6, <1>7, <1>8, <1>9 DEF Fine

\* What a return leaves when it is not the script's, with whatever was pushed to be returned.
LEMMA ReturnedKept ==
  ASSUME IInv, vm.phase = "running", vm.body = NoBody, ~InScript,
         NEW v \in MachineType, SameBelow(vm, v), v.frames = vm.frames, Height(v) >= Height(vm),
         \A k \in 1 .. Height(vm) : v.stack[k] = vm.stack[k],
         There(vm, Peek(v, 0))
  PROVE  Kept(Returned(v))
<1> DEFINE x == Peek(v, 0)
           below == SubSeq(v.stack, 1, Here.slots)
           callers == Front(vm.frames)
           left == [v EXCEPT !.stack = below, !.frames = callers]
           w == Pushed(left, x)
<1>1. /\ Frame(v) = Here /\ Here.slots \in Nat /\ Here.slots + 1 <= Height(vm) /\ Height(vm) \in Nat
      /\ Height(v) \in Nat /\ Len(vm.frames) \in Nat /\ Len(vm.frames) > 1
      /\ vm.frames \in Seq(FrameType) /\ v.stack \in Seq(AnyValue \cup {Script})
      /\ x \in AnyValue \cup {Script} /\ There(vm, x)
  <2>1. Frame(v) = Here
    BY DEF Frame, Here
  <2>2. Here.slots + 1 <= Height(vm)
    <3> DEFINE a == Here.slots
               b == Here.counted
               p == Params(Here)
               h == Height(vm)
    <3>1. a \in Nat /\ b \in Nat /\ p \in Nat \ {0} /\ b >= p /\ h = a + b
      BY HereFacts
    <3> HIDE DEF a, b, p, h
    <3>2. a + 1 <= h
      BY <3>1
    <3> QED BY <3>2 DEF a, h
  <2>3. Len(vm.frames) > 1
    <3>1. Len(vm.frames) # 1 /\ Len(vm.frames) \in Nat /\ Len(vm.frames) \in DOMAIN vm.frames
          /\ DOMAIN vm.frames = 1 .. Len(vm.frames)
      BY HereFacts DEF InScript
    <3> DEFINE F == Len(vm.frames)
    <3>2. F # 1 /\ F \in Nat /\ F \in 1 .. F
      BY <3>1
    <3> HIDE DEF F
    <3>3. F > 1
      BY <3>2
    <3> QED BY <3>3 DEF F
  <2> QED BY <2>1, <2>2, <2>3, HereFacts, MachineFields DEF There
<1>2. Returned(v) = w
  <2>1. Len(v.frames) # 1 /\ Frame(v).slots = Here.slots /\ Front(v.frames) = callers
    <3>1. Front(v.frames) = callers
      OBVIOUS
    <3>2. Len(v.frames) # 1
      <4> HIDE DEF callers, below, left, w, x
      <4>1. Len(v.frames) = Len(vm.frames)
        OBVIOUS
      <4> DEFINE F == Len(vm.frames)
      <4>2. F > 1 /\ F \in Nat
        BY <1>1
      <4> HIDE DEF F
      <4>3. F # 1
        BY <4>2
      <4> QED BY <4>1, <4>3 DEF F
    <3>3. Frame(v).slots = Here.slots
      BY <1>1
    <3> QED BY <3>1, <3>2, <3>3
  <2>2. Returned(v) = Pushed([v EXCEPT !.stack = SubSeq(v.stack, 1, Frame(v).slots), !.frames = Front(v.frames)], x)
    BY <2>1 DEF Returned
  <2> QED BY <2>1, <2>2
<1> HIDE DEF x
<1>3. /\ below \in Seq(AnyValue \cup {Script}) /\ Len(below) = Here.slots
      /\ \A k \in 1 .. Here.slots : below[k] = vm.stack[k]
  <2> DEFINE n == Here.slots
  <2>1. n \in Nat /\ n + 1 <= Height(vm) /\ Height(v) >= Height(vm) /\ Height(vm) \in Nat /\ Height(v) \in Nat
    BY <1>1
  <2> HIDE DEF n
  <2>2. 1 \in 1 .. Len(v.stack) + 1 /\ n \in 0 .. Len(v.stack)
    BY <2>1 DEF Height
  <2>3. /\ SubSeq(v.stack, 1, n) \in Seq(AnyValue \cup {Script}) /\ Len(SubSeq(v.stack, 1, n)) = n
        /\ \A k \in 1 .. n : SubSeq(v.stack, 1, n)[k] = v.stack[k]
    BY <1>1, <2>1, <2>2 DEF Height
  <2>4. \A k \in 1 .. n : k \in 1 .. Height(vm)
    BY <2>1
  <2> QED BY <2>3, <2>4 DEF n
<1> HIDE DEF below
<1>4. /\ callers \in Seq(FrameType) /\ Len(callers) = Len(vm.frames) - 1
      /\ \A k \in 1 .. Len(vm.frames) - 1 : callers[k] = vm.frames[k]
  BY <1>1 DEF Front
<1> HIDE DEF callers
<1>5. /\ left \in MachineType /\ SameBelow(v, left) /\ left.stack = below /\ left.frames = callers
  BY <1>3, <1>4 DEF MachineType, SameBelow
<1> HIDE DEF left
<1>6. /\ w \in MachineType /\ SameBelow(left, w) /\ w.frames = callers
      /\ Height(w) = Here.slots + 1 /\ w.stack[Height(w)] = x
      /\ \A k \in 1 .. Here.slots : w.stack[k] = vm.stack[k]
  <2>1. Height(left) = Here.slots
    BY <1>3, <1>5 DEF Height
  <2>2. /\ w \in MachineType /\ SameBelow(left, w) /\ w.frames = left.frames
        /\ Height(w) = Height(left) + 1 /\ w.stack[Height(w)] = x
        /\ \A k \in 1 .. Height(left) : w.stack[k] = left.stack[k]
    BY <1>1, <1>5, PushedIs
  <2> HIDE DEF w
  <2> QED BY <1>3, <1>5, <2>1, <2>2
<1> HIDE DEF w
<1>7. /\ w.phase = "running" /\ w.body = NoBody /\ w.classes = vm.classes
      /\ w.instances = vm.instances /\ w.globals = vm.globals
  BY <1>5, <1>6 DEF SameBelow
<1>8. Fine(w, 0)
  BY <1>1, <1>4, <1>6, <1>7, ReturnStep DEF IInv, Here
<1> QED BY <1>2, <1>7, <1>8 DEF Kept

\* OP_RETURN.
LEMMA ReturnKept == IInv /\ Return => Kept(vm')
<1> SUFFICES ASSUME IInv, Return PROVE Kept(vm')
  OBVIOUS
<1>1. vm.phase = "running" /\ vm.body = NoBody /\ vm \in MachineType
  BY HereFacts DEF Return, Has, Running
<1>2. CASE Has(1) /\ ~InScript /\ ~InInitializer /\ vm' = Returned(vm)
  <2>1. Has(0 + 1)
    BY <1>2
  <2>2. There(vm, Peek(vm, 0))
    BY <2>1, TakenThere
  <2>3. Height(vm) \in Nat
    BY <1>1, MachineFields
  <2> QED BY <1>1, <1>2, <2>2, <2>3, ReturnedKept DEF SameBelow
<1>3. CASE /\ InScript => Here.counted = 1
           /\ vm' = Returned(Pushed(vm, IF InInitializer THEN vm.stack[Here.slots + 1] ELSE Nil))
  <2> DEFINE x == IF InInitializer THEN vm.stack[Here.slots + 1] ELSE Nil
             v == Pushed(vm, x)
  <2>1. There(vm, x) /\ x \in AnyValue
    <3>1. CASE InInitializer
      BY <1>1, <3>1, ThisThere DEF InInitializer, There
    <3>2. CASE ~InInitializer
      <4>1. Nil \in PlainValues
        BY DEF PlainValues
      <4>2. There(vm, Nil)
        BY <4>1, ValueFields, Kinds DEF There, AnyValue
      <4> QED BY <3>2, <4>1, <4>2 DEF AnyValue
    <3> QED BY <3>1, <3>2
  <2> HIDE DEF x
  <2>2. /\ v \in MachineType /\ SameBelow(vm, v) /\ v.frames = vm.frames
        /\ Height(v) = Height(vm) + 1 /\ v.stack[Height(v)] = x /\ Height(vm) \in Nat /\ Height(v) \in Nat
        /\ \A k \in 1 .. Height(vm) : v.stack[k] = vm.stack[k]
    BY <1>1, <2>1, PushedIs, MachineFields
  <2>3. vm' = Returned(v)
    BY <1>3 DEF x
  <2> HIDE DEF v
  <2>4. Peek(v, 0) = x
    BY <2>2 DEF Peek
  <2>5. CASE ~InScript
    BY <1>1, <2>1, <2>2, <2>3, <2>4, <2>5, ReturnedKept
  <2>6. CASE InScript
    <3>1. Height(vm) = 1 /\ Len(vm.frames) = 1
      <4>1. Here.slots = 0 /\ Here.counted = 1
        BY <1>1, <1>3, <2>6, HereFacts DEF InScript, HeightsFit
      <4> QED BY <1>1, <2>6, <4>1, HereFacts DEF InScript
    <3>2. /\ Popped(v, 2) \in MachineType /\ SameBelow(v, Popped(v, 2)) /\ Height(Popped(v, 2)) = 0
      <4>1. 2 \in 0 .. Height(v) /\ Height(v) - 2 = 0
        BY <2>2, <3>1
      <4> QED BY <2>2, <4>1, PoppedIs
    <3>3. vm' = [Popped(v, 2) EXCEPT !.frames = <<>>, !.phase = "ready"]
      BY <2>2, <2>3, <3>1 DEF Returned
    <3>4. Popped(v, 2).stack = <<>>
      <4>1. Popped(v, 2).stack \in Seq(AnyValue \cup {Script}) /\ Len(Popped(v, 2).stack) = 0
        BY <3>2, MachineFields DEF Height
      <4> QED BY <4>1
    <3> DEFINE p == Popped(v, 2)
    <3> HIDE DEF p
    <3>5. /\ vm' \in MachineType /\ vm'.phase = "ready" /\ vm'.stack = <<>> /\ vm'.frames = <<>>
          /\ vm'.classes = p.classes /\ vm'.instances = p.instances /\ vm'.globals = p.globals
          /\ vm'.body = p.body
      <4>1. p \in MachineType /\ vm' = [p EXCEPT !.frames = <<>>, !.phase = "ready"] /\ p.stack = <<>>
        BY <3>2, <3>3, <3>4 DEF p
      <4>2. <<>> \in Seq(FrameType)
        OBVIOUS
      <4> QED BY <4>1, <4>2 DEF MachineType
    <3>6. /\ vm'.classes = vm.classes /\ vm'.instances = vm.instances /\ vm'.globals = vm.globals
          /\ vm'.body = NoBody
      BY <1>1, <2>2, <3>2, <3>5 DEF SameBelow, p
    <3>7. Fine(vm', 0)
      BY <3>5, <3>6, RestStep DEF IInv
    <3> QED BY <3>6, <3>7 DEF Kept
  <2> QED BY <2>5, <2>6
<1> QED BY <1>2, <1>3 DEF Return

-----------------------------------------------------------------------------
(* Class declarations.                                                     *)

\* Every frame's slot 0 is on the stack, and there is an instance in a method's.
LEMMA SlotThere ==
  ASSUME NEW v, Fine(v, 0), NEW k \in DOMAIN v.frames
  PROVE  LET frame == v.frames[k]
             this == v.stack[frame.slots + 1]
         IN  /\ frame.slots + 1 \in DOMAIN v.stack /\ v.phase = "running"
             /\ k > 1 /\ frame.function \notin Plain =>
                  this \in InstanceValues /\ There(v, this) /\ this.instance \in DOMAIN v.instances
<1> DEFINE frame == v.frames[k]
           this == v.stack[frame.slots + 1]
<1>1. /\ v \in MachineType /\ HeightsFit(v, 0) /\ ValuesThere(v) /\ FramesRun(v)
  BY DEF Fine
<1>2. v.phase = "running" /\ k \in 1 .. Len(v.frames)
  BY <1>1, MachineFields DEF HeightsFit
<1>3. frame.slots + 1 \in DOMAIN v.stack
  <2> DEFINE a == frame.slots
             b == Frame(v).slots
             n == Frame(v).counted
             p == Params(Frame(v))
             h == Height(v)
  <2>1. /\ a \in Nat /\ b \in Nat /\ a <= b /\ n \in Nat /\ n >= p /\ p \in Nat \ {0} /\ b + n = h - 0
        /\ h \in Nat /\ DOMAIN v.stack = 1 .. h
    BY <1>1, <1>2, Current, MachineFields, MachineAssumption
  <2> HIDE DEF a, b, n, p, h
  <2>2. a + 1 \in 1 .. h
    BY <2>1
  <2> QED BY <2>1, <2>2 DEF a
<1>4. k > 1 /\ frame.function \notin Plain => this \in InstanceValues
  BY <1>1 DEF FramesRun
<1>5. this \in InstanceValues => There(v, this)
  <2>1. Script \notin InstanceValues
    BY ValueFields DEF Script, Closure
  <2> QED BY <1>1, <1>3, <2>1 DEF ValuesThere
<1> HIDE DEF frame, this
<1> QED BY <1>2, <1>3, <1>4, <1>5 DEF There, frame, this

\* A declaration changes the class it declares and no other: nothing understands less.
LEMMA TablesStep ==
  ASSUME NEW v, Fine(v, 0), NEW w \in MachineType, w.phase = v.phase, w.stack = v.stack,
         w.frames = v.frames, w.instances = v.instances, w.globals = v.globals,
         DOMAIN v.classes \subseteq DOMAIN w.classes,
         \A c \in DOMAIN v.classes : c # v.body.class => w.classes[c] = v.classes[c],
         Declares(w), Inherits(w)
  PROVE  Fine(w, 0)
<1>1. /\ v \in MachineType /\ HeightsFit(v, 0) /\ Declares(v) /\ Inherits(v)
      /\ ValuesThere(v) /\ FramesRun(v)
  BY DEF Fine
<1>2. /\ Len(v.classes) \in Nat /\ DOMAIN v.classes = 1 .. Len(v.classes)
      /\ v.body.class = 0 \/ v.body.class = Len(v.classes)
  BY <1>1, MachineFields DEF Declares
<1>3. ASSUME NEW i \in DOMAIN v.instances, NEW m, Understands(v, i, m)
      PROVE  Understands(w, i, m)
  <2> DEFINE c == v.instances[i].class
  <2>1. c \in DOMAIN v.classes /\ c # v.body.class /\ Above(v.classes, c) \subseteq 1 .. c
    BY <1>1 DEF Declares, Above
  <2> HIDE DEF c
  <2>2. \A d \in 1 .. c : w.classes[d] = v.classes[d]
    <3> SUFFICES ASSUME NEW d \in 1 .. c PROVE w.classes[d] = v.classes[d]
      OBVIOUS
    <3>1. d \in DOMAIN v.classes /\ d # v.body.class
      <4> DEFINE b == v.body.class
                 h == Len(v.classes)
      <4>1. h \in Nat /\ (b = 0 \/ b = h) /\ c \in 1 .. h /\ c # b
        BY <1>2, <2>1
      <4> HIDE DEF b, h
      <4>2. d \in 1 .. h /\ d # b
        BY <4>1
      <4> QED BY <1>2, <4>2 DEF b, h
    <3> QED BY <3>1
  <2>3. Above(w.classes, c) = Above(v.classes, c)
    BY <2>2, AboveSame
  <2>4. PICK d \in Above(v.classes, c) : v.classes[d].own[MethodName[m.function]] = m
    BY <1>3 DEF Understands, c
  <2>5. w.classes[d] = v.classes[d]
    BY <2>1, <2>2, <2>4
  <2> QED BY <2>3, <2>4, <2>5 DEF Understands, c
<1>4. \A x : There(v, x) => There(w, x)
  BY <1>3 DEF There
<1>5. HeightsFit(w, 0)
  BY <1>1 DEF HeightsFit, End, Height
<1>6. ValuesThere(w)
  BY <1>1, <1>4 DEF ValuesThere
<1>7. FramesRun(w)
  <2> SUFFICES ASSUME NEW k \in DOMAIN v.frames
               PROVE  LET frame == v.frames[k]
                          this == v.stack[frame.slots + 1]
                      IN  /\ frame.function = NONE <=> k = 1
                          /\ k > 1 /\ frame.function \notin Plain =>
                               this \in InstanceValues
                               /\ Understands(w, this.instance, Closure(frame.function, frame.super))
    BY DEF FramesRun
  <2> DEFINE this == v.stack[v.frames[k].slots + 1]
  <2>1. /\ v.frames[k].function = NONE <=> k = 1
        /\ k > 1 /\ v.frames[k].function \notin Plain =>
             this \in InstanceValues
             /\ Understands(v, this.instance, Closure(v.frames[k].function, v.frames[k].super))
    BY <1>1 DEF FramesRun
  <2>2. k > 1 /\ v.frames[k].function \notin Plain => this.instance \in DOMAIN v.instances
    BY SlotThere
  <2> QED BY <1>3, <2>1, <2>2
<1> QED BY <1>5, <1>6, <1>7 DEF Fine

\* OP_CLASS.
LEMMA ClassInstructionKept == IInv /\ ClassInstruction => Kept(vm')
<1> SUFFICES ASSUME IInv, ClassInstruction PROVE Kept(vm')
  OBVIOUS
<1> DEFINE L == Len(vm.classes)
           c == L + 1
           new == [methods |-> Empty, super |-> 0, own |-> Empty]
           classes == Append(vm.classes, new)
           body == [vm.body EXCEPT !.class = c]
           made == [vm EXCEPT !.classes = classes, !.body = body]
<1>1. /\ vm.phase = "running" /\ vm.body = NoBody /\ L < MaxClasses /\ vm \in MachineType
      /\ Declares(vm) /\ Inherits(vm) /\ MaxClasses \in Nat /\ L \in Nat
      /\ vm.classes \in Seq(ClassType) /\ DOMAIN vm.classes = 1 .. L
  BY HereFacts, MachineFields, MachineAssumption DEF ClassInstruction, Running
<1>2. c \in 1 .. MaxClasses /\ c \in Nat /\ c # 0 /\ c \in 1 .. c
  BY <1>1
<1>3. /\ new \in ClassType /\ new.super = 0 /\ \A n \in Name : new.own[n] = NONE /\ new.methods[n] = NONE
      /\ new.own = Empty
  BY <1>1 DEF ClassType, Empty
<1> HIDE DEF new
<1>4. /\ classes \in Seq(ClassType) /\ Len(classes) = c /\ DOMAIN classes = 1 .. c /\ classes[c] = new
      /\ \A d \in 1 .. L : classes[d] = vm.classes[d]
  BY <1>1, <1>3
<1> HIDE DEF classes
<1>5. body \in [class : 0 .. MaxClasses, super : 0 .. MaxClasses, methods : BOOLEAN]
      /\ body.class = c /\ body.super = 0
  <2>1. vm.body \in [class : 0 .. MaxClasses, super : 0 .. MaxClasses, methods : BOOLEAN] /\ vm.body.super = 0
    BY <1>1, MachineFields DEF NoBody
  <2> HIDE DEF c
  <2> QED BY <1>2, <2>1
<1> HIDE DEF body, c
<1>7. /\ made \in MachineType /\ made.phase = "running" /\ made.stack = vm.stack /\ made.frames = vm.frames
      /\ made.classes = classes /\ made.instances = vm.instances /\ made.globals = vm.globals
      /\ made.body = body
  BY <1>1, <1>4, <1>5 DEF MachineType
<1>8. \/ Room(1) /\ vm' = Counted(Pushed(made, Class(c)), 1)
      \/ \E name \in Global \ Natives : vm' = [made EXCEPT !.globals[name] = Class(c)]
  <2>1. made = [vm EXCEPT !.classes = Append(@, new), !.body.class = c]
    BY <1>1 DEF MachineType, classes, body
  <2> HIDE DEF made
  <2> QED BY <2>1 DEF ClassInstruction, c, new
<1> HIDE DEF made
<1>9. Declares(made)
  <2>1. \A i \in DOMAIN made.instances : made.instances[i].class \in DOMAIN made.classes \ {made.body.class}
    <3> SUFFICES ASSUME NEW i \in DOMAIN vm.instances
                 PROVE  vm.instances[i].class \in 1 .. c /\ vm.instances[i].class # c
      BY <1>4, <1>5, <1>7
    <3>1. vm.instances[i].class \in 1 .. L
      BY <1>1 DEF Declares
    <3> QED BY <1>1, <1>2, <3>1 DEF c
  <2>2. ~made.body.methods => made.classes[c].own = Empty
    BY <1>3, <1>4, <1>7
  <2> QED BY <1>2, <1>3, <1>4, <1>5, <1>7, <2>1, <2>2 DEF Declares
<1>10. Inherits(made)
  <2>1. Len(classes) <= MaxClasses /\ Len(vm.instances) <= MaxInstances
    BY <1>1, <1>2, <1>4 DEF Inherits
  <2>2. ASSUME NEW d \in 1 .. c, NEW n \in Name
        PROVE  LET class == classes[d] IN
               /\ class.super < d
               /\ class.own[n] # NONE => MethodName[class.own[n].function] = n /\ class.own[n].super = class.super
               /\ class.methods[n] = IF class.own[n] # NONE THEN class.own[n]
                                     ELSE IF class.super = 0 THEN NONE ELSE classes[class.super].methods[n]
    <3>1. CASE d = c
      <4>1. new.super < d
        BY <1>2, <1>3, <3>1
      <4> QED BY <1>3, <1>4, <3>1, <4>1
    <3>2. CASE d # c
      <4>1. d \in 1 .. L
        BY <1>1, <3>2 DEF c
      <4>2. vm.classes[d].super # 0 => vm.classes[d].super \in 1 .. L
        BY <1>1, <4>1, ClassFields
      <4>3. LET class == vm.classes[d] IN
            /\ class.super < d
            /\ class.own[n] # NONE => MethodName[class.own[n].function] = n /\ class.own[n].super = class.super
            /\ class.methods[n] = IF class.own[n] # NONE THEN class.own[n]
                                  ELSE IF class.super = 0 THEN NONE ELSE vm.classes[class.super].methods[n]
        BY <1>1, <4>1 DEF Inherits
      <4>4. classes[d] = vm.classes[d]
        BY <1>4, <4>1
      <4>5. vm.classes[d].super # 0 => classes[vm.classes[d].super] = vm.classes[vm.classes[d].super]
        BY <1>4, <4>2
      <4> QED BY <4>3, <4>4, <4>5
    <3> QED BY <3>1, <3>2
  <2>3. made.classes = classes /\ made.instances = vm.instances /\ DOMAIN classes = 1 .. c
    BY <1>4, <1>7
  <2> QED BY <2>1, <2>2, <2>3 DEF Inherits
<1>11. Fine(made, 0)
  <2>1. DOMAIN vm.classes \subseteq DOMAIN made.classes
    BY <1>1, <1>4, <1>7 DEF c
  <2>2. \A d \in DOMAIN vm.classes : made.classes[d] = vm.classes[d]
    BY <1>1, <1>4, <1>7
  <2> QED BY <1>1, <1>7, <1>9, <1>10, <2>1, <2>2, TablesStep DEF IInv
<1>12. There(made, Class(c))
  <2>1. Class(c) \in ClassValues /\ c \in DOMAIN made.classes /\ Class(c).class = c
    BY <1>2, <1>4, <1>7 DEF ClassValues, Class
  <2>2. Class(c) \notin InstanceValues /\ Class(c) \notin BoundMethods
    BY ValueFields DEF Class
  <2> QED BY <2>1, <2>2 DEF There, AnyValue
<1>13. CASE Room(1) /\ vm' = Counted(Pushed(made, Class(c)), 1)
  BY <1>7, <1>11, <1>12, <1>13, PushStep DEF Kept, SameBelow
<1>14. CASE \E name \in Global \ Natives : vm' = [made EXCEPT !.globals[name] = Class(c)]
  BY <1>7, <1>11, <1>12, <1>14, GlobalStep DEF Kept
<1> QED BY <1>8, <1>13, <1>14

\* A method of the class that is declared.
LEMMA MethodKept == IInv /\ Method => Kept(vm')
<1> SUFFICES ASSUME IInv, Method PROVE Kept(vm')
  OBVIOUS
<1> DEFINE c == vm.body.class
           super == vm.body.super
           class == vm.classes[c]
<1>1. vm.phase = "running" /\ vm.body # NoBody /\ vm \in MachineType /\ Declares(vm) /\ Inherits(vm)
  BY HereFacts DEF Method, Declaring
<1>2. PICK f \in Function : MethodName[f] # NONE /\ vm' = DefineMethod(vm, f, Closure(f, super))
  BY DEF Method
<1> DEFINE name == MethodName[f]
           method == Closure(f, super)
           new == [class EXCEPT !.methods[name] = method, !.own[name] = method]
           classes == [vm.classes EXCEPT ![c] = new]
           body == [vm.body EXCEPT !.methods = TRUE]
<1>3. /\ c # 0 /\ c = Len(vm.classes) /\ super = class.super /\ c \in DOMAIN vm.classes
      /\ super # 0 => Frame(vm).counted > Params(Frame(vm))
      /\ \A i \in DOMAIN vm.instances : vm.instances[i].class \in DOMAIN vm.classes \ {c}
  <2>1. c # 0
    BY <1>1 DEF Declares
  <2> QED BY <1>1, <2>1, MachineFields DEF Declares
<1>4. /\ name \in Name /\ method \in Methods /\ method # NONE /\ method.function = f /\ method.super = super
      /\ super \in 0 .. MaxClasses
  <2>1. super \in 0 .. MaxClasses
    BY <1>1, MachineFields
  <2>2. method \in Methods
    BY <1>2, <2>1 DEF Methods, Plain
  <2> QED BY <1>2, <2>1, <2>2, MethodFields, MachineAssumption DEF Closure
<1>5. /\ vm.classes \in Seq(ClassType) /\ class \in ClassType /\ class.super \in 0 .. MaxClasses
      /\ class.methods \in [Name -> Methods \cup {NONE}] /\ class.own \in [Name -> Methods \cup {NONE}]
      /\ vm.body \in [class : 0 .. MaxClasses, super : 0 .. MaxClasses, methods : BOOLEAN]
      /\ Len(vm.classes) \in Nat /\ DOMAIN vm.classes = 1 .. Len(vm.classes)
  BY <1>1, <1>3, MachineFields, MemberFields
<1> HIDE DEF method, name, super, class
<1>6. /\ new \in ClassType /\ new.super = class.super
      /\ \A n \in Name : /\ new.own[n] = IF n = name THEN method ELSE class.own[n]
                         /\ new.methods[n] = IF n = name THEN method ELSE class.methods[n]
  BY <1>4, <1>5 DEF ClassType
<1>7. vm' = [vm EXCEPT !.classes = classes, !.body = body]
  <2>2. [[vm.classes EXCEPT ![c].methods[name] = method] EXCEPT ![c].own[name] = method] = classes
    BY <1>3, <1>5 DEF class
  <2> QED BY <1>1, <1>2, <2>2 DEF DefineMethod, MachineType, name, method
<1> HIDE DEF new
<1>8. /\ classes \in Seq(ClassType) /\ Len(classes) = Len(vm.classes) /\ DOMAIN classes = DOMAIN vm.classes
      /\ classes[c] = new /\ \A d \in DOMAIN vm.classes : d # c => classes[d] = vm.classes[d]
  BY <1>3, <1>5, <1>6
<1>9. /\ body \in [class : 0 .. MaxClasses, super : 0 .. MaxClasses, methods : BOOLEAN]
      /\ body.class = c /\ body.super = super /\ body.methods
  BY <1>5 DEF super
<1> HIDE DEF classes, body, c
<1>10. /\ vm' \in MachineType /\ vm'.phase = "running" /\ vm'.stack = vm.stack /\ vm'.frames = vm.frames
       /\ vm'.classes = classes /\ vm'.instances = vm.instances /\ vm'.globals = vm.globals
       /\ vm'.body = body
  BY <1>1, <1>7, <1>8, <1>9 DEF MachineType
<1>11. Declares(vm')
  BY <1>3, <1>6, <1>8, <1>9, <1>10 DEF Declares, Frame
<1>12. Inherits(vm')
  <2>1. Len(classes) <= MaxClasses /\ Len(vm.instances) <= MaxInstances
    BY <1>1, <1>8 DEF Inherits
  <2>2. ASSUME NEW d \in DOMAIN classes, NEW n \in Name
        PROVE  /\ classes[d].super < d
               /\ classes[d].own[n] # NONE => /\ MethodName[classes[d].own[n].function] = n
                                              /\ classes[d].own[n].super = classes[d].super
               /\ classes[d].methods[n] = IF classes[d].own[n] # NONE THEN classes[d].own[n]
                                          ELSE IF classes[d].super = 0 THEN NONE
                                          ELSE classes[classes[d].super].methods[n]
    <3>1. d \in DOMAIN vm.classes
      BY <1>8
    <3>2. /\ vm.classes[d].super < d
          /\ vm.classes[d].own[n] # NONE => /\ MethodName[vm.classes[d].own[n].function] = n
                                            /\ vm.classes[d].own[n].super = vm.classes[d].super
          /\ vm.classes[d].methods[n] = IF vm.classes[d].own[n] # NONE THEN vm.classes[d].own[n]
                                        ELSE IF vm.classes[d].super = 0 THEN NONE
                                        ELSE vm.classes[vm.classes[d].super].methods[n]
      BY <1>1, <3>1 DEF Inherits
    <3>3. vm.classes[d].super # 0 =>
            vm.classes[d].super \in DOMAIN vm.classes /\ vm.classes[d].super # c
      <4> SUFFICES ASSUME vm.classes[d].super # 0
                   PROVE  vm.classes[d].super \in DOMAIN vm.classes /\ vm.classes[d].super # c
        OBVIOUS
      <4> DEFINE e == vm.classes[d].super
                 h == Len(vm.classes)
      <4>1. e \in DOMAIN vm.classes /\ e \in 1 .. d - 1 /\ d \in 1 .. h /\ h \in Nat /\ c = h
        BY <1>1, <1>3, <1>5, <3>1, ClassFields
      <4> HIDE DEF e, h
      <4>2. e # c
        BY <4>1
      <4> QED BY <4>1, <4>2 DEF e
    <3>4. vm.classes[d].super # 0 => classes[vm.classes[d].super] = vm.classes[vm.classes[d].super]
      BY <1>8, <3>3
    <3>5. CASE d # c
      <4>1. classes[d] = vm.classes[d]
        BY <1>8, <3>1, <3>5
      <4> QED BY <3>2, <3>4, <4>1
    <3>6. CASE d = c
      <4>1. classes[d] = new /\ class = vm.classes[d]
        BY <1>8, <3>6 DEF class, c
      <4>2. CASE n = name
        <5>1. new.own[n] = method /\ new.methods[n] = method
          BY <1>6, <4>2
        <5>2. MethodName[method.function] = n
          BY <1>4, <4>2 DEF name
        <5> QED BY <1>3, <1>4, <1>6, <3>2, <4>1, <5>1, <5>2
      <4>3. CASE n # name
        <5>1. new.own[n] = class.own[n] /\ new.methods[n] = class.methods[n]
          BY <1>6, <4>3
        <5> QED BY <1>6, <3>2, <3>4, <4>1, <5>1
      <4> QED BY <4>2, <4>3
    <3> QED BY <3>5, <3>6
  <2> QED BY <1>10, <2>1, <2>2 DEF Inherits
<1>13. Fine(vm', 0)
  BY <1>1, <1>8, <1>10, <1>11, <1>12, TablesStep DEF IInv, c
<1> QED BY <1>10, <1>13 DEF Kept

\* What a variable holds is there, unless it is the script.
LEMMA ValuesAreThere ==
  ASSUME NEW v \in MachineType, ValuesThere(v), NEW x \in Values(v)
  PROVE  x = Script \/ There(v, x)
<1>1. CASE x \in {v.stack[k] : k \in DOMAIN v.stack}
  BY <1>1 DEF ValuesThere
<1>2. CASE x \in ValuesIn(v.globals)
  <2>1. DOMAIN v.globals = Global
    BY MachineFields
  <2> QED BY <1>2, <2>1 DEF ValuesThere, ValuesIn
<1>3. CASE x \in UNION {ValuesIn(v.instances[i].fields) : i \in DOMAIN v.instances}
  <2>1. PICK i \in DOMAIN v.instances : x \in ValuesIn(v.instances[i].fields)
    BY <1>3
  <2>2. DOMAIN v.instances[i].fields = Name
    BY MachineFields, MemberFields
  <2> QED BY <2>1, <2>2 DEF ValuesThere, ValuesIn
<1> QED BY <1>1, <1>2, <1>3 DEF Values

\* OP_INHERIT.
LEMMA InheritKept == IInv /\ Inherit => Kept(vm')
<1> SUFFICES ASSUME IInv, Inherit PROVE Kept(vm')
  OBVIOUS
<1> DEFINE c == vm.body.class
<1>1. /\ vm.phase = "running" /\ vm.body # NoBody /\ vm.body.super = 0 /\ ~vm.body.methods
      /\ vm \in MachineType /\ Declares(vm) /\ Inherits(vm) /\ ValuesThere(vm)
  BY HereFacts DEF Inherit, Declaring
<1>2. /\ c # 0 /\ c = Len(vm.classes) /\ vm.classes[c].super = 0 /\ c \in DOMAIN vm.classes
      /\ vm.classes[c].own = Empty
      /\ \A i \in DOMAIN vm.instances : vm.instances[i].class \in DOMAIN vm.classes \ {c}
  <2>1. c # 0
    BY <1>1 DEF Declares
  <2> QED BY <1>1, <2>1, MachineFields DEF Declares
<1>3. PICK value \in Values(vm) \ {Class(c)} : vm' = Inherited(Counted(Pushed(vm, value), 1), value)
  BY DEF Inherit
<1> DEFINE u == Counted(Pushed(vm, value), 1)
<1>4. value = Script \/ There(vm, value)
  BY <1>1, <1>3, ValuesAreThere
<1>5. CASE value.type # "class"
  <2>1. /\ Pushed(vm, value) \in MachineType /\ SameBelow(vm, Pushed(vm, value))
        /\ Pushed(vm, value).frames = vm.frames
    BY <1>1, <1>4, PushedIs DEF There
  <2>2. u \in MachineType /\ SameBelow(Pushed(vm, value), u)
    BY <2>1, CountedIs, HereFacts, <1>1
  <2> HIDE DEF u
  <2>3. vm' = RuntimeError(u)
    BY <1>3, <1>5 DEF Inherited, u
  <2>4. SameBelow(vm, u)
    BY <2>1, <2>2 DEF SameBelow
  <2>5. Fine(vm', 0)
    BY <2>2, <2>3, <2>4, ErrorKeeps DEF IInv
  <2>6. vm'.globals = vm.globals
    BY <2>2, <2>3, <2>4, ErrorIs DEF SameBelow
  <2> QED BY <2>5, <2>6 DEF Kept
<1>6. CASE value.type = "class"
  <2> DEFINE super == value.class
             from == vm.classes[super].methods
             class == vm.classes[c]
             new == [class EXCEPT !.methods = [n \in Name |-> IF from[n] # NONE THEN from[n] ELSE class.methods[n]],
                                  !.super = super]
             classes == [vm.classes EXCEPT ![c] = new]
             body == [vm.body EXCEPT !.super = super]
  <2>1. There(vm, value) /\ value \in ClassValues
    <3>1. value # Script
      BY <1>6 DEF Script, Closure
    <3>2. There(vm, value)
      BY <1>4, <3>1
    <3> QED BY <1>6, <3>2, Kinds DEF There
  <2>2. super \in DOMAIN vm.classes /\ super # c /\ super \in 1 .. MaxClasses
    BY <1>3, <2>1, ValueFields DEF There
  <2>3. super < c /\ super \in Nat /\ c \in Nat
    <3> DEFINE h == Len(vm.classes)
    <3>1. super \in 1 .. h /\ h \in Nat /\ super # h /\ c = h
      BY <1>1, <1>2, <2>2, MachineFields
    <3> HIDE DEF h, super
    <3> QED BY <3>1
  <2>4. /\ Fine(u, 0) /\ SameBelow(vm, u) /\ Frame(u).counted = Frame(vm).counted + 1
        /\ Frame(u).function = Frame(vm).function
    BY <1>1, <2>1, HereFacts, PushStep DEF IInv, Here
  <2>5. u \in MachineType /\ u.phase = "running" /\ u.classes = vm.classes /\ u.instances = vm.instances
        /\ u.globals = vm.globals /\ u.body = vm.body
    BY <1>1, <2>4 DEF Fine, SameBelow
  <2>6. Frame(u).counted > Params(Frame(u))
    <3>1. Params(Frame(u)) = Params(Frame(vm))
      BY <2>4 DEF Params
    <3> QED BY <1>1, <2>4, <3>1, HereFacts DEF Here
  <2> HIDE DEF u, super, from, class
  <2>7. /\ vm.classes \in Seq(ClassType) /\ class \in ClassType /\ from \in [Name -> Methods \cup {NONE}]
        /\ class.methods \in [Name -> Methods \cup {NONE}] /\ class.own = Empty /\ class.super = 0
        /\ vm.body \in [class : 0 .. MaxClasses, super : 0 .. MaxClasses, methods : BOOLEAN]
        /\ super \in 0 .. MaxClasses /\ DOMAIN vm.classes = 1 .. Len(vm.classes)
    <3>1. vm.classes[super] \in ClassType /\ vm.classes[c] \in ClassType
      BY <1>1, <1>2, <2>2, MachineFields
    <3>2. super \in 0 .. MaxClasses
      BY <2>2, MachineAssumption
    <3> QED BY <1>1, <1>2, <3>1, <3>2, MachineFields, MemberFields DEF from, class
  <2>8. \A n \in Name : class.methods[n] = NONE /\ class.own[n] = NONE
    BY <1>1, <1>2, <2>7 DEF Inherits, class, Empty
  <2>9. /\ new \in ClassType /\ new.super = super /\ new.own = class.own
        /\ \A n \in Name : new.methods[n] = from[n]
    BY <2>7, <2>8 DEF ClassType
  <2>10. vm' = [u EXCEPT !.classes = classes, !.body = body]
    <3>1. vm' = Inherited(u, value)
      BY <1>3 DEF u
    <3>2. u.classes[value.class].methods = from /\ u.body.class = c
      BY <2>5 DEF from, super
    <3>3. Inherited(u, value) =
            [u EXCEPT !.classes[c].methods = [n \in Name |-> IF from[n] # NONE THEN from[n] ELSE @[n]],
                      !.classes[c].super = super, !.body.super = super]
      BY <1>6, <3>2 DEF Inherited, super
    <3>4. [[vm.classes EXCEPT ![c].methods = [n \in Name |-> IF from[n] # NONE THEN from[n] ELSE @[n]]]
             EXCEPT ![c].super = super] = classes
      BY <1>2, <2>7 DEF class
    <3> HIDE DEF new, classes
    <3> QED BY <2>5, <3>1, <3>3, <3>4 DEF MachineType
  <2> HIDE DEF new
  <2>11. /\ classes \in Seq(ClassType) /\ Len(classes) = Len(vm.classes) /\ DOMAIN classes = DOMAIN vm.classes
         /\ classes[c] = new /\ \A d \in DOMAIN vm.classes : d # c => classes[d] = vm.classes[d]
    BY <1>2, <2>7, <2>9
  <2>12. /\ body \in [class : 0 .. MaxClasses, super : 0 .. MaxClasses, methods : BOOLEAN]
         /\ body.class = c /\ body.super = super
    BY <2>7
  <2> HIDE DEF classes, body, c
  <2>13. /\ vm' \in MachineType /\ vm'.phase = "running" /\ vm'.stack = u.stack /\ vm'.frames = u.frames
         /\ vm'.classes = classes /\ vm'.instances = vm.instances /\ vm'.globals = vm.globals
         /\ vm'.body = body
    BY <2>5, <2>10, <2>11, <2>12 DEF MachineType
  <2>14. Declares(vm')
    <3>1. Frame(vm') = Frame(u)
      BY <2>13 DEF Frame
    <3>2. classes[c].own = Empty /\ classes[c].super = super
      BY <2>7, <2>9, <2>11
    <3> QED BY <1>2, <2>6, <2>11, <2>12, <2>13, <3>1, <3>2 DEF Declares
  <2>15. Inherits(vm')
    <3>1. Len(classes) <= MaxClasses /\ Len(vm.instances) <= MaxInstances
      BY <1>1, <2>11 DEF Inherits
    <3>2. ASSUME NEW d \in DOMAIN classes, NEW n \in Name
          PROVE  /\ classes[d].super < d
                 /\ classes[d].own[n] # NONE => /\ MethodName[classes[d].own[n].function] = n
                                                /\ classes[d].own[n].super = classes[d].super
                 /\ classes[d].methods[n] = IF classes[d].own[n] # NONE THEN classes[d].own[n]
                                            ELSE IF classes[d].super = 0 THEN NONE
                                            ELSE classes[classes[d].super].methods[n]
      <4>1. CASE d # c
        <5>1. d \in DOMAIN vm.classes /\ classes[d] = vm.classes[d]
          BY <2>11, <4>1
        <5>2. /\ vm.classes[d].super < d
              /\ vm.classes[d].own[n] # NONE => /\ MethodName[vm.classes[d].own[n].function] = n
                                                /\ vm.classes[d].own[n].super = vm.classes[d].super
              /\ vm.classes[d].methods[n] = IF vm.classes[d].own[n] # NONE THEN vm.classes[d].own[n]
                                            ELSE IF vm.classes[d].super = 0 THEN NONE
                                            ELSE vm.classes[vm.classes[d].super].methods[n]
          BY <1>1, <5>1 DEF Inherits
        <5>3. vm.classes[d].super # 0 =>
                vm.classes[d].super \in DOMAIN vm.classes /\ vm.classes[d].super # c
          <6> SUFFICES ASSUME vm.classes[d].super # 0
                       PROVE  vm.classes[d].super \in DOMAIN vm.classes /\ vm.classes[d].super # c
            OBVIOUS
          <6> DEFINE e == vm.classes[d].super
                     h == Len(vm.classes)
          <6>1. e \in DOMAIN vm.classes /\ e \in 1 .. d - 1 /\ d \in 1 .. h /\ h \in Nat /\ c = h
            BY <1>1, <1>2, <5>1, ClassFields, MachineFields
          <6> HIDE DEF e, h
          <6>2. e # c
            BY <6>1
          <6> QED BY <6>1, <6>2 DEF e
        <5>4. vm.classes[d].super # 0 => classes[vm.classes[d].super] = vm.classes[vm.classes[d].super]
          BY <2>11, <5>3
        <5> QED BY <5>1, <5>2, <5>4
      <4>2. CASE d = c
        <5>1. classes[d] = new /\ classes[super] = vm.classes[super]
          BY <2>2, <2>11, <4>2
        <5>2. new.own[n] = NONE /\ new.methods[n] = vm.classes[super].methods[n] /\ new.super = super /\ super # 0
          BY <2>2, <2>7, <2>8, <2>9 DEF from
        <5> QED BY <2>3, <4>2, <5>1, <5>2
      <4> QED BY <4>1, <4>2
    <3> QED BY <2>13, <3>1, <3>2 DEF Inherits
  <2>16. Fine(vm', 0)
    BY <2>4, <2>5, <2>11, <2>13, <2>14, <2>15, TablesStep DEF c
  <2> QED BY <2>13, <2>16 DEF Kept
<1> QED BY <1>5, <1>6

\* The end of a class declaration: its superclass, if any, is popped.
LEMMA EndClassKept == IInv /\ EndClass => Kept(vm')
<1> SUFFICES ASSUME IInv, EndClass PROVE Kept(vm')
  OBVIOUS
<1>1. /\ vm.phase = "running" /\ vm \in MachineType /\ vm.body # NoBody
      /\ vm' = [(IF vm.body.super = 0 THEN vm ELSE Counted(Popped(vm, 1), -1)) EXCEPT !.body = NoBody]
      /\ Declares(vm) /\ Inherits(vm)
  BY HereFacts DEF EndClass, Declaring
<1>2. NoBody \in [class : 0 .. MaxClasses, super : 0 .. MaxClasses, methods : BOOLEAN] /\ NoBody.class = 0
  BY MachineAssumption DEF NoBody
<1>3. CASE vm.body.super = 0
  <2>1. vm' = [vm EXCEPT !.body = NoBody]
    BY <1>1, <1>3
  <2>2. /\ vm' \in MachineType /\ vm'.phase = "running" /\ vm'.stack = vm.stack /\ vm'.frames = vm.frames
        /\ vm'.classes = vm.classes /\ vm'.instances = vm.instances /\ vm'.globals = vm.globals
        /\ vm'.body = NoBody
    BY <1>1, <1>2, <2>1 DEF MachineType
  <2>3. Inherits(vm')
    BY <1>1, <2>2 DEF Inherits
  <2>4. Declares(vm')
    <3>1. \A i \in DOMAIN vm.instances : vm.instances[i].class \in DOMAIN vm.classes /\ vm.instances[i].class # 0
      BY <1>1, MachineFields, MemberFields DEF Declares
    <3> QED BY <1>2, <2>2, <3>1 DEF Declares
  <2>5. Fine(vm', 0)
    BY <1>1, <2>2, <2>3, <2>4, TablesStep DEF IInv
  <2> QED BY <2>2, <2>5 DEF Kept
<1>4. CASE vm.body.super # 0
  <2> DEFINE t == Popped(vm, 1)
             less == -1
             u == Counted(t, less)
  <2>1. vm' = [u EXCEPT !.body = NoBody]
    BY <1>1, <1>4
  <2>2. /\ Frame(vm).counted > Params(Frame(vm)) /\ Params(Frame(vm)) \in Nat /\ Frame(vm).counted \in Nat
        /\ Height(vm) \in Nat /\ 1 \in 0 .. Height(vm) /\ vm.frames # <<>>
    <3>1. vm.body.class # 0
      BY <1>1, <1>4 DEF Declares, NoBody
    <3>2. Frame(vm).counted > Params(Frame(vm))
      BY <1>1, <1>4, <3>1 DEF Declares
    <3>3. Here.slots \in Nat /\ Here.counted \in Nat /\ Height(vm) = Here.slots + Here.counted
          /\ Params(Here) \in Nat \ {0} /\ vm.frames # <<>> /\ Here.counted >= Params(Here)
      BY <1>1, HereFacts
    <3> DEFINE a == Here.slots
               b == Here.counted
               p == Params(Here)
    <3>4. a \in Nat /\ b \in Nat /\ p \in Nat \ {0} /\ b >= p
      BY <3>3
    <3> HIDE DEF a, b, p
    <3>5. a + b \in Nat /\ 1 \in 0 .. a + b
      BY <3>4
    <3> QED BY <3>2, <3>3, <3>5 DEF Here, a, b
  <2>3. t \in MachineType /\ SameBelow(vm, t) /\ t.frames = vm.frames
    BY <1>1, <2>2, PoppedIs
  <2>4. less \in Int
    OBVIOUS
  <2> HIDE DEF t, less
  <2>5. u \in MachineType /\ SameBelow(t, u)
    BY <2>2, <2>3, <2>4, CountedIs
  <2> HIDE DEF u
  <2>6. /\ vm' \in MachineType /\ vm'.stack = u.stack /\ vm'.frames = u.frames /\ vm'.phase = u.phase
        /\ vm'.classes = u.classes /\ vm'.instances = u.instances /\ vm'.globals = u.globals
        /\ vm'.body = NoBody
    BY <1>2, <2>1, <2>5 DEF MachineType
  <2>7. u = Counted(Popped(vm, 1), -1)
    BY DEF u, t, less
  <2>8. Frame(vm).counted - 1 >= Params(Frame(vm))
    BY <2>2
  <2>9. Fine(vm', 0)
    BY <1>1, <2>6, <2>7, <2>8, PopStep DEF IInv
  <2>10. vm'.phase = "running"
    BY <1>1, <2>3, <2>5, <2>6 DEF SameBelow
  <2> QED BY <2>9, <2>10 DEF Kept
<1> QED BY <1>3, <1>4

-----------------------------------------------------------------------------
(* The invariant.                                                          *)

\* initVM leaves a machine that rests, with the natives in its globals.
LEMMA InitFine == Init => IInv
<1> SUFFICES ASSUME Init PROVE Fine(vm, 0)
  BY DEF IInv
<1>1. /\ vm.phase = "ready" /\ vm.stack = <<>> /\ vm.frames = <<>> /\ vm.classes = <<>>
      /\ vm.instances = <<>> /\ vm.body = NoBody
      /\ vm.globals = [n \in Global |-> IF n \in Natives THEN Native ELSE NONE]
  BY DEF Init
<1>2. Native \in PlainValues /\ There(vm, Native)
  <2>1. Native \in PlainValues
    BY DEF PlainValues
  <2> QED BY <2>1, ValueFields, Kinds DEF There, AnyValue
<1>3. vm \in MachineType
  <2>1. NoBody \in [class : 0 .. MaxClasses, super : 0 .. MaxClasses, methods : BOOLEAN]
    BY MachineAssumption DEF NoBody
  <2>2. [n \in Global |-> IF n \in Natives THEN Native ELSE NONE] \in [Global -> AnyValue \cup {NONE}]
    BY <1>2 DEF AnyValue
  <2>3. /\ <<>> \in Seq(AnyValue \cup {Script}) /\ <<>> \in Seq(FrameType) /\ <<>> \in Seq(ClassType)
        /\ <<>> \in Seq(InstanceType)
    OBVIOUS
  <2> QED BY <2>1, <2>2, <2>3 DEF Init, MachineType
<1>4. HeightsFit(vm, 0)
  BY <1>1, MachineAssumption DEF HeightsFit
<1>5. Declares(vm) /\ Inherits(vm)
  BY <1>1, MachineAssumption DEF Declares, Inherits, NoBody
<1>6. ValuesThere(vm)
  BY <1>1, <1>2 DEF ValuesThere
<1>7. FramesRun(vm)
  BY <1>1 DEF FramesRun
<1> QED BY <1>3, <1>4, <1>5, <1>6, <1>7 DEF Fine

\* Every instruction keeps the invariant, and leaves the globals alone when it fails.
LEMMA NextKept == IInv /\ Next => Kept(vm')
<1> SUFFICES ASSUME IInv, Next PROVE Kept(vm')
  OBVIOUS
<1>1. CASE Globals
  BY <1>1, GetGlobalKept, DefineGlobalKept, SetGlobalKept DEF Globals
<1>2. CASE Properties
  BY <1>2, PropertyKept, SetPropertyKept, GetSuperKept DEF Properties
<1>3. CASE Calls
  <2>1. 0 .. MaxArguments \subseteq Nat
    BY MachineAssumption
  <2> QED BY <1>3, <2>1, CallKept, InvokeKept, SuperInvokeKept DEF Calls
<1>4. CASE Interpret \/ MakeClosure \/ Pop \/ GetLocal \/ SetLocal
  BY <1>4, InterpretKept, MakeClosureKept, PopKept, GetLocalKept, SetLocalKept
<1>5. CASE SubscriptInstruction \/ Return \/ ClassInstruction \/ Inherit \/ Method \/ EndClass
  BY <1>5, SubscriptKept, ReturnKept, ClassInstructionKept, InheritKept, MethodKept, EndClassKept
<1> QED BY <1>1, <1>2, <1>3, <1>4, <1>5 DEF Next

\* The machine is always one the code could be in: IInv is inductive.
THEOREM Invariance == Spec => []IInv
<1>1. IInv /\ [Next]_vm => IInv'
  <2> SUFFICES ASSUME IInv, [Next]_vm PROVE IInv'
    OBVIOUS
  <2>1. CASE Next
    BY <2>1, NextKept DEF Kept, IInv
  <2>2. CASE UNCHANGED vm
    BY <2>2 DEF IInv
  <2> QED BY <2>1, <2>2
<1> QED BY InitFine, <1>1, PTL DEF Spec

\* runtimeError and resetStack (vm.c): whatever fails, the globals are what they were; an assignment
\* to a name nobody declared deletes it again.
THEOREM ErrorsKeepGlobals == Spec => ErrorsLeaveNothing
<1>1. IInv /\ [Next]_vm =>
        [vm.phase = "running" /\ vm'.phase = "failed" => vm'.globals = vm.globals]_vm
  <2> SUFFICES ASSUME IInv, Next PROVE vm'.phase = "failed" => vm'.globals = vm.globals
    OBVIOUS
  <2> QED BY NextKept DEF Kept
<1> QED BY Invariance, <1>1, PTL DEF Spec, ErrorsLeaveNothing

\* The frames have room, and classes inherit from those declared before.
LEMMA TypeCorrectHere == IInv => TypeOK
<1> SUFFICES ASSUME IInv PROVE TypeOK
  OBVIOUS
<1>1. /\ vm \in MachineType /\ HeightsFit(vm, 0) /\ Declares(vm) /\ Inherits(vm)
  BY DEF IInv, Fine
<1>2. vm.body.class \in Classes \cup {0} /\ vm.body.super \in Classes \cup {0}
  <2>1. CASE vm.body.class = 0
    BY <1>1, <2>1 DEF Declares, NoBody
  <2>2. CASE vm.body.class # 0
    <3>1. vm.body.class \in Classes
      BY <1>1, <2>2, MachineFields DEF Declares, Classes
    <3> QED BY <1>1, <2>2, <3>1, ClassFields DEF Declares, Classes
  <2> QED BY <2>1, <2>2
<1>3. \A c \in Classes : vm.classes[c].super < c
  <2>1. PICK n : n \in Name
    BY MachineAssumption
  <2> QED BY <1>1, <2>1 DEF Inherits, Classes
<1> QED BY <1>1, <1>2, <1>3, MachineFields DEF TypeOK, HeightsFit, Declares, Classes

\* call (vm.c): the array of frames is never overrun; a class inherits from an earlier one, and what
\* refers to a class refers to one that is there.
THEOREM TypeCorrect == Spec => []TypeOK
BY Invariance, TypeCorrectHere, PTL

\* call and OP_RETURN (vm.c) leave every frame the values the compiler has counted for it.
THEOREM CountsAgree == Spec => []HeightsAsCounted
<1>1. IInv => HeightsAsCounted
  <2> SUFFICES ASSUME IInv PROVE HeightsAsCounted
    OBVIOUS
  <2>1. HeightsFit(vm, 0) /\ Height(vm) - 0 = Height(vm)
    BY MachineFields DEF IInv, Fine
  <2>2. \A k \in DOMAIN vm.frames :
          vm.frames[k].slots + vm.frames[k].counted
            = IF k = Len(vm.frames) THEN Height(vm) ELSE vm.frames[k + 1].slots + 1
    BY <2>1 DEF HeightsFit, End
  <2>3. /\ vm.phase # "running" => vm.stack = <<>> /\ vm.frames = <<>>
        /\ vm.phase = "running" => vm.frames # <<>> /\ vm.frames[1].slots = 0
    BY <2>1 DEF HeightsFit
  <2> QED BY <2>2, <2>3 DEF HeightsAsCounted
<1> QED BY Invariance, <1>1, PTL

-----------------------------------------------------------------------------
(* Methods are those the declarations mean.                                *)

\* A class is above itself, and so is what is above its superclass; nothing else is.
LEMMA AboveUnfolds ==
  ASSUME NEW classes, NEW c \in Nat \ {0}, Supers(classes, c)
  PROVE  Above(classes, c) = {c} \cup IF classes[c].super = 0 THEN {} ELSE Above(classes, classes[c].super)
<1> DEFINE s == classes[c].super
           S == {c} \cup IF s = 0 THEN {} ELSE Above(classes, s)
<1>1. s \in 0 .. c - 1 /\ c \in 1 .. c
  BY DEF Supers
<1>2. s # 0 => s \in 1 .. c - 1 /\ s \in Nat \ {0} /\ Supers(classes, s) /\ Above(classes, s) \subseteq 1 .. s
  BY <1>1 DEF Supers, Above
<1>3. S \subseteq Above(classes, c)
  BY <1>1, <1>2, AboveClosed
<1>4. S \in SUBSET (1 .. c) /\ c \in S
  BY <1>1, <1>2
<1>5. \A e \in S : classes[e].super # 0 => classes[e].super \in S
  <2> SUFFICES ASSUME NEW e \in S, classes[e].super # 0 PROVE classes[e].super \in S
    OBVIOUS
  <2>1. CASE e = c
    BY <1>2, <2>1, AboveClosed
  <2>2. CASE e # c
    BY <1>2, <2>2, AboveClosed
  <2> QED BY <2>1, <2>2
<1> HIDE DEF S
<1>6. Above(classes, c) \subseteq S
  BY <1>4, <1>5 DEF Above
<1> QED BY <1>3, <1>6 DEF S

\* The recursive Chain of the property is the invariant's Above.
LEMMA ChainIsAbove ==
  ASSUME IInv
  PROVE  \A c \in Classes : c \in 0 .. MaxClasses /\ Chain[c] = Above(vm.classes, c)
<1>1. vm \in MachineType /\ Inherits(vm) /\ MaxClasses \in Nat
  BY MachineAssumption DEF IInv, Fine
<1>2. \A c \in Classes : /\ c \in 0 .. MaxClasses /\ c \in Nat \ {0} /\ Supers(vm.classes, c)
                         /\ vm.classes[c].super \in 0 .. c - 1
                         /\ vm.classes[c].super # 0 => vm.classes[c].super \in Classes
  <2> SUFFICES ASSUME NEW c \in Classes
               PROVE  /\ c \in 0 .. MaxClasses /\ c \in Nat \ {0} /\ Supers(vm.classes, c)
                      /\ vm.classes[c].super \in 0 .. c - 1
                      /\ vm.classes[c].super # 0 => vm.classes[c].super \in Classes
    OBVIOUS
  <2>1. /\ c \in Nat \ {0} /\ c \in 1 .. MaxClasses /\ Supers(vm.classes, c)
        /\ vm.classes[c].super # 0 => vm.classes[c].super \in Classes
    BY <1>1, ClassFields DEF Classes
  <2>2. vm.classes[c].super \in 0 .. c - 1
    BY <2>1 DEF Supers
  <2> QED BY <1>1, <2>1, <2>2
<1>3. 0 \notin Classes
  BY <1>1, MachineFields DEF Classes
<1> DEFINE Body(f) == [c \in 0 .. MaxClasses |->
                         IF c \notin Classes THEN {} ELSE {c} \cup f[vm.classes[c].super]]
           above == [c \in 0 .. MaxClasses |-> IF c \notin Classes THEN {} ELSE Above(vm.classes, c)]
<1>4. above = Body(above)
  <2> SUFFICES ASSUME NEW c \in 0 .. MaxClasses PROVE above[c] = Body(above)[c]
    OBVIOUS
  <2>1. CASE c \notin Classes
    BY <2>1
  <2>2. CASE c \in Classes
    <3> DEFINE s == vm.classes[c].super
    <3>1. s \in 0 .. MaxClasses /\ s \in 0 .. c - 1
      BY <1>1, <1>2, <2>2
    <3>2. Above(vm.classes, c) = {c} \cup IF s = 0 THEN {} ELSE Above(vm.classes, s)
      BY <1>2, <2>2, AboveUnfolds
    <3>3. above[s] = IF s = 0 THEN {} ELSE Above(vm.classes, s)
      BY <1>2, <1>3, <2>2, <3>1
    <3> QED BY <2>2, <3>2, <3>3
  <2> QED BY <2>1, <2>2
<1>5. Chain = CHOOSE f : f = Body(f)
  BY DEF Chain
<1>6. Chain = Body(Chain)
  <2>1. \E f : f = Body(f)
    BY <1>4
  <2> HIDE DEF Body
  <2> QED BY <1>5, <2>1
<1>7. \A c \in 0 .. MaxClasses : Chain[c] = above[c]
  <2> DEFINE T == {c \in 0 .. MaxClasses : Chain[c] # above[c]}
  <2> SUFFICES ASSUME T # {} PROVE FALSE
    OBVIOUS
  <2>1. T \in SUBSET Nat
    BY <1>1
  <2> HIDE DEF T
  <2>2. PICK c \in T : \A d \in T : c <= d
    BY <2>1, LeastNat
  <2>3. c \in 0 .. MaxClasses /\ Chain[c] # above[c]
    BY <2>2 DEF T
  <2>4. above[c] = Body(above)[c] /\ Chain[c] = Body(Chain)[c]
    BY <1>4, <1>6
  <2>5. c \in Classes
    BY <2>3, <2>4
  <2>6. vm.classes[c].super \in 0 .. MaxClasses /\ ~(c <= vm.classes[c].super)
    BY <1>1, <1>2, <2>3, <2>5
  <2>7. Chain[vm.classes[c].super] = above[vm.classes[c].super]
    BY <2>2, <2>6 DEF T
  <2>8. Body(above)[c] = Body(Chain)[c]
    BY <2>3, <2>7
  <2> QED BY <2>3, <2>4, <2>8
<1> QED BY <1>2, <1>7

\* call, bindMethod and invokeFromClass (vm.c): a method that runs has an instance that understands
\* it in slot 0.
THEOREM MethodsUnderstood == Spec => []ThisUnderstands
<1>1. IInv => ThisUnderstands
  <2> SUFFICES ASSUME IInv, NEW k \in DOMAIN vm.frames,
                      vm.frames[k].function # NONE, MethodName[vm.frames[k].function] # NONE
               PROVE  LET f == vm.frames[k].function
                          this == vm.stack[vm.frames[k].slots + 1]
                      IN  /\ this.type = "instance"
                          /\ \E c \in Chain[vm.instances[this.instance].class] :
                               LET method == vm.classes[c].own[MethodName[f]]
                               IN  method # NONE /\ method.function = f
    BY DEF ThisUnderstands
  <2> DEFINE frame == vm.frames[k]
             this == vm.stack[frame.slots + 1]
             m == Closure(frame.function, frame.super)
  <2>1. /\ vm \in MachineType /\ Inherits(vm) /\ Declares(vm) /\ FramesRun(vm)
    BY DEF IInv, Fine
  <2>2. frame \in FrameType
    BY <2>1, MachineFields
  <2>3. /\ frame.function \in Function \ Plain /\ frame.super \in 0 .. MaxClasses
    BY <2>2, MemberFields DEF Plain
  <2>4. k > 1
    <3>1. k # 1 /\ k \in 1 .. Len(vm.frames) /\ Len(vm.frames) \in Nat
      BY <2>1, MachineFields DEF FramesRun
    <3> QED BY <3>1
  <2>5. this \in InstanceValues /\ this.instance \in DOMAIN vm.instances
    BY <2>3, <2>4, SlotThere DEF IInv
  <2>6. Understands(vm, this.instance, m)
    BY <2>1, <2>3, <2>4 DEF FramesRun
  <2>7. m \in Methods /\ m.function = frame.function /\ m # NONE
    <3>1. m \in Methods
      BY <2>3 DEF Methods
    <3> QED BY <3>1, MethodFields DEF Closure
  <2> HIDE DEF m
  <2>8. PICK c \in Above(vm.classes, vm.instances[this.instance].class) :
          vm.classes[c].own[MethodName[m.function]] = m
    BY <2>6 DEF Understands
  <2>9. Chain[vm.instances[this.instance].class] = Above(vm.classes, vm.instances[this.instance].class)
    BY <2>1, <2>5, InstanceClass, ChainIsAbove DEF Classes
  <2>10. this.type = "instance"
    BY <2>5, ValueFields
  <2> QED BY <2>7, <2>8, <2>9, <2>10
<1> QED BY Invariance, <1>1, PTL

\* What the declarations mean a class to answer is in its table.
LEMMA MeantIsTable ==
  ASSUME IInv, NEW name \in Name
  PROVE  \A c \in Classes : Meant(name)[c] = vm.classes[c].methods[name]
<1>1. vm \in MachineType /\ Inherits(vm) /\ MaxClasses \in Nat
  BY MachineAssumption DEF IInv, Fine
<1>2. \A c \in Classes : /\ c \in 0 .. MaxClasses /\ c \in Nat
                         /\ vm.classes[c].super \in 0 .. c - 1 /\ vm.classes[c].super \in 0 .. MaxClasses
                         /\ vm.classes[c].super # 0 => vm.classes[c].super \in Classes
  <2> SUFFICES ASSUME NEW c \in Classes
               PROVE  /\ c \in 0 .. MaxClasses /\ c \in Nat
                      /\ vm.classes[c].super \in 0 .. c - 1 /\ vm.classes[c].super \in 0 .. MaxClasses
                      /\ vm.classes[c].super # 0 => vm.classes[c].super \in Classes
    OBVIOUS
  <2>1. /\ c \in Nat \ {0} /\ c \in 1 .. MaxClasses /\ Supers(vm.classes, c)
        /\ vm.classes[c].super # 0 => vm.classes[c].super \in Classes
    BY <1>1, ClassFields DEF Classes
  <2>2. vm.classes[c].super \in 0 .. c - 1
    BY <2>1 DEF Supers
  <2> QED BY <1>1, <2>1, <2>2
<1>3. 0 \notin Classes
  BY <1>1, MachineFields DEF Classes
<1> DEFINE Body(f) == [c \in 0 .. MaxClasses |->
                         IF c \notin Classes THEN NONE
                         ELSE IF vm.classes[c].own[name] # NONE THEN vm.classes[c].own[name]
                         ELSE f[vm.classes[c].super]]
           table == [c \in 0 .. MaxClasses |-> IF c \notin Classes THEN NONE ELSE vm.classes[c].methods[name]]
<1>4. table = Body(table)
  <2> SUFFICES ASSUME NEW c \in 0 .. MaxClasses PROVE table[c] = Body(table)[c]
    OBVIOUS
  <2>1. CASE c \notin Classes
    BY <2>1
  <2>2. CASE c \in Classes
    <3> DEFINE s == vm.classes[c].super
    <3>1. vm.classes[c].methods[name] =
            IF vm.classes[c].own[name] # NONE THEN vm.classes[c].own[name]
            ELSE IF s = 0 THEN NONE ELSE vm.classes[s].methods[name]
      BY <1>1, <2>2 DEF Inherits, Classes
    <3>2. table[s] = IF s = 0 THEN NONE ELSE vm.classes[s].methods[name]
      BY <1>2, <1>3, <2>2
    <3> QED BY <2>2, <3>1, <3>2
  <2> QED BY <2>1, <2>2
<1>5. Meant(name) = CHOOSE f : f = Body(f)
  BY DEF Meant
<1> DEFINE look == Meant(name)
<1>6. look = Body(look)
  <2>1. \E f : f = Body(f)
    BY <1>4
  <2> HIDE DEF Body
  <2> QED BY <1>5, <2>1
<1> HIDE DEF look
<1>7. \A c \in 0 .. MaxClasses : look[c] = table[c]
  <2> DEFINE T == {c \in 0 .. MaxClasses : look[c] # table[c]}
  <2> SUFFICES ASSUME T # {} PROVE FALSE
    OBVIOUS
  <2>1. T \in SUBSET Nat
    BY <1>1
  <2> HIDE DEF T
  <2>2. PICK c \in T : \A d \in T : c <= d
    BY <2>1, LeastNat
  <2>3. c \in 0 .. MaxClasses /\ look[c] # table[c]
    BY <2>2 DEF T
  <2>4. table[c] = Body(table)[c] /\ look[c] = Body(look)[c]
    BY <1>4, <1>6
  <2>5. c \in Classes
    BY <2>3, <2>4
  <2>6. vm.classes[c].super \in 0 .. MaxClasses /\ ~(c <= vm.classes[c].super)
    BY <1>1, <1>2, <2>3, <2>5
  <2>7. look[vm.classes[c].super] = table[vm.classes[c].super]
    BY <2>2, <2>6 DEF T
  <2>8. Body(table)[c] = Body(look)[c]
    BY <2>3, <2>7
  <2> QED BY <2>3, <2>4, <2>8
<1> QED BY <1>2, <1>7 DEF look

\* Put, and what was there put back.
LEMMA PutBack ==
  ASSUME NEW v \in MachineType, NEW d \in 0 .. Height(v) - 1, NEW x
  PROVE  Put(Put(v, d, x), d, Peek(v, d)) = v
<1> DEFINE k == Height(v) - d
           s == [v.stack EXCEPT ![k] = x]
<1>1. v.stack \in Seq(AnyValue \cup {Script}) /\ Height(v) \in Nat /\ DOMAIN v.stack = 1 .. Height(v)
  BY MachineFields
<1>2. k \in DOMAIN v.stack
  <2> DEFINE h == Height(v)
  <2>1. h \in Nat /\ d \in 0 .. h - 1
    BY <1>1
  <2> HIDE DEF h
  <2>2. h - d \in 1 .. h
    BY <2>1
  <2> QED BY <1>1, <2>2 DEF h
<1>3. Put(v, d, x) = [v EXCEPT !.stack = s]
  BY DEF Put, MachineType
<1>4. Len(s) = Height(v)
  <2> DEFINE S == AnyValue \cup {Script} \cup {x}
  <2>1. v.stack \in Seq(S) /\ x \in S /\ k \in 1 .. Len(v.stack)
    BY <1>1, <1>2, SeqMonotonic DEF Height
  <2> HIDE DEF S, k
  <2> QED BY <2>1, ExceptSeq DEF Height
<1> DEFINE w == [v EXCEPT !.stack = s]
<1>5. w.stack = s /\ Height(w) = Height(v)
  BY <1>4 DEF MachineType, Height
<1>6. [s EXCEPT ![k] = v.stack[k]] = v.stack
  BY <1>1, <1>2
<1>7. Put(w, d, v.stack[k]) = [w EXCEPT !.stack = [s EXCEPT ![k] = v.stack[k]]]
  <2> HIDE DEF w, s
  <2>1. Put(w, d, v.stack[k]) = [w EXCEPT !.stack[k] = v.stack[k]]
    BY <1>5 DEF Put
  <2>2. [w EXCEPT !.stack[k] = v.stack[k]] = [w EXCEPT !.stack = [w.stack EXCEPT ![k] = v.stack[k]]]
    BY DEF w, MachineType
  <2> QED BY <1>5, <2>1, <2>2
<1> HIDE DEF s
<1>8. [w EXCEPT !.stack = v.stack] = v
  BY DEF MachineType
<1> QED BY <1>3, <1>6, <1>7, <1>8 DEF Peek

\* One value popped and one pushed are one put in its place.
LEMMA ReplacedIsPut ==
  ASSUME NEW v \in MachineType, Height(v) # 0, NEW x
  PROVE  Pushed(Popped(v, 1), x) = Put(v, 0, x)
<1> DEFINE h == Height(v)
           S == AnyValue \cup {Script} \cup {x}
           a == Append(SubSeq(v.stack, 1, h - 1), x)
           b == [v.stack EXCEPT ![h] = x]
<1>1. v.stack \in Seq(S) /\ x \in S /\ h \in Nat \ {0} /\ Len(v.stack) = h
  <2>1. v.stack \in Seq(AnyValue \cup {Script}) /\ Height(v) \in Nat
    BY MachineFields
  <2> QED BY <2>1, SeqMonotonic DEF Height
<1> HIDE DEF S, h
<1>2. /\ SubSeq(v.stack, 1, h - 1) \in Seq(S) /\ Len(SubSeq(v.stack, 1, h - 1)) = h - 1
      /\ \A k \in 1 .. h - 1 : SubSeq(v.stack, 1, h - 1)[k] = v.stack[k]
  <2>1. 1 \in 1 .. Len(v.stack) + 1 /\ h - 1 \in 0 .. Len(v.stack) /\ h - 1 \in Nat
    BY <1>1
  <2> QED BY <1>1, <2>1
<1>3. a \in Seq(S) /\ Len(a) = h /\ \A k \in 1 .. h : a[k] = IF k = h THEN x ELSE v.stack[k]
  <2> DEFINE s == SubSeq(v.stack, 1, h - 1)
  <2>1. s \in Seq(S) /\ Len(s) = h - 1 /\ \A k \in 1 .. h - 1 : s[k] = v.stack[k]
    BY <1>2
  <2> HIDE DEF s
  <2>2. /\ Append(s, x) \in Seq(S) /\ Len(Append(s, x)) = Len(s) + 1
        /\ \A k \in 1 .. Len(s) : Append(s, x)[k] = s[k]
        /\ Append(s, x)[Len(s) + 1] = x
    BY <1>1, <2>1, AppendProperties
  <2>3. \A k \in 1 .. h : Append(s, x)[k] = IF k = h THEN x ELSE v.stack[k]
    BY <1>1, <2>1, <2>2
  <2>4. Len(Append(s, x)) = h
    BY <1>1, <2>1, <2>2
  <2> QED BY <2>2, <2>3, <2>4 DEF s
<1>4. b \in Seq(S) /\ Len(b) = h /\ \A k \in 1 .. h : b[k] = IF k = h THEN x ELSE v.stack[k]
  <2>1. h \in 1 .. Len(v.stack)
    BY <1>1
  <2> QED BY <1>1, <2>1, ExceptSeq
<1> HIDE DEF a, b
<1>5. a = b
  BY <1>3, <1>4, SeqEqual
<1>6. Pushed(Popped(v, 1), x) = [v EXCEPT !.stack = a]
  BY DEF Pushed, Popped, MachineType, a, h
<1>7. Put(v, 0, x) = [v EXCEPT !.stack = b]
  <2>1. Height(v) - 0 = h
    BY <1>1 DEF h
  <2> QED BY <2>1 DEF Put, MachineType, b
<1> QED BY <1>5, <1>6, <1>7

\* A method that is bound and called at once is called with its receiver where it was.
LEMMA BoundAndCalled ==
  ASSUME vm \in MachineType, NEW n \in 0 .. Height(vm) - 1, NEW i \in 1 .. MaxInstances,
         Peek(vm, n) = Instance(i), NEW m \in Methods
  PROVE  Bound(i, m) # NONE /\ CalledWith(Bound(i, m), n) = Call(vm, m, n)
<1>1. m \in Closures
  BY MethodFields
<1>2. Bound(i, m) # NONE
  BY <1>1, MachineAssumption DEF Bounds
<1>3. Put(Put(vm, n, Bound(i, m)), n, Instance(i)) = vm
  BY PutBack
<1>4. Bound(i, m).type = "bound" /\ Bound(i, m).receiver = i /\ Bound(i, m).method = m
  BY DEF Bound
<1>5. CalledWith(Bound(i, m), n) = CallValue(Put(vm, n, Bound(i, m)), Bound(i, m), n)
  BY <1>2 DEF CalledWith
<1> HIDE DEF Bound
<1>6. CalledWith(Bound(i, m), n) = CallBound(Put(vm, n, Bound(i, m)), Bound(i, m), n)
  BY <1>4, <1>5 DEF CallValue
<1> QED BY <1>2, <1>3, <1>4, <1>6 DEF CallBound

\* invokeFromClass is bindMethod and a call, for any class whose table this is.
LEMMA FromClassIsBound ==
  ASSUME vm \in MachineType, Inherits(vm), NEW n \in 0 .. Height(vm) - 1, NEW i \in 1 .. MaxInstances,
         Peek(vm, n) = Instance(i), NEW c \in DOMAIN vm.classes, NEW name \in Name
  PROVE  LET m == vm.classes[c].methods[name] IN
         InvokeFromClass(vm, c, name, n) = CalledWith(IF m = NONE THEN NONE ELSE Bound(i, m), n)
<1> DEFINE m == vm.classes[c].methods[name]
<1>1. m \in Methods \cup {NONE}
  BY ClassFields
<1>2. CASE m = NONE
  BY <1>2 DEF InvokeFromClass, CalledWith
<1>3. CASE m # NONE
  <2>1. InvokeFromClass(vm, c, name, n) = Call(vm, m, n)
    BY <1>3 DEF InvokeFromClass
  <2> HIDE DEF m
  <2>2. CalledWith(Bound(i, m), n) = Call(vm, m, n)
    BY <1>1, <1>3, BoundAndCalled
  <2> QED BY <1>3, <2>1, <2>2 DEF m
<1> QED BY <1>2, <1>3

\* What an instance answers is its field, or the method of its class's table bound to it.
LEMMA AnswerIs ==
  ASSUME IInv, NEW x \in InstanceValues, There(vm, x), NEW name \in Name
  PROVE  LET i == x.instance
             field == vm.instances[i].fields[name]
             method == vm.classes[vm.instances[i].class].methods[name]
         IN  /\ i \in DOMAIN vm.instances /\ i \in 1 .. MaxInstances /\ x = Instance(i)
             /\ x.type = "instance" /\ vm.instances[i].class \in DOMAIN vm.classes
             /\ Answer(x, name) = IF field # NONE THEN field ELSE IF method # NONE THEN Bound(i, method) ELSE NONE
             /\ method \in Methods \cup {NONE}
             /\ Answer(x, name) # NONE <=> HasProperty(vm, i, name)
<1>1. vm \in MachineType /\ Inherits(vm) /\ Declares(vm)
  BY DEF IInv, Fine
<1> DEFINE i == x.instance
           field == vm.instances[i].fields[name]
           c == vm.instances[i].class
           method == vm.classes[c].methods[name]
<1>2. x.type = "instance" /\ i \in 1 .. MaxInstances /\ x = Instance(i) /\ i \in DOMAIN vm.instances
  BY ValueFields DEF There
<1>3. c \in DOMAIN vm.classes
  BY <1>1, <1>2, InstanceClass
<1>4. Meant(name)[c] = method
  BY <1>3, MeantIsTable DEF Classes
<1>5. Answer(x, name) = IF field # NONE THEN field ELSE IF method # NONE THEN Bound(i, method) ELSE NONE
  BY <1>2, <1>4 DEF Answer
<1>6. method \in Methods \cup {NONE}
  BY <1>1, <1>3, ClassFields
<1>7. method # NONE => Bound(i, method) # NONE
  <2> HIDE DEF method
  <2> SUFFICES ASSUME method # NONE PROVE Bound(i, method) # NONE
    OBVIOUS
  <2>1. method \in Closures
    BY <1>6, MethodFields
  <2> QED BY <1>2, <2>1, MachineAssumption DEF Bounds
<1>8. HasProperty(vm, i, name) <=> field # NONE \/ method # NONE
  BY DEF HasProperty
<1> HIDE DEF field, method
<1>9. Answer(x, name) # NONE <=> HasProperty(vm, i, name)
  BY <1>5, <1>7, <1>8
<1> QED BY <1>2, <1>3, <1>5, <1>6, <1>9 DEF field, method

\* OP_INVOKE is OP_GET_PROPERTY and OP_CALL.
LEMMA InvokeIsLookup ==
  ASSUME IInv, NEW n \in 0 .. Height(vm) - 1, There(vm, Peek(vm, n)), NEW name \in Name
  PROVE  LET got == Answer(Peek(vm, n), name) IN
         /\ Invoke(vm, name, n) = CalledWith(got, n)
         /\ n = 1 /\ name = GetterString => Subscript(vm) = CalledWith(got, n)
         /\ n = 0 => GetProperty(vm, name) = IF got = NONE THEN RuntimeError(vm) ELSE Put(vm, 0, got)
<1> DEFINE x == Peek(vm, n)
           i == x.instance
           object == vm.instances[i]
           field == object.fields[name]
           method == vm.classes[object.class].methods[name]
           got == Answer(x, name)
<1>1. vm \in MachineType /\ Inherits(vm) /\ Declares(vm) /\ x \in AnyValue
  BY DEF IInv, Fine, There
<1>2. CASE x.type # "instance"
  <2>1. got = NONE
    BY <1>2 DEF Answer
  <2>2. CalledWith(got, n) = RuntimeError(vm)
    BY <2>1 DEF CalledWith
  <2>3. Invoke(vm, name, n) = RuntimeError(vm)
    BY <1>2 DEF Invoke
  <2>4. n = 1 => Subscript(vm) = RuntimeError(vm)
    BY <1>2 DEF Subscript
  <2>5. n = 0 => GetProperty(vm, name) = RuntimeError(vm)
    BY <1>2 DEF GetProperty
  <2> HIDE DEF got, x
  <2> QED BY <2>1, <2>2, <2>3, <2>4, <2>5 DEF got, x
<1>3. CASE x.type = "instance"
  <2>1. x \in InstanceValues
    BY <1>1, <1>3, Kinds
  <2>2. /\ i \in DOMAIN vm.instances /\ i \in 1 .. MaxInstances /\ x = Instance(i)
        /\ object.class \in DOMAIN vm.classes
        /\ got = IF field # NONE THEN field ELSE IF method # NONE THEN Bound(i, method) ELSE NONE
        /\ method \in Methods \cup {NONE}
        /\ got # NONE <=> HasProperty(vm, i, name)
    BY <2>1, AnswerIs
  <2>3. Invoke(vm, name, n) = CalledWith(got, n)
    <3>1. CASE field # NONE
      <4>1. Invoke(vm, name, n) = CallValue(Put(vm, n, field), field, n)
        BY <1>3, <3>1 DEF Invoke
      <4>2. got = field
        BY <2>2, <3>1
      <4> HIDE DEF got, field
      <4> QED BY <3>1, <4>1, <4>2 DEF CalledWith
    <3>2. CASE field = NONE
      <4>1. Invoke(vm, name, n) = InvokeFromClass(vm, object.class, name, n)
        BY <1>3, <3>2 DEF Invoke
      <4>2. got = IF method = NONE THEN NONE ELSE Bound(i, method)
        BY <2>2, <3>2
      <4>3. InvokeFromClass(vm, object.class, name, n) = CalledWith(IF method = NONE THEN NONE ELSE Bound(i, method), n)
        BY <1>1, <2>2, FromClassIsBound
      <4> HIDE DEF got
      <4> QED BY <4>1, <4>2, <4>3
    <3> QED BY <3>1, <3>2
  <2>4. n = 1 /\ name = GetterString => Subscript(vm) = CalledWith(got, n)
    <3> SUFFICES ASSUME n = 1, name = GetterString PROVE Subscript(vm) = CalledWith(got, n)
      OBVIOUS
    <3> HIDE DEF got
    <3>1. Subscript(vm) = IF HasProperty(vm, i, name) THEN Invoke(vm, name, n) ELSE RuntimeError(vm)
      BY <1>3 DEF Subscript
    <3>2. got = NONE => CalledWith(got, n) = RuntimeError(vm)
      BY DEF CalledWith
    <3> QED BY <2>2, <2>3, <3>1, <3>2
  <2>5. n = 0 => GetProperty(vm, name) = IF got = NONE THEN RuntimeError(vm) ELSE Put(vm, 0, got)
    <3> SUFFICES ASSUME n = 0
                 PROVE  GetProperty(vm, name) = IF got = NONE THEN RuntimeError(vm) ELSE Put(vm, 0, got)
      OBVIOUS
    <3>1. vm \in MachineType /\ Height(vm) # 0
      <4>1. Height(vm) \in Nat
        BY <1>1, MachineFields
      <4> QED BY <1>1, <4>1
    <3>2. CASE field # NONE
      <4>1. GetProperty(vm, name) = Pushed(Popped(vm, 1), field)
        BY <1>3, <3>2 DEF GetProperty
      <4>2. got = field
        BY <2>2, <3>2
      <4> HIDE DEF got, field
      <4> QED BY <3>1, <3>2, <4>1, <4>2, ReplacedIsPut
    <3>3. CASE field = NONE
      <4>1. GetProperty(vm, name) = BindMethod(vm, object.class, name)
        BY <1>3, <3>3 DEF GetProperty
      <4>2. got = IF method = NONE THEN NONE ELSE Bound(i, method)
        BY <2>2, <3>3
      <4>3. BindMethod(vm, object.class, name) =
              IF method = NONE THEN RuntimeError(vm) ELSE Pushed(Popped(vm, 1), Bound(i, method))
        BY DEF BindMethod
      <4>4. method # NONE => Bound(i, method) # NONE
        <5> SUFFICES ASSUME method # NONE PROVE Bound(i, method) # NONE
          OBVIOUS
        <5> HIDE DEF method
        <5>1. method \in Closures
          BY <2>2, MethodFields
        <5> QED BY <2>2, <5>1, MachineAssumption DEF Bounds
      <4>5. Pushed(Popped(vm, 1), Bound(i, method)) = Put(vm, 0, Bound(i, method))
        BY <3>1, ReplacedIsPut
      <4> HIDE DEF got, method
      <4> QED BY <4>1, <4>2, <4>3, <4>4, <4>5
    <3> QED BY <3>2, <3>3
  <2> HIDE DEF got, x
  <2> QED BY <2>3, <2>4, <2>5 DEF got, x
<1> QED BY <1>2, <1>3

\* OP_SUPER_INVOKE is OP_GET_SUPER and OP_CALL.
LEMMA SuperInvokeIsLookup ==
  ASSUME IInv, vm.phase = "running", InMethod, Here.super # 0,
         NEW n \in 0 .. Height(vm) - 1, Peek(vm, n) = vm.stack[Here.slots + 1], NEW name \in Name
  PROVE  LET super == Meant(name)[Here.super] IN
         InvokeFromClass(vm, Here.super, name, n)
           = CalledWith(IF super = NONE THEN NONE ELSE Bound(Peek(vm, n).instance, super), n)
<1> DEFINE x == Peek(vm, n)
<1>1. vm \in MachineType /\ Inherits(vm) /\ Declares(vm)
  BY DEF IInv, Fine
<1>2. /\ x \in InstanceValues /\ x = Instance(x.instance) /\ x.instance \in DOMAIN vm.instances
      /\ Here.super \in Above(vm.classes, vm.instances[x.instance].class)
  BY ThisThere
<1>3. Here.super \in DOMAIN vm.classes /\ x.instance \in 1 .. MaxInstances
  BY <1>1, <1>2, InstanceClass
<1>4. Meant(name)[Here.super] = vm.classes[Here.super].methods[name]
  BY <1>3, MeantIsTable DEF Classes
<1>5. LET m == vm.classes[Here.super].methods[name] IN
      InvokeFromClass(vm, Here.super, name, n) = CalledWith(IF m = NONE THEN NONE ELSE Bound(x.instance, m), n)
  BY <1>1, <1>2, <1>3, FromClassIsBound
<1> QED BY <1>4, <1>5

\* invoke, invokeFromClass and OP_SUBSCRIPT (vm.c) do what getting the property and calling it would.
THEOREM InvokesAreLookups == Spec => []DispatchIsLookup
<1>1. IInv => DispatchIsLookup
  <2> SUFFICES ASSUME IInv, Running, NEW n \in 0 .. Here.counted - Params(Here) - 1, NEW name \in Name
               PROVE  LET receiver == Peek(vm, n)
                          got == Answer(receiver, name)
                          super == Meant(name)[Here.super]
                      IN  /\ Invoke(vm, name, n) = CalledWith(got, n)
                          /\ n = 1 /\ name = GetterString => Subscript(vm) = CalledWith(got, n)
                          /\ n = 0 => GetProperty(vm, name) = IF got = NONE THEN RuntimeError(vm) ELSE Put(vm, 0, got)
                          /\ InMethod /\ Here.super # 0 /\ receiver = vm.stack[Here.slots + 1] =>
                               InvokeFromClass(vm, Here.super, name, n)
                                 = CalledWith(IF super = NONE THEN NONE ELSE Bound(receiver.instance, super), n)
    BY DEF DispatchIsLookup
  <2>1. vm.phase = "running"
    BY DEF Running
  <2>2. n \in Nat /\ Has(n + 1)
    <3>1. Here.counted \in Nat /\ Params(Here) \in Nat
      BY <2>1, HereFacts
    <3>2. n \in Nat /\ Here.counted - (n + 1) >= Params(Here)
      BY <3>1
    <3> QED BY <3>2 DEF Has
  <2>3. There(vm, Peek(vm, n)) /\ n \in 0 .. Height(vm) - 1
    <3>1. There(vm, Peek(vm, n)) /\ Height(vm) - n \in 2 .. Height(vm) /\ Height(vm) \in Nat
      BY <2>1, <2>2, TakenThere, HereFacts
    <3>2. n \in 0 .. Height(vm) - 1
      BY <2>2, <3>1
    <3> QED BY <3>1, <3>2
  <2> QED BY <2>1, <2>3, InvokeIsLookup, SuperInvokeIsLookup
<1> QED BY Invariance, <1>1, PTL

=============================================================================
