--------------------------- MODULE UpvaluesProofs ---------------------------
(***************************************************************************)
(* That IInv is an invariant of Upvalues.tla, one lemma per kind of step,  *)
(* and what follows from it for every program, every number of slots,      *)
(* frames, closures and upvalues.                                          *)
(***************************************************************************)
EXTENDS UpvaluesInv, SequenceTheorems, TLAPS

Frame == [closure : Closure \cup {SCRIPT}, slots : Nat, arity : Nat]

\* What the types say of the members of a sequence.
LEMMA Members ==
  ASSUME TypeOK
  PROVE  /\ DOMAIN frames = 1..Len(frames) /\ Len(frames) \in Nat
         /\ \A j \in DOMAIN frames : /\ frames[j] \in Frame
                                   /\ frames[j].slots \in Nat
                                   /\ frames[j].arity \in Nat
                                   /\ frames[j].closure \in Closure \cup {SCRIPT}
         /\ DOMAIN openUpvalues = 1..Len(openUpvalues) /\ Len(openUpvalues) \in Nat
         /\ \A j \in DOMAIN openUpvalues : openUpvalues[j] \in Upvalue
         /\ \A c \in Closure \cup {SCRIPT} : \A i \in DOMAIN upvalues[c] : upvalues[c][i] \in Upvalue
<1>1. frames \in Seq(Frame) /\ openUpvalues \in Seq(Upvalue)
      /\ \A c \in Closure \cup {SCRIPT} : upvalues[c] \in Seq(Upvalue)
  BY DEF TypeOK, Frame
<1>2. \A j \in DOMAIN frames : frames[j] \in Frame
  BY <1>1
<1>3. \A j \in DOMAIN openUpvalues : openUpvalues[j] \in Upvalue
  BY <1>1
<1>4. \A c \in Closure \cup {SCRIPT} : \A i \in DOMAIN upvalues[c] : upvalues[c][i] \in Upvalue
  BY <1>1
<1>5. \A f \in Frame : f.slots \in Nat /\ f.arity \in Nat /\ f.closure \in Closure \cup {SCRIPT}
  BY DEF Frame
<1> QED BY <1>1, <1>2, <1>3, <1>4, <1>5

LEMMA StackTyped ==
  ASSUME TypeOK
  PROVE  /\ stackTop \in Nat /\ DOMAIN stack = 0..Top /\ Top \in Int
         /\ \A s \in 0..Top : /\ stack[s] \in Slot
                              /\ stack[s].variable \in Variable \cup {NONE}
                              /\ stack[s].isCaptured \in BOOLEAN
                              /\ stack[s].value \in Value
<1>1. stackTop \in Nat /\ stack \in [0..Top -> Slot] /\ Top \in Int
  BY DEF TypeOK, Top
<1>2. \A x \in Slot : x.variable \in Variable \cup {NONE} /\ x.isCaptured \in BOOLEAN
                    /\ x.value \in Value
  BY DEF Slot
<1> QED BY <1>1, <1>2

\* The frame that runs.
LEMMA Current ==
  ASSUME IInv, Running
  PROVE  /\ Len(frames) \in DOMAIN frames /\ Len(frames) \in Nat
         /\ frame \in Frame /\ frame.slots \in Nat /\ frame.arity \in Nat
         /\ frame.slots < stackTop
         /\ frame.closure \in closures
<1>1. frames # <<>> /\ frames \in Seq(Frame)
  BY DEF IInv, FramesNest, TypeOK, Frame
<1>2. Len(frames) \in DOMAIN frames
  BY <1>1
<1> QED BY <1>2, Members DEF IInv, FramesNest, frame

\* The upvalues in the list.
LEMMA OpenTyped ==
  ASSUME IInv
  PROVE  \A j \in DOMAIN openUpvalues :
           /\ openUpvalues[j] \in Upvalue
           /\ location[openUpvalues[j]] \in 0..Top
           /\ location[openUpvalues[j]] \notin {NULL, CLOSED}
           /\ of[openUpvalues[j]] \in Variable
           /\ stack[location[openUpvalues[j]]].variable = of[openUpvalues[j]]
           /\ stack[location[openUpvalues[j]]].isCaptured
<1> USE UpvaluesAssumption
<1> SUFFICES ASSUME NEW j \in DOMAIN openUpvalues
             PROVE  LET u == openUpvalues[j] IN
                    /\ u \in Upvalue /\ location[u] \in 0..Top
                    /\ location[u] \notin {NULL, CLOSED} /\ of[u] \in Variable
                    /\ stack[location[u]].variable = of[u] /\ stack[location[u]].isCaptured
  OBVIOUS
<1> DEFINE u == openUpvalues[j]
<1>1. u \in Upvalue
  BY Members DEF IInv
<1>2. location[u] \in DOMAIN stack /\ stack[location[u]].variable = of[u]
      /\ stack[location[u]].isCaptured
  BY DEF IInv, Anchored
<1>3. location[u] \in 0..Top
  BY <1>2, StackTyped DEF IInv
<1>4. location[u] \notin {NULL, CLOSED}
  BY <1>3, StackTyped DEF IInv
<1>5. of[u] \in Variable
  BY <1>1, <1>4 DEF IInv, TypeOK, OpenOrClosed
<1> QED BY <1>1, <1>2, <1>3, <1>4, <1>5

\* Nothing but the stack decides the types here.
LEMMA StackOnly ==
  ASSUME IInv, stackTop' \in Nat, stack' \in [0..Top' -> Slot], reply' = <<>>,
         work' \in {work, NoWork} \/ work' \in [closure : Closure \cup {SCRIPT}, left : Nat, last : Nat, result : Value],
         pc' \in {"idle", "run", "capture", "end", "return", "exit"},
         frames' \in Seq(Frame),
         UNCHANGED <<openUpvalues, heap>>
  PROVE  TypeOK'
<1>1. NoWork \in [closure : Closure \cup {SCRIPT}, left : Nat, last : Nat, result : Value]
  BY UpvaluesAssumption DEF NoWork
<1> QED BY <1>1 DEF IInv, TypeOK, heap, Frame

\* A temporary more on the stack.
LEMMA PushedKeeps ==
  ASSUME IInv, pc = "run", NEW v \in Value,
         stack' = Pushed(Temporary(v)), stackTop' = stackTop + 1,
         reply' \in {<<>>} \cup Variable \X Value,
         UNCHANGED <<frames, openUpvalues, heap, pc, work>>
  PROVE  IInv'
<1> USE UpvaluesAssumption
<1>1. TypeOK'
  <2>1. stack' \in [0..Top' -> Slot]
    BY DEF IInv, TypeOK, Pushed, Temporary, Slot, Top
  <2> QED BY <2>1 DEF IInv, TypeOK, heap
<1>2. FramesNest'
  BY Members DEF IInv, TypeOK, FramesNest, Running, heap, Pushed, Temporary
<1>3. WorkFits'
  BY Members DEF IInv, TypeOK, WorkFits, FramesNest, frame, Top, NoWork, heap, Pushed, Temporary
<1>4. Sorted'
  BY Members DEF IInv, Sorted, heap, Pushed, Temporary
<1>5. OneSlotEach'
  BY Members DEF IInv, TypeOK, OneSlotEach, IsVariable, Top, heap, Pushed, Temporary
<1>6. OneUpvalueEach'
  BY Members DEF IInv, OneUpvalueEach, heap, Pushed, Temporary
<1>7. Anchored'
  BY Members DEF IInv, TypeOK, Anchored, Top, heap, Pushed, Temporary
<1>8. OpenOrClosed'
  BY Members DEF IInv, TypeOK, OpenOrClosed, heap, Pushed, Temporary
<1>9. HeldThere'
  BY Members DEF IInv, TypeOK, HeldThere, WorkFits, heap, Pushed, Temporary
<1>10. ClosedGone'
  BY Members DEF IInv, TypeOK, OpenOrClosed, ClosedGone, Top, heap, Pushed, Temporary
<1> QED BY <1>1, <1>2, <1>3, <1>4, <1>5, <1>6, <1>7, <1>8, <1>9, <1>10 DEF IInv

\* A slot less, which no open upvalue points at.
LEMMA CutKeeps ==
  ASSUME IInv, Top > frame.slots, stack' = CutTo(Top), stackTop' = Top,
         \A j \in DOMAIN openUpvalues : location[openUpvalues[j]] < Top,
         pc \in {"run", "end"}, pc' = "run",
         work' = IF pc = "run" THEN work ELSE NoWork, reply' = <<>>,
         UNCHANGED <<frames, openUpvalues, heap>>
  PROVE  IInv'
<1> USE UpvaluesAssumption
<1>0. Running /\ Top \in Nat /\ stack' \in [0..Top' -> Slot]
  <2>1. Running
    BY DEF Running
  <2>2. Top \in Nat
    BY <2>1, Current, StackTyped DEF IInv, Top
  <2> QED BY <2>1, <2>2, StackTyped DEF IInv, CutTo, Top
<1>1. TypeOK'
  BY <1>0, StackOnly, Members DEF IInv, TypeOK, heap, Frame, Top
<1>2. FramesNest'
  <2>1. pc' = "run" /\ Running /\ UNCHANGED <<frames, openUpvalues, closures>>
    BY <1>0 DEF heap
  <2>2. \A j \in DOMAIN frames : frames[j].slots < Top
    BY <1>0, Current, Members DEF IInv, FramesNest, frame
  <2> QED BY <2>1, <2>2 DEF IInv, FramesNest, Running
<1>3. WorkFits'
  BY Members DEF IInv, TypeOK, WorkFits, FramesNest, frame, Top, NoWork, heap, CutTo
<1>4. Sorted'
  BY Members DEF IInv, Sorted, heap, CutTo
<1>5. OneSlotEach'
  BY Members DEF IInv, TypeOK, OneSlotEach, IsVariable, Top, heap, CutTo
<1>6. OneUpvalueEach'
  BY Members DEF IInv, OneUpvalueEach, heap, CutTo
<1>7. Anchored'
  BY Members DEF IInv, TypeOK, Anchored, Top, heap, CutTo
<1>8. OpenOrClosed'
  BY Members DEF IInv, TypeOK, OpenOrClosed, heap, CutTo
<1>9. HeldThere'
  BY Members DEF IInv, TypeOK, HeldThere, WorkFits, heap, CutTo
<1>10. ClosedGone'
  <2>1. \A u \in Upvalue, s \in 0..(Top - 1) :
          location[u] = CLOSED => stack[s].variable # of[u]
    BY <1>0, StackTyped DEF IInv, ClosedGone, WorkFits
  <2>2. DOMAIN stack' = 0..(Top - 1) /\ \A s \in 0..(Top - 1) : stack'[s] = stack[s]
    BY <1>0 DEF CutTo
  <2> QED BY <2>1, <2>2 DEF ClosedGone, heap
<1> QED BY <1>1, <1>2, <1>3, <1>4, <1>5, <1>6, <1>7, <1>8, <1>9, <1>10 DEF IInv

\* A slot's value is replaced.
LEMMA AssignedKeeps ==
  ASSUME IInv, pc = "run", NEW s \in DOMAIN stack, NEW v \in Value,
         stack' = [stack EXCEPT ![s].value = v], reply' = <<>>,
         UNCHANGED <<stackTop, frames, openUpvalues, heap, pc, work>>
  PROVE  IInv'
<1> USE UpvaluesAssumption
<1>1. TypeOK'
  BY Members DEF IInv, TypeOK, Slot, Top, heap
<1>2. FramesNest'
  BY Members DEF IInv, TypeOK, FramesNest, Running, heap
<1>3. WorkFits'
  BY Members DEF IInv, TypeOK, WorkFits, FramesNest, frame, Top, NoWork, heap
<1>4. Sorted'
  BY Members DEF IInv, Sorted, heap
<1>5. OneSlotEach'
  BY Members DEF IInv, TypeOK, OneSlotEach, IsVariable, Top, heap
<1>6. OneUpvalueEach'
  BY Members DEF IInv, OneUpvalueEach, heap
<1>7. Anchored'
  BY Members DEF IInv, TypeOK, Anchored, Top, heap
<1>8. OpenOrClosed'
  BY Members DEF IInv, TypeOK, OpenOrClosed, heap
<1>9. HeldThere'
  BY Members DEF IInv, TypeOK, HeldThere, WorkFits, heap
<1>10. ClosedGone'
  BY Members DEF IInv, TypeOK, OpenOrClosed, ClosedGone, Top, heap
<1> QED BY <1>1, <1>2, <1>3, <1>4, <1>5, <1>6, <1>7, <1>8, <1>9, <1>10 DEF IInv

\* A temporary becomes a variable.
LEMMA DeclareKeeps ==
  ASSUME IInv, NEW x \in Variable, NEW captured \in BOOLEAN, Declare(x, captured)
  PROVE  IInv'
<1> USE UpvaluesAssumption
<1>0. /\ Running /\ Top \in Nat /\ Top \in DOMAIN stack /\ stackTop' = stackTop
      /\ stack[Top].variable = NONE
  BY Current, StackTyped DEF IInv, Declare, Running, Top, IsVariable
<1>0a. /\ stack' \in [0..Top -> Slot]
       /\ \A s \in 0..Top : s # Top => stack'[s] = stack[s]
       /\ stack'[Top].variable = x
  BY <1>0, StackTyped DEF IInv, Declare, Slot
<1>1. TypeOK'
  BY <1>0, <1>0a, StackOnly, Members DEF IInv, TypeOK, heap, Frame, Top, Declare
<1>2. FramesNest'
  BY Members DEF IInv, TypeOK, FramesNest, Running, Declare, heap, Live, IsVariable
<1>3. WorkFits'
  BY Members DEF IInv, TypeOK, WorkFits, FramesNest, frame, Top, NoWork, Declare, heap, Live, IsVariable
<1>4. Sorted'
  BY Members DEF IInv, Sorted, Declare, heap, Live, IsVariable
<1>5. OneSlotEach'
  BY Members DEF IInv, TypeOK, OneSlotEach, IsVariable, Top, Declare, heap, Live, IsVariable
<1>6. OneUpvalueEach'
  BY Members DEF IInv, OneUpvalueEach, Declare, heap, Live, IsVariable
<1>7. Anchored'
  BY <1>0, <1>0a, OpenTyped, StackTyped DEF IInv, Anchored, Declare, heap
<1>8. OpenOrClosed'
  BY Members DEF IInv, TypeOK, OpenOrClosed, Declare, heap, Live, IsVariable
<1>9. HeldThere'
  BY Members DEF IInv, TypeOK, HeldThere, WorkFits, Declare, heap, Live, IsVariable
<1>10. ClosedGone'
  BY Members DEF IInv, TypeOK, OpenOrClosed, ClosedGone, Top, Declare, heap, Live, IsVariable
<1> QED BY <1>1, <1>2, <1>3, <1>4, <1>5, <1>6, <1>7, <1>8, <1>9, <1>10 DEF IInv

\* A scope begins to end.
LEMMA EndScopeKeeps ==
  ASSUME IInv, EndScope, stack[Top].isCaptured
  PROVE  IInv'
<1> USE UpvaluesAssumption
<1>1. TypeOK'
  <2>1. Top \in Nat
    BY Current, StackTyped DEF IInv, EndScope, Running, Top
  <2>2. work' \in [closure : Closure \cup {SCRIPT}, left : Nat, last : Nat, result : Value]
    BY <2>1 DEF EndScope, NoWork
  <2> QED BY <2>2, StackOnly DEF IInv, TypeOK, EndScope, Frame, Top
<1>2. FramesNest'
  BY Members DEF IInv, TypeOK, FramesNest, Running, EndScope, heap, NoWork
<1>3. WorkFits'
  <2>1. Top > frame.slots
    BY Current, StackTyped DEF IInv, EndScope, Running
  <2> QED BY <2>1 DEF IInv, WorkFits, frame, Top, NoWork, EndScope, heap
<1>4. Sorted'
  BY Members DEF IInv, Sorted, EndScope, heap, NoWork
<1>5. OneSlotEach'
  BY Members DEF IInv, TypeOK, OneSlotEach, IsVariable, Top, EndScope, heap, NoWork
<1>6. OneUpvalueEach'
  BY Members DEF IInv, OneUpvalueEach, EndScope, heap, NoWork
<1>7. Anchored'
  BY Members DEF IInv, TypeOK, Anchored, Top, EndScope, heap, NoWork
<1>8. OpenOrClosed'
  BY Members DEF IInv, TypeOK, OpenOrClosed, EndScope, heap, NoWork
<1>9. HeldThere'
  BY Members DEF IInv, TypeOK, HeldThere, WorkFits, EndScope, heap, NoWork
<1>10. ClosedGone'
  BY Members DEF IInv, TypeOK, OpenOrClosed, ClosedGone, Top, EndScope, heap, NoWork
<1> QED BY <1>1, <1>2, <1>3, <1>4, <1>5, <1>6, <1>7, <1>8, <1>9, <1>10 DEF IInv

\* A line of input starts to run.
LEMMA InterpretKeeps ==
  ASSUME IInv, Interpret
  PROVE  IInv'
<1> USE UpvaluesAssumption
<1>1. TypeOK'
  BY Members DEF IInv, TypeOK, Slot, Top, Interpret, heap, Pushed, Temporary
<1>2. FramesNest'
  <2>1. frames = <<>> /\ stackTop = 0 /\ openUpvalues = <<>>
    BY DEF IInv, FramesNest, Interpret, Running
  <2>2. frames' = <<[closure |-> SCRIPT, slots |-> 0, arity |-> 0]>>
    BY <2>1 DEF Interpret
  <2>3. frames' # <<>> /\ DOMAIN frames' = {1} /\ frames'[1].slots = 0 /\ frames'[1].closure = SCRIPT
    BY <2>2
  <2> QED BY <2>1, <2>3 DEF IInv, FramesNest, WorkFits, Running, Interpret, heap
<1>3. WorkFits'
  BY Members DEF IInv, TypeOK, WorkFits, FramesNest, frame, Top, NoWork, Interpret, heap, Pushed, Temporary
<1>4. Sorted'
  BY Members DEF IInv, Sorted, Interpret, heap, Pushed, Temporary
<1>5. OneSlotEach'
  BY Members DEF IInv, TypeOK, OneSlotEach, IsVariable, Top, Interpret, heap, Pushed, Temporary
<1>6. OneUpvalueEach'
  BY Members DEF IInv, OneUpvalueEach, Interpret, heap, Pushed, Temporary
<1>7. Anchored'
  BY Members DEF IInv, TypeOK, Anchored, Top, Interpret, heap, Pushed, Temporary
<1>8. OpenOrClosed'
  BY Members DEF IInv, TypeOK, OpenOrClosed, Interpret, heap, Pushed, Temporary
<1>9. HeldThere'
  BY Members DEF IInv, TypeOK, HeldThere, WorkFits, Interpret, heap, Pushed, Temporary
<1>10. ClosedGone'
  BY Members DEF IInv, TypeOK, OpenOrClosed, ClosedGone, Top, Interpret, heap, Pushed, Temporary
<1> QED BY <1>1, <1>2, <1>3, <1>4, <1>5, <1>6, <1>7, <1>8, <1>9, <1>10 DEF IInv

\* A function is called.
LEMMA CallKeeps ==
  ASSUME IInv, NEW c \in closures \ {SCRIPT}, NEW n \in Nat, NEW m \in BOOLEAN, Call(c, n, m)
  PROVE  IInv'
<1> USE UpvaluesAssumption
<1> DEFINE base == stackTop - n - 1
           new  == (base + (IF m THEN 0 ELSE 1))..Top
<1>0. /\ Running /\ pc = "run" /\ Top \in Nat /\ stackTop' = stackTop
      /\ base \in Nat /\ base > frame.slots /\ base <= Top /\ new \subseteq base..Top
      /\ \A s \in base..Top : stack[s].variable = NONE
      /\ frames' = Append(frames, [closure |-> c, slots |-> base, arity |-> n])
      /\ UNCHANGED <<openUpvalues, heap, pc, work>> /\ reply' = <<>>
  BY Current, StackTyped DEF IInv, Call, Running, Top, IsVariable
<1>0a. PICK name \in Fresh(new), captured \in [new -> BOOLEAN] :
         stack' = [s \in 0..Top |->
                     IF s \in new THEN [variable |-> name[s], isCaptured |-> captured[s],
                                        value |-> stack[s].value]
                     ELSE stack[s]]
  BY DEF Call
<1>0b. \A s \in new : name[s] \in Variable /\ name[s] \notin Live
  BY DEF Fresh
<1>0c. \A s, t \in new : name[s] = name[t] => s = t
  BY DEF Fresh
<1>0d. /\ DOMAIN stack' = 0..Top
       /\ \A s \in 0..Top : s \in new => stack'[s].variable = name[s]
       /\ \A s \in 0..Top : s \notin new => stack'[s] = stack[s]
  BY <1>0, <1>0a
<1> HIDE DEF new, base
<1>0e. stack' \in [0..Top -> Slot]
  <2>1. \A s \in 0..Top : stack'[s] \in Slot
    <3> SUFFICES ASSUME NEW s \in 0..Top PROVE stack'[s] \in Slot
      OBVIOUS
    <3>1. CASE s \in new
      <4>1. stack'[s] = [variable |-> name[s], isCaptured |-> captured[s],
                         value |-> stack[s].value]
        BY <1>0a, <3>1
      <4> QED BY <4>1, <3>1, <1>0b, StackTyped DEF IInv, Slot
    <3>2. CASE s \notin new
      BY <3>2, <1>0d, StackTyped DEF IInv
    <3> QED BY <3>1, <3>2
  <2> QED BY <2>1, <1>0a
<1>1. TypeOK'
  <2>1. [closure |-> c, slots |-> base, arity |-> n] \in Frame
    BY <1>0 DEF IInv, TypeOK, Frame
  <2>2. frames' \in Seq(Frame)
    BY <2>1, <1>0 DEF IInv, TypeOK, Frame
  <2> QED BY <2>2, <1>0, <1>0e, StackOnly DEF IInv, TypeOK, Top
<1>2. FramesNest'
  <2> DEFINE added == [closure |-> c, slots |-> base, arity |-> n]
             len == Len(frames)
  <2>1. added \in Frame /\ frames \in Seq(Frame) /\ len \in Nat /\ DOMAIN frames = 1..len
    BY <1>0, Members DEF IInv, TypeOK, Frame
  <2>2. /\ frames' \in Seq(Frame) /\ frames' # <<>> /\ Len(frames') = len + 1
        /\ \A j \in 1..len : frames'[j] = frames[j]
        /\ frames'[len + 1] = added
    BY <2>1, <1>0, AppendProperties
  <2>3. DOMAIN frames' = 1..(len + 1)
    BY <2>2, LenProperties
  <2>4. base < stackTop /\ c \in closures
    BY <1>0 DEF Top, IInv, TypeOK
  <2>5. \A j \in 1..len : frames[j].slots < stackTop /\ frames[j].closure \in closures
    BY <2>1 DEF IInv, FramesNest
  <2>6. \A j \in 1..len : frames[j].slots < base
    <3> SUFFICES ASSUME NEW j \in 1..len PROVE frames[j].slots < base
      OBVIOUS
    <3>1. j = len \/ frames[j].slots < frames[len].slots
      <4> HIDE DEF len
      <4>1. j = len \/ (j \in DOMAIN frames /\ len \in DOMAIN frames /\ j < len)
        BY <2>1
      <4> QED BY <4>1 DEF IInv, FramesNest
    <3>2. frames[j].slots \in Nat /\ frames[len].slots < base /\ frames[len].slots \in Nat
      BY <2>1, <1>0, Members, Current DEF IInv, frame
    <3> QED BY <3>1, <3>2, <1>0
  <2>7. added.slots = base /\ added.closure = c
    OBVIOUS
  <2> HIDE DEF added, len
  <2>8. \A j \in 1..(len + 1) : j \in 1..len \/ j = len + 1
    BY <2>1
  <2>9. \A j \in DOMAIN frames' :
          frames'[j].slots < stackTop /\ frames'[j].closure \in closures
    BY <2>2, <2>3, <2>4, <2>5, <2>7, <2>8
  <2>10. \A i, j \in DOMAIN frames' : i < j => frames'[i].slots < frames'[j].slots
    <3> SUFFICES ASSUME NEW i \in 1..(len + 1), NEW j \in 1..(len + 1), i < j
                 PROVE  frames'[i].slots < frames'[j].slots
      BY <2>3
    <3>1. CASE j = len + 1
      BY <3>1, <2>1, <2>2, <2>6, <2>7
    <3>2. CASE j \in 1..len
      BY <3>2, <2>1, <2>2 DEF IInv, FramesNest
    <3> QED BY <3>1, <3>2, <2>8
  <2> QED BY <2>2, <2>9, <2>10, <1>0 DEF FramesNest, Running, heap
<1>3. WorkFits'
  BY <1>0 DEF IInv, WorkFits, heap
<1>4. Sorted'
  BY <1>0 DEF IInv, Sorted, heap
<1>5. OneSlotEach'
  <2> SUFFICES ASSUME NEW s \in 0..Top, NEW t \in 0..Top, stack'[s].variable # NONE,
                      stack'[s].variable = stack'[t].variable
               PROVE  s = t
    BY <1>0d DEF OneSlotEach, IsVariable
  <2>1. CASE s \in new /\ t \in new
    BY <2>1, <1>0c, <1>0d
  <2>2. CASE s \in new /\ t \notin new
    BY <2>2, <1>0b, <1>0d, StackTyped DEF IInv, Live
  <2>3. CASE s \notin new /\ t \in new
    BY <2>3, <1>0b, <1>0d, StackTyped DEF IInv, Live
  <2>4. CASE s \notin new /\ t \notin new
    BY <2>4, <1>0d, StackTyped DEF IInv, OneSlotEach, IsVariable
  <2> QED BY <2>1, <2>2, <2>3, <2>4
<1>6. OneUpvalueEach'
  BY <1>0 DEF IInv, OneUpvalueEach, heap
<1>7. Anchored'
  <2> SUFFICES ASSUME NEW j \in DOMAIN openUpvalues
               PROVE  LET u == openUpvalues[j] IN
                      /\ location[u] \in DOMAIN stack'
                      /\ stack'[location[u]].variable = of[u]
                      /\ stack'[location[u]].isCaptured
    BY <1>0 DEF Anchored, heap
  <2>1. location[openUpvalues[j]] \notin new
    BY <1>0, OpenTyped
  <2> QED BY <2>1, <1>0d, OpenTyped
<1>8. OpenOrClosed'
  BY <1>0 DEF IInv, OpenOrClosed, heap
<1>9. HeldThere'
  BY <1>0 DEF IInv, HeldThere, heap
<1>10. ClosedGone'
  <2>1. \A u \in Upvalue, s \in 0..Top : location[u] = CLOSED => stack[s].variable # of[u]
    BY <1>0, StackTyped DEF IInv, ClosedGone
  <2>2. \A u \in Upvalue, s \in 0..Top : location[u] = CLOSED => stack'[s].variable # of[u]
    BY <2>1, <1>0b, <1>0d DEF Live
  <2> QED BY <2>2, <1>0, <1>0d DEF ClosedGone, heap
<1> QED BY <1>1, <1>2, <1>3, <1>4, <1>5, <1>6, <1>7, <1>8, <1>9, <1>10 DEF IInv

\* A function begins to return.
LEMMA ReturnKeeps ==
  ASSUME IInv, Return
  PROVE  IInv'
<1> USE UpvaluesAssumption
<1>0. /\ Running /\ pc' = "return" /\ Top \in Nat /\ stackTop' = Top
      /\ stack[Top].variable = NONE /\ frame.slots < Top
      /\ DOMAIN stack' = 0..(Top - 1) /\ \A s \in 0..(Top - 1) : stack'[s] = stack[s]
      /\ UNCHANGED <<frames, openUpvalues, heap>>
  BY Current, StackTyped DEF IInv, Return, Running, Top, IsVariable, CutTo
<1>1. TypeOK'
  <2>1. stack' \in [0..Top' -> Slot] /\ Top' \in Int
    BY <1>0, StackTyped DEF IInv, Return, CutTo, Top
  <2>2. work' \in [closure : Closure \cup {SCRIPT}, left : Nat, last : Nat, result : Value]
    <3>1. stack[Top].value \in Value /\ frame.slots \in Nat
      BY <1>0, Current, StackTyped DEF IInv
    <3>2. work' = [NoWork EXCEPT !.last = frame.slots, !.result = stack[Top].value]
      BY DEF Return
    <3> QED BY <3>1, <3>2 DEF NoWork
  <2> QED BY <2>1, <2>2, <1>0, StackOnly DEF IInv, TypeOK, Return, Frame
<1>2. FramesNest'
  <2>1. \A j \in DOMAIN frames : frames[j].slots < Top
    BY <1>0, Current, Members DEF IInv, FramesNest, frame, Top
  <2> QED BY <2>1, <1>0, StackTyped DEF IInv, FramesNest, Running, heap
<1>3. WorkFits'
  BY Members DEF IInv, TypeOK, WorkFits, FramesNest, frame, Top, NoWork, Return, heap, CutTo, IsVariable, NoWork
<1>4. Sorted'
  BY Members DEF IInv, Sorted, Return, heap, CutTo, IsVariable, NoWork
<1>5. OneSlotEach'
  BY Members DEF IInv, TypeOK, OneSlotEach, IsVariable, Top, Return, heap, CutTo, IsVariable, NoWork
<1>6. OneUpvalueEach'
  BY Members DEF IInv, OneUpvalueEach, Return, heap, CutTo, IsVariable, NoWork
<1>7. Anchored'
  <2>1. \A j \in DOMAIN openUpvalues : location[openUpvalues[j]] # Top
    BY <1>0, OpenTyped, UpvaluesAssumption
  <2>2. \A j \in DOMAIN openUpvalues : location[openUpvalues[j]] \in 0..(Top - 1)
    BY <2>1, <1>0, OpenTyped
  <2> QED BY <2>2, <1>0, OpenTyped DEF Anchored, heap
<1>8. OpenOrClosed'
  BY Members DEF IInv, TypeOK, OpenOrClosed, Return, heap, CutTo, IsVariable, NoWork
<1>9. HeldThere'
  BY Members DEF IInv, TypeOK, HeldThere, WorkFits, Return, heap, CutTo, IsVariable, NoWork
<1>10. ClosedGone'
  BY Members DEF IInv, TypeOK, OpenOrClosed, ClosedGone, Top, Return, heap, CutTo, IsVariable, NoWork
<1> QED BY <1>1, <1>2, <1>3, <1>4, <1>5, <1>6, <1>7, <1>8, <1>9, <1>10 DEF IInv

\* The program ends.
LEMMA RuntimeErrorKeeps ==
  ASSUME IInv, ErrorsEnd, RuntimeError
  PROVE  IInv'
<1> USE UpvaluesAssumption
<1>1. TypeOK'
  BY Members DEF IInv, TypeOK, Slot, Top, RuntimeError, heap, CutTo
<1>2. FramesNest'
  BY Members DEF IInv, TypeOK, FramesNest, Running, RuntimeError, heap, CutTo
<1>3. WorkFits'
  BY Members DEF IInv, TypeOK, WorkFits, FramesNest, frame, Top, NoWork, RuntimeError, heap, CutTo
<1>4. Sorted'
  BY Members DEF IInv, Sorted, RuntimeError, heap, CutTo
<1>5. OneSlotEach'
  BY Members DEF IInv, TypeOK, OneSlotEach, IsVariable, Top, RuntimeError, heap, CutTo
<1>6. OneUpvalueEach'
  BY Members DEF IInv, OneUpvalueEach, RuntimeError, heap, CutTo
<1>7. Anchored'
  BY Members DEF IInv, TypeOK, Anchored, Top, RuntimeError, heap, CutTo
<1>8. OpenOrClosed'
  BY Members DEF IInv, TypeOK, OpenOrClosed, RuntimeError, heap, CutTo
<1>9. HeldThere'
  BY Members DEF IInv, TypeOK, HeldThere, WorkFits, RuntimeError, heap, CutTo
<1>10. ClosedGone'
  BY Members DEF IInv, TypeOK, OpenOrClosed, ClosedGone, Top, RuntimeError, heap, CutTo
<1> QED BY <1>1, <1>2, <1>3, <1>4, <1>5, <1>6, <1>7, <1>8, <1>9, <1>10 DEF IInv

\* A closure is made, with nothing captured yet.
LEMMA MakeClosureKeeps ==
  ASSUME IInv, NEW c \in Closure, NEW n \in Nat, NEW cell \in Slot, MakeClosure(c, n, cell)
  PROVE  IInv'
<1> USE UpvaluesAssumption
<1>1. TypeOK'
  <2>1. stack' \in [0..Top' -> Slot] /\ stackTop' \in Nat
    BY StackTyped DEF IInv, MakeClosure, Pushed, Top
  <2>2. work' \in [closure : Closure \cup {SCRIPT}, left : Nat, last : Nat, result : Value]
    BY DEF MakeClosure, NoWork
  <2> QED BY <2>1, <2>2 DEF IInv, TypeOK, MakeClosure
<1>2. FramesNest'
  <2>1. stackTop' = stackTop + 1 /\ closures \subseteq closures' /\ UNCHANGED <<frames, openUpvalues>>
        /\ pc = "run" /\ pc' = "capture" /\ stackTop \in Nat
    BY DEF IInv, TypeOK, MakeClosure
  <2> QED BY <2>1, Members DEF IInv, FramesNest, Running
<1>3. WorkFits'
  BY Members DEF IInv, TypeOK, WorkFits, FramesNest, frame, Top, NoWork, MakeClosure, heap, Pushed, Live, IsVariable, NoWork
<1>4. Sorted'
  BY Members DEF IInv, Sorted, MakeClosure, heap, Pushed, Live, IsVariable, NoWork
<1>5. OneSlotEach'
  BY Members DEF IInv, TypeOK, OneSlotEach, IsVariable, Top, MakeClosure, heap, Pushed, Live, IsVariable, NoWork
<1>6. OneUpvalueEach'
  BY Members DEF IInv, OneUpvalueEach, MakeClosure, heap, Pushed, Live, IsVariable, NoWork
<1>7. Anchored'
  BY Members DEF IInv, TypeOK, Anchored, Top, MakeClosure, heap, Pushed, Live, IsVariable, NoWork
<1>8. OpenOrClosed'
  BY Members DEF IInv, TypeOK, OpenOrClosed, MakeClosure, heap, Pushed, Live, IsVariable, NoWork
<1>9. HeldThere'
  BY Members DEF IInv, TypeOK, HeldThere, WorkFits, MakeClosure, heap, Pushed, Live, IsVariable, NoWork
<1>10. ClosedGone'
  BY Members DEF IInv, TypeOK, OpenOrClosed, ClosedGone, Top, MakeClosure, heap, Pushed, Live, IsVariable, NoWork
<1> QED BY <1>1, <1>2, <1>3, <1>4, <1>5, <1>6, <1>7, <1>8, <1>9, <1>10 DEF IInv

\* The closure being made gets an upvalue that is there.
LEMMA CapturedKeeps ==
  ASSUME IInv, pc = "capture", work.left > 0, NEW u \in Upvalue, location[u] # NULL, Captured(u),
         UNCHANGED <<stack, stackTop, frames, openUpvalues, location, closed, of, closures, pc>>
  PROVE  IInv'
<1> USE UpvaluesAssumption
<1>0. /\ work.closure \in Closure \cup {SCRIPT} /\ upvalues[work.closure] \in Seq(Upvalue)
      /\ work.closure \in closures
      /\ upvalues' = [upvalues EXCEPT ![work.closure] = Append(upvalues[work.closure], u)]
  BY DEF IInv, TypeOK, WorkFits, Captured
<1>0a. /\ DOMAIN Append(upvalues[work.closure], u) = 1..(Len(upvalues[work.closure]) + 1)
       /\ Append(upvalues[work.closure], u)[Len(upvalues[work.closure]) + 1] = u
       /\ \A i \in 1..Len(upvalues[work.closure]) :
            Append(upvalues[work.closure], u)[i] = upvalues[work.closure][i]
       /\ DOMAIN upvalues[work.closure] = 1..Len(upvalues[work.closure])
       /\ Append(upvalues[work.closure], u) \in Seq(Upvalue)
  BY <1>0
<1>1. TypeOK'
  <2>1. upvalues' \in [Closure \cup {SCRIPT} -> Seq(Upvalue)]
    BY <1>0, <1>0a DEF IInv, TypeOK
  <2>2. work' \in [closure : Closure \cup {SCRIPT}, left : Nat, last : Nat, result : Value]
    <3>1. work \in [closure : Closure \cup {SCRIPT}, left : Nat, last : Nat, result : Value]
          /\ work' = [work EXCEPT !.left = work.left - 1]
      BY DEF IInv, TypeOK, Captured
    <3> QED BY <3>1
  <2> QED BY <2>1, <2>2 DEF IInv, TypeOK, Captured, Top
<1>2. FramesNest'
  BY Members DEF IInv, TypeOK, FramesNest, Running, Captured
<1>3. WorkFits'
  BY Members DEF IInv, TypeOK, WorkFits, FramesNest, frame, Top, NoWork, Captured
<1>4. Sorted'
  BY Members DEF IInv, Sorted, Captured
<1>5. OneSlotEach'
  BY Members DEF IInv, TypeOK, OneSlotEach, IsVariable, Top, Captured
<1>6. OneUpvalueEach'
  BY Members DEF IInv, OneUpvalueEach, Captured
<1>7. Anchored'
  BY Members DEF IInv, TypeOK, Anchored, Top, Captured
<1>8. OpenOrClosed'
  BY Members DEF IInv, TypeOK, OpenOrClosed, Captured
<1>9. HeldThere'
  <2> SUFFICES ASSUME NEW c \in DOMAIN upvalues'
               PROVE  /\ c \notin closures => upvalues'[c] = <<>>
                      /\ \A i \in DOMAIN upvalues'[c] : location[upvalues'[c][i]] # NULL
    BY DEF HeldThere
  <2>1. c \in DOMAIN upvalues
    BY <1>0
  <2>2. CASE c = work.closure
    <3>1. upvalues'[c] = Append(upvalues[c], u)
      BY <2>1, <2>2, <1>0
    <3>2. \A i \in 1..Len(upvalues[c]) : location[upvalues[c][i]] # NULL
      BY <2>1, <2>2, <1>0a DEF IInv, HeldThere
    <3>3. \A i \in 1..(Len(upvalues[c]) + 1) : i = Len(upvalues[c]) + 1 \/ i \in 1..Len(upvalues[c])
      BY <2>2, <1>0
    <3> QED BY <3>1, <3>2, <3>3, <2>2, <1>0, <1>0a
  <2>3. CASE c # work.closure
    BY <2>1, <2>3, <1>0 DEF IInv, HeldThere
  <2> QED BY <2>2, <2>3
<1>10. ClosedGone'
  BY Members DEF IInv, TypeOK, OpenOrClosed, ClosedGone, Top, Captured
<1> QED BY <1>1, <1>2, <1>3, <1>4, <1>5, <1>6, <1>7, <1>8, <1>9, <1>10 DEF IInv

\* The closure being made gets a new upvalue.
LEMMA CreateUpvalueKeeps ==
  ASSUME IInv, NEW s \in DOMAIN stack, NEW k \in 0..Len(openUpvalues), NEW u \in Upvalue,
         CreateUpvalue(s, k, u)
  PROVE  IInv'
<1> USE UpvaluesAssumption
<1> DEFINE n == Len(openUpvalues)
           x == stack[s].variable
<1>0. /\ pc = "capture" /\ pc' = "capture" /\ Running /\ s \in Nat
      /\ x \in Variable /\ stack[s].isCaptured /\ location[u] = NULL
      /\ location' = [location EXCEPT ![u] = s]
      /\ closed' = [closed EXCEPT ![u] = NIL]
      /\ of' = [of EXCEPT ![u] = x]
      /\ WalkStops(s, k) /\ ~Found(s, k)
      /\ UNCHANGED <<stack, stackTop, frames, closures, pc>> /\ reply' = <<>>
  BY StackTyped DEF IInv, CreateUpvalue, Captured, Capturable, IsVariable, Running
<1>0a. n \in Nat /\ DOMAIN openUpvalues = 1..n /\ k \in 0..n
  BY Members DEF IInv
<1>0b. /\ DOMAIN openUpvalues' = 1..(n + 1) /\ openUpvalues'[k + 1] = u
       /\ \A j \in 1..k : openUpvalues'[j] = openUpvalues[j]
       /\ \A j \in (k + 2)..(n + 1) : openUpvalues'[j] = openUpvalues[j - 1]
       /\ openUpvalues' = [j \in 1..(n + 1) |-> openUpvalues'[j]]
  <2>1. openUpvalues' = Inserted(u, k)
    BY DEF CreateUpvalue
  <2> QED BY <2>1, <1>0a DEF Inserted
<1> HIDE DEF n
<1>0c. \A j \in 1..n : /\ openUpvalues[j] \in Upvalue \ {u}
                       /\ location[openUpvalues[j]] \in 0..Top
                       /\ location'[openUpvalues[j]] = location[openUpvalues[j]]
                       /\ of'[openUpvalues[j]] = of[openUpvalues[j]]
  BY <1>0, <1>0a, OpenTyped DEF IInv, TypeOK
<1>0d. location'[u] = s /\ of'[u] = x /\ closed'[u] = NIL
  BY <1>0 DEF IInv, TypeOK
<1>0e. \A j \in 1..(n + 1) : \/ j \in 1..k
                             \/ j = k + 1
                             \/ j \in (k + 2)..(n + 1) /\ j - 1 \in 1..n
  BY <1>0a
<1>0f. \A v \in Upvalue : of[v] # x
  <2> SUFFICES ASSUME NEW v \in Upvalue, of[v] = x PROVE FALSE
    OBVIOUS
  <2>1. location[v] # NULL
    BY <1>0 DEF IInv, OpenOrClosed
  <2>2. location[v] # CLOSED
    BY <1>0 DEF IInv, ClosedGone
  <2>3. PICK j \in 1..n : openUpvalues[j] = v
    BY <2>1, <2>2, <1>0, <1>0a DEF IInv, OpenOrClosed
  <2>4. location[v] = s
    BY <2>3, <1>0, <1>0a, OpenTyped, StackTyped DEF IInv, OneSlotEach, IsVariable
  <2>5. j > k
    BY <2>3, <2>4, <1>0, <1>0a DEF WalkStops
  <2>6. location[openUpvalues[k + 1]] \in Int /\ location[openUpvalues[k + 1]] < s
    BY <2>5, <1>0, <1>0a, <1>0c DEF WalkStops, Found, n
  <2>7. location[v] <= location[openUpvalues[k + 1]]
    BY <2>3, <2>5, <2>6, <1>0a, <1>0c DEF IInv, Sorted
  <2> QED BY <2>4, <2>6, <2>7, <1>0
<1>1. TypeOK'
  <2>1. \A j \in 1..(n + 1) : openUpvalues'[j] \in Upvalue
    BY <1>0a, <1>0b, <1>0c, <1>0e
  <2>2. openUpvalues' \in Seq(Upvalue)
    BY <2>1, <1>0a, <1>0b
  <2>3. work.closure \in Closure \cup {SCRIPT} /\ upvalues[work.closure] \in Seq(Upvalue)
    BY DEF IInv, TypeOK
  <2>4. upvalues' \in [Closure \cup {SCRIPT} -> Seq(Upvalue)]
    BY <2>3 DEF IInv, TypeOK, CreateUpvalue, Captured
  <2>5. work' \in [closure : Closure \cup {SCRIPT}, left : Nat, last : Nat, result : Value]
    <3>1. work \in [closure : Closure \cup {SCRIPT}, left : Nat, last : Nat, result : Value]
          /\ work.left > 0 /\ work' = [work EXCEPT !.left = work.left - 1]
      BY DEF IInv, TypeOK, CreateUpvalue, Captured
    <3> QED BY <3>1
  <2>6. /\ location' \in [Upvalue -> Nat \cup {CLOSED, NULL}]
        /\ closed' \in [Upvalue -> Value]
        /\ of' \in [Upvalue -> Variable \cup {NONE}]
    BY <1>0 DEF IInv, TypeOK
  <2> QED BY <2>2, <2>4, <2>5, <2>6, <1>0 DEF IInv, TypeOK, Top
<1>2. FramesNest'
  BY <1>0 DEF IInv, FramesNest, Running
<1>3. WorkFits'
  BY <1>0 DEF IInv, TypeOK, WorkFits, CreateUpvalue, Captured
<1>4. Sorted'
  <2> SUFFICES ASSUME NEW i \in 1..(n + 1), NEW j \in 1..(n + 1), i < j
               PROVE  location'[openUpvalues'[i]] > location'[openUpvalues'[j]]
    BY <1>0b DEF Sorted
  <2>1. \A h \in 1..k : location[openUpvalues[h]] > s
    BY <1>0 DEF WalkStops
  <2>2. \A h \in (k + 1)..n : location[openUpvalues[h]] < s
    <3> SUFFICES ASSUME NEW h \in (k + 1)..n PROVE location[openUpvalues[h]] < s
      OBVIOUS
    <3>1. location[openUpvalues[k + 1]] <= s /\ location[openUpvalues[k + 1]] # s
      BY <1>0, <1>0a DEF WalkStops, Found, n
    <3>2. h = k + 1 \/ location[openUpvalues[k + 1]] > location[openUpvalues[h]]
      BY <1>0a DEF IInv, Sorted
    <3> QED BY <3>1, <3>2, <1>0, <1>0a, <1>0c, StackTyped DEF IInv
  <2>3. \A g, h \in 1..n : g < h => location[openUpvalues[g]] > location[openUpvalues[h]]
    BY <1>0a DEF IInv, Sorted
  <2>4. CASE i \in 1..k /\ j \in 1..k
    BY <2>3, <2>4, <1>0a, <1>0b, <1>0c
  <2>5. CASE i \in 1..k /\ j = k + 1
    BY <2>1, <2>5, <1>0a, <1>0b, <1>0c, <1>0d
  <2>6. CASE i \in 1..k /\ j \in (k + 2)..(n + 1)
    <3>1. i \in 1..n /\ j - 1 \in 1..n /\ i < j - 1
      BY <2>6, <1>0a
    <3>2. location[openUpvalues[i]] > location[openUpvalues[j - 1]]
      BY <3>1, <2>3
    <3> QED BY <3>1, <3>2, <2>6, <1>0b, <1>0c
  <2>7. CASE i = k + 1 /\ j \in (k + 2)..(n + 1)
    BY <2>2, <2>7, <1>0, <1>0a, <1>0b, <1>0c, <1>0d
  <2>8. CASE i \in (k + 2)..(n + 1) /\ j \in (k + 2)..(n + 1)
    BY <2>3, <2>8, <1>0a, <1>0b, <1>0c
  <2> QED BY <2>4, <2>5, <2>6, <2>7, <2>8, <1>0a
<1>5. OneSlotEach'
  BY <1>0 DEF IInv, OneSlotEach, IsVariable
<1>6. OneUpvalueEach'
  BY <1>0, <1>0d, <1>0f DEF IInv, TypeOK, OneUpvalueEach
<1>7. Anchored'
  <2>1. \A j \in 1..n : /\ location[openUpvalues[j]] \in DOMAIN stack
                        /\ stack[location[openUpvalues[j]]].variable = of[openUpvalues[j]]
                        /\ stack[location[openUpvalues[j]]].isCaptured
    BY <1>0a DEF IInv, Anchored
  <2> SUFFICES ASSUME NEW j \in 1..(n + 1)
               PROVE  LET v == openUpvalues'[j] IN
                      /\ location'[v] \in DOMAIN stack
                      /\ stack[location'[v]].variable = of'[v]
                      /\ stack[location'[v]].isCaptured
    BY <1>0, <1>0b DEF Anchored
  <2>2. CASE j = k + 1
    BY <2>2, <1>0, <1>0b, <1>0d
  <2>3. CASE j # k + 1
    <3>1. PICK i \in 1..n : openUpvalues'[j] = openUpvalues[i]
      BY <2>3, <1>0a, <1>0b, <1>0e
    <3> QED BY <3>1, <2>1, <1>0c
  <2> QED BY <2>2, <2>3
<1>8. OpenOrClosed'
  <2>1. \A v \in Upvalue : location'[v] = NULL <=> of'[v] = NONE
    BY <1>0, <1>0d DEF IInv, TypeOK, OpenOrClosed
  <2>2. \A i \in 1..n : \E j \in 1..(n + 1) : openUpvalues'[j] = openUpvalues[i]
    <3> SUFFICES ASSUME NEW i \in 1..n
                 PROVE  \E j \in 1..(n + 1) : openUpvalues'[j] = openUpvalues[i]
      OBVIOUS
    <3>1. CASE i <= k
      BY <3>1, <1>0a, <1>0b
    <3>2. CASE i > k
      <4>1. i + 1 \in (k + 2)..(n + 1) /\ (i + 1) - 1 = i /\ i + 1 \in 1..(n + 1)
        BY <3>2, <1>0a
      <4>2. openUpvalues'[i + 1] = openUpvalues[i]
        BY <4>1, <1>0b
      <4> QED BY <4>1, <4>2
    <3> QED BY <3>1, <3>2, <1>0a
  <2>3. \A v \in Upvalue : \/ location'[v] \in {CLOSED, NULL}
                           \/ \E j \in 1..(n + 1) : openUpvalues'[j] = v
    <3> SUFFICES ASSUME NEW v \in Upvalue, location'[v] \notin {CLOSED, NULL}
                 PROVE  \E j \in 1..(n + 1) : openUpvalues'[j] = v
      OBVIOUS
    <3>1. CASE v = u
      <4>1. k + 1 \in 1..(n + 1)
        BY <1>0a
      <4> QED BY <3>1, <4>1, <1>0b
    <3>2. CASE v # u
      <4>1. location[v] = location'[v]
        BY <3>2, <1>0 DEF IInv, TypeOK
      <4>2. \E i \in 1..n : openUpvalues[i] = v
        BY <4>1, <1>0, <1>0a DEF IInv, OpenOrClosed
      <4> QED BY <4>2, <2>2
    <3> QED BY <3>1, <3>2
  <2> QED BY <2>1, <2>3, <1>0b DEF OpenOrClosed
<1>9. HeldThere'
  <2>1. /\ upvalues[work.closure] \in Seq(Upvalue) /\ work.closure \in closures
        /\ work.closure \in DOMAIN upvalues
        /\ upvalues' = [upvalues EXCEPT ![work.closure] = Append(upvalues[work.closure], u)]
    BY DEF IInv, TypeOK, WorkFits, CreateUpvalue, Captured
  <2>2. \A v \in Upvalue : location[v] # NULL => location'[v] # NULL
    BY <1>0, <1>0d DEF IInv, TypeOK
  <2> SUFFICES ASSUME NEW c \in DOMAIN upvalues'
               PROVE  /\ c \notin closures => upvalues'[c] = <<>>
                      /\ \A i \in DOMAIN upvalues'[c] : location'[upvalues'[c][i]] # NULL
    BY <1>0 DEF HeldThere
  <2>3. /\ c \in DOMAIN upvalues /\ c \in Closure \cup {SCRIPT}
        /\ \A i \in DOMAIN upvalues[c] : upvalues[c][i] \in Upvalue
    BY <2>1, Members DEF IInv, TypeOK
  <2>4. CASE c = work.closure
    <3>1. upvalues'[c] = Append(upvalues[c], u) /\ upvalues[c] \in Seq(Upvalue)
      BY <2>1, <2>4
    <3>2. \A i \in DOMAIN upvalues[c] : location'[upvalues[c][i]] # NULL
      BY <2>2, <2>3 DEF IInv, HeldThere
    <3>3. \A i \in DOMAIN upvalues'[c] :
            \/ i \in DOMAIN upvalues[c] /\ upvalues'[c][i] = upvalues[c][i]
            \/ upvalues'[c][i] = u
      BY <3>1
    <3>4. location'[u] # NULL
      BY <1>0, <1>0d
    <3> QED BY <3>2, <3>3, <3>4, <2>1, <2>4
  <2>5. CASE c # work.closure
    BY <2>1, <2>2, <2>3, <2>5 DEF IInv, HeldThere
  <2> QED BY <2>4, <2>5
<1>10. ClosedGone'
  BY <1>0, <1>0d DEF IInv, TypeOK, ClosedGone
<1> QED BY <1>1, <1>2, <1>3, <1>4, <1>5, <1>6, <1>7, <1>8, <1>9, <1>10 DEF IInv

\* The closure is complete.
LEMMA CaptureDoneKeeps ==
  ASSUME IInv, CaptureDone
  PROVE  IInv'
<1> USE UpvaluesAssumption
<1>1. TypeOK'
  BY Members DEF IInv, TypeOK, Slot, Top, CaptureDone, heap, NoWork
<1>2. FramesNest'
  BY Members DEF IInv, TypeOK, FramesNest, Running, CaptureDone, heap, NoWork
<1>3. WorkFits'
  BY Members DEF IInv, TypeOK, WorkFits, FramesNest, frame, Top, NoWork, CaptureDone, heap, NoWork
<1>4. Sorted'
  BY Members DEF IInv, Sorted, CaptureDone, heap, NoWork
<1>5. OneSlotEach'
  BY Members DEF IInv, TypeOK, OneSlotEach, IsVariable, Top, CaptureDone, heap, NoWork
<1>6. OneUpvalueEach'
  BY Members DEF IInv, OneUpvalueEach, CaptureDone, heap, NoWork
<1>7. Anchored'
  BY Members DEF IInv, TypeOK, Anchored, Top, CaptureDone, heap, NoWork
<1>8. OpenOrClosed'
  BY Members DEF IInv, TypeOK, OpenOrClosed, CaptureDone, heap, NoWork
<1>9. HeldThere'
  BY Members DEF IInv, TypeOK, HeldThere, WorkFits, CaptureDone, heap, NoWork
<1>10. ClosedGone'
  BY Members DEF IInv, TypeOK, OpenOrClosed, ClosedGone, Top, CaptureDone, heap, NoWork
<1> QED BY <1>1, <1>2, <1>3, <1>4, <1>5, <1>6, <1>7, <1>8, <1>9, <1>10 DEF IInv

\* The topmost open upvalue is closed.
LEMMA CloseUpvalueKeeps ==
  ASSUME IInv, CloseUpvalue
  PROVE  IInv'
<1> USE UpvaluesAssumption
<1> DEFINE u == Head(openUpvalues)
           n == Len(openUpvalues)
<1>0. /\ pc \in {"end", "return"} /\ openUpvalues # <<>>
      /\ location[u] >= work.last
      /\ closed' = [closed EXCEPT ![u] = stack[location[u]].value]
      /\ location' = [location EXCEPT ![u] = CLOSED]
      /\ UNCHANGED <<stack, stackTop, frames, of, closures, upvalues, pc, work>>
      /\ openUpvalues' = Tail(openUpvalues) /\ reply' = <<>>
  BY DEF CloseUpvalue, MoreToClose
<1>0a. /\ n \in Nat /\ n >= 1 /\ DOMAIN openUpvalues = 1..n /\ u = openUpvalues[1]
       /\ openUpvalues' \in Seq(Upvalue) /\ DOMAIN openUpvalues' = 1..(n - 1)
       /\ \A j \in 1..(n - 1) : openUpvalues'[j] = openUpvalues[j + 1] /\ j + 1 \in 1..n
  <2>1. openUpvalues \in Seq(Upvalue)
    BY DEF IInv, TypeOK
  <2> QED BY <2>1, <1>0
<1> HIDE DEF u, n
<1>0b. /\ u \in Upvalue /\ location[u] \in 0..Top
       /\ stack[location[u]].variable = of[u] /\ of[u] \in Variable
       /\ stack[location[u]].value \in Value
  <2>1. 1 \in DOMAIN openUpvalues
    BY <1>0a
  <2> QED BY <2>1, <1>0a, OpenTyped, StackTyped DEF IInv
<1>0c. \A j \in 2..n : /\ openUpvalues[j] \in Upvalue \ {u}
                       /\ location'[openUpvalues[j]] = location[openUpvalues[j]]
  <2> SUFFICES ASSUME NEW j \in 2..n
               PROVE  /\ openUpvalues[j] \in Upvalue \ {u}
                      /\ location'[openUpvalues[j]] = location[openUpvalues[j]]
    OBVIOUS
  <2>1. openUpvalues[j] \in Upvalue /\ location[openUpvalues[j]] \in 0..Top
    BY <1>0a, OpenTyped
  <2>2. location[u] > location[openUpvalues[j]]
    <3>1. 1 \in DOMAIN openUpvalues /\ j \in DOMAIN openUpvalues /\ 1 < j
      BY <1>0a
    <3> QED BY <3>1, <1>0a DEF IInv, Sorted
  <2>3. openUpvalues[j] # u
    BY <2>1, <2>2, <1>0b, StackTyped DEF IInv
  <2> QED BY <2>1, <2>3, <1>0 DEF IInv, TypeOK
<1>1. TypeOK'
  <2>1. /\ location' \in [Upvalue -> Nat \cup {CLOSED, NULL}]
        /\ closed' \in [Upvalue -> Value]
    BY <1>0, <1>0b DEF IInv, TypeOK
  <2> QED BY <2>1, <1>0, <1>0a DEF IInv, TypeOK, Top
<1>2. FramesNest'
  BY <1>0 DEF IInv, FramesNest, Running
<1>3. WorkFits'
  BY <1>0 DEF IInv, WorkFits, frame, Top
<1>4. Sorted'
  <2> SUFFICES ASSUME NEW i \in 1..(n - 1), NEW j \in 1..(n - 1), i < j
               PROVE  location'[openUpvalues'[i]] > location'[openUpvalues'[j]]
    BY <1>0a DEF Sorted
  <2>1. i + 1 \in 2..n /\ j + 1 \in 2..n /\ i + 1 < j + 1
    BY <1>0a
  <2>2. location[openUpvalues[i + 1]] > location[openUpvalues[j + 1]]
    BY <2>1, <1>0a DEF IInv, Sorted
  <2> QED BY <2>1, <2>2, <1>0a, <1>0c
<1>5. OneSlotEach'
  BY <1>0 DEF IInv, OneSlotEach, IsVariable
<1>6. OneUpvalueEach'
  BY <1>0 DEF IInv, OneUpvalueEach
<1>7. Anchored'
  <2> SUFFICES ASSUME NEW j \in 1..(n - 1)
               PROVE  LET v == openUpvalues'[j] IN
                      /\ location'[v] \in DOMAIN stack
                      /\ stack[location'[v]].variable = of[v]
                      /\ stack[location'[v]].isCaptured
    BY <1>0, <1>0a DEF Anchored
  <2>1. j + 1 \in 2..n /\ j + 1 \in DOMAIN openUpvalues /\ openUpvalues'[j] = openUpvalues[j + 1]
    BY <1>0a
  <2> QED BY <2>1, <1>0c DEF IInv, Anchored
<1>8. OpenOrClosed'
  <2>1. \A v \in Upvalue : location'[v] = NULL <=> of[v] = NONE
    BY <1>0, <1>0b DEF IInv, TypeOK, OpenOrClosed
  <2>2. \A v \in Upvalue : \/ location'[v] \in {CLOSED, NULL}
                           \/ \E j \in 1..(n - 1) : openUpvalues'[j] = v
    <3> SUFFICES ASSUME NEW v \in Upvalue, location'[v] \notin {CLOSED, NULL}
                 PROVE  \E j \in 1..(n - 1) : openUpvalues'[j] = v
      OBVIOUS
    <3>1. v # u /\ location[v] = location'[v]
      BY <1>0 DEF IInv, TypeOK
    <3>2. PICK i \in 1..n : openUpvalues[i] = v
      BY <3>1, <1>0, <1>0a DEF IInv, OpenOrClosed
    <3>3. i - 1 \in 1..(n - 1) /\ (i - 1) + 1 = i
      BY <3>1, <3>2, <1>0a
    <3> QED BY <3>2, <3>3, <1>0a
  <2> QED BY <2>1, <2>2, <1>0, <1>0a DEF OpenOrClosed
<1>9. HeldThere'
  <2>1. \A v \in Upvalue : location[v] # NULL => location'[v] # NULL
    BY <1>0 DEF IInv, TypeOK
  <2>2. \A c \in DOMAIN upvalues : \A i \in DOMAIN upvalues[c] : upvalues[c][i] \in Upvalue
    BY Members DEF IInv, TypeOK
  <2> QED BY <2>1, <2>2, <1>0 DEF IInv, HeldThere
<1>10. ClosedGone'
  <2> SUFFICES ASSUME NEW v \in Upvalue, NEW s \in DOMAIN stack,
                      location'[v] = CLOSED, stack[s].variable = of[v]
               PROVE  s >= work.last /\ closed'[v] = stack[s].value
    BY <1>0 DEF ClosedGone
  <2>1. CASE v = u
    <3>1. s = location[u]
      BY <2>1, <1>0b, StackTyped DEF IInv, OneSlotEach, IsVariable
    <3> QED BY <2>1, <3>1, <1>0 DEF IInv, TypeOK
  <2>2. CASE v # u
    BY <2>2, <1>0 DEF IInv, TypeOK, ClosedGone
  <2> QED BY <2>1, <2>2
<1> QED BY <1>1, <1>2, <1>3, <1>4, <1>5, <1>6, <1>7, <1>8, <1>9, <1>10 DEF IInv

\* A function has returned.
LEMMA ReturnedKeeps ==
  ASSUME IInv, Returned
  PROVE  IInv'
<1> USE UpvaluesAssumption
<1> DEFINE n == Len(frames)
           base == frame.slots
           left == IF n = 1 THEN 0 ELSE base
<1>0. /\ pc = "return" /\ Running /\ ~MoreToClose
      /\ frames' = SubSeq(frames, 1, n - 1)
      /\ UNCHANGED <<openUpvalues, heap>> /\ work' = NoWork /\ reply' = <<>>
      /\ n \in DOMAIN frames /\ n \in Nat /\ DOMAIN frames = 1..n
      /\ base \in Nat /\ base < stackTop /\ stackTop \in Nat /\ work.last = base
      /\ work.result \in Value
  BY Current, Members DEF IInv, TypeOK, WorkFits, Returned, Running
<1>0a. /\ n = 1 => pc' = "idle" /\ stackTop' = 0 /\ stack' = CutTo(Top) /\ Top = 0 /\ base = 0
       /\ n # 1 => /\ pc' = "run" /\ stackTop' = base + 1
                   /\ stack' = [s \in 0..base |-> IF s = base THEN Temporary(work.result)
                                                  ELSE stack[s]]
  BY <1>0 DEF IInv, WorkFits, Returned, Top
<1>0b. /\ frames' \in Seq(Frame) /\ DOMAIN frames' = 1..(n - 1)
       /\ \A j \in 1..(n - 1) : frames'[j] = frames[j] /\ j \in DOMAIN frames
       /\ frames' = <<>> <=> n = 1
  <2>1. frames \in Seq(Frame) /\ n - 1 \in 0..n
    BY <1>0 DEF IInv, TypeOK, Frame
  <2>2. \A j \in 1..(n - 1) : frames[j] \in Frame
    BY <1>0, Members DEF IInv
  <2>3. /\ frames' \in Seq(Frame) /\ Len(frames') = n - 1
        /\ \A j \in 1..(n - 1) : frames'[j] = frames[j]
    BY <2>1, <2>2, <1>0, SubSeqProperties
  <2>4. DOMAIN frames' = 1..(n - 1) /\ (frames' = <<>> <=> n = 1)
    <3>1. DOMAIN frames' = 1..(n - 1)
      BY <2>3, LenProperties
    <3>2. frames' # <<>> => Len(frames') \in Nat \ {0}
      BY <2>3, EmptySeq
    <3>3. frames' = <<>> => Len(frames') = 0
      BY EmptySeq
    <3> QED BY <3>1, <3>2, <3>3, <2>3, <1>0
  <2> QED BY <2>1, <2>2, <2>3, <2>4, <1>0
<1> HIDE DEF n, base
<1>0c. /\ DOMAIN stack' = 0..(stackTop' - 1) /\ stackTop' \in Nat
       /\ \A s \in 0..(left - 1) : s \in DOMAIN stack /\ s \in DOMAIN stack' /\ stack'[s] = stack[s]
       /\ \A s \in DOMAIN stack' : s \in 0..(left - 1) \/ (s = base /\ stack'[s] = Temporary(work.result))
       /\ left \in Nat /\ left <= base
  <2>1. CASE n = 1
    BY <2>1, <1>0, <1>0a, StackTyped DEF IInv, CutTo
  <2>2. CASE n # 1
    BY <2>2, <1>0, <1>0a, StackTyped DEF IInv, Top
  <2> QED BY <2>1, <2>2
<1>0d. Temporary(work.result) \in Slot /\ Temporary(work.result).variable = NONE
  BY <1>0 DEF Temporary, Slot
<1>0e. \A j \in DOMAIN openUpvalues : location[openUpvalues[j]] \in 0..(base - 1)
  <2> SUFFICES ASSUME NEW j \in DOMAIN openUpvalues
               PROVE  location[openUpvalues[j]] \in 0..(base - 1)
    OBVIOUS
  <2>1. /\ openUpvalues # <<>> /\ 1 \in DOMAIN openUpvalues /\ j \in Nat /\ j >= 1
        /\ Head(openUpvalues) = openUpvalues[1]
    BY DEF IInv, TypeOK
  <2>2. location[openUpvalues[1]] \in 0..Top /\ location[openUpvalues[j]] \in 0..Top
    BY <2>1, OpenTyped
  <2>3. location[openUpvalues[1]] < base
    BY <2>1, <2>2, <1>0, StackTyped DEF IInv, MoreToClose
  <2>4. j = 1 \/ location[openUpvalues[1]] > location[openUpvalues[j]]
    BY <2>1 DEF IInv, Sorted
  <2> QED BY <2>2, <2>3, <2>4, <1>0, StackTyped DEF IInv
<1>0f. n = 1 => openUpvalues = <<>>
  <2> SUFFICES ASSUME n = 1 PROVE openUpvalues = <<>>
    OBVIOUS
  <2>1. \A j \in DOMAIN openUpvalues : FALSE
    BY <1>0a, <1>0e
  <2>2. openUpvalues \in Seq(Upvalue)
    BY DEF IInv, TypeOK
  <2>3. openUpvalues # <<>> => Len(openUpvalues) \in Nat \ {0} /\ 1 \in DOMAIN openUpvalues
    <3>1. DOMAIN openUpvalues = 1..Len(openUpvalues)
      BY <2>2, LenProperties
    <3>2. openUpvalues # <<>> => Len(openUpvalues) \in Nat \ {0}
      BY <2>2, EmptySeq
    <3> QED BY <3>1, <3>2
  <2> QED BY <2>1, <2>3
<1>0g. \A j \in DOMAIN openUpvalues : location[openUpvalues[j]] \in 0..(left - 1)
  BY <1>0, <1>0a, <1>0e
<1> HIDE DEF left
<1>1. TypeOK'
  <2>1. \A s \in 0..(stackTop' - 1) : stack'[s] \in Slot
    BY <1>0c, <1>0d, StackTyped DEF IInv
  <2>2. stack' = [s \in 0..(stackTop' - 1) |-> stack'[s]]
    <3>1. CASE n = 1
      BY <3>1, <1>0a DEF CutTo, Top
    <3>2. CASE n # 1
      <4>1. (base + 1) - 1 = base
        BY <1>0
      <4> QED BY <3>2, <4>1, <1>0a
    <3> QED BY <3>1, <3>2
  <2>3. stack' \in [0..Top' -> Slot]
    BY <2>1, <2>2 DEF Top
  <2>4. pc' \in {"idle", "run", "capture", "end", "return", "exit"}
    BY <1>0a
  <2> QED BY <2>3, <2>4, <1>0, <1>0b, <1>0c, StackOnly
<1>2. FramesNest'
  <2>1. \A j \in 1..(n - 1) : frames[j].slots < base + 1 /\ frames[j].closure \in closures
    <3> SUFFICES ASSUME NEW j \in 1..(n - 1)
                 PROVE  frames[j].slots < base + 1 /\ frames[j].closure \in closures
      OBVIOUS
    <3>1. j \in DOMAIN frames /\ n \in DOMAIN frames /\ j < n
      BY <1>0
    <3>2. frames[j].slots < frames[n].slots /\ frames[j].slots \in Nat
      BY <3>1, Members DEF IInv, FramesNest
    <3> QED BY <3>1, <3>2, <1>0 DEF IInv, FramesNest, frame, base, n
  <2>2. \A i, j \in 1..(n - 1) : i < j => frames[i].slots < frames[j].slots
    BY <1>0, <1>0b DEF IInv, FramesNest
  <2>3. closures' = closures /\ openUpvalues' = openUpvalues
    BY <1>0 DEF heap
  <2>4. CASE n = 1
    BY <2>3, <2>4, <1>0a, <1>0b, <1>0f DEF FramesNest, Running
  <2>5. CASE n # 1
    BY <2>1, <2>2, <2>3, <2>5, <1>0a, <1>0b DEF FramesNest, Running
  <2> QED BY <2>4, <2>5
<1>3. WorkFits'
  BY <1>0, <1>0a DEF IInv, WorkFits, NoWork, heap
<1>4. Sorted'
  BY <1>0 DEF IInv, Sorted, heap
<1>5. OneSlotEach'
  <2>1. \A s \in DOMAIN stack' : stack'[s].variable # NONE =>
          s \in DOMAIN stack /\ stack'[s] = stack[s]
    BY <1>0c, <1>0d
  <2> QED BY <2>1 DEF IInv, OneSlotEach, IsVariable
<1>6. OneUpvalueEach'
  BY <1>0 DEF IInv, OneUpvalueEach, heap
<1>7. Anchored'
  BY <1>0, <1>0c, <1>0g DEF IInv, Anchored, heap
<1>8. OpenOrClosed'
  BY <1>0 DEF IInv, OpenOrClosed, heap
<1>9. HeldThere'
  BY <1>0 DEF IInv, HeldThere, heap
<1>10. ClosedGone'
  <2> SUFFICES ASSUME NEW u \in Upvalue, NEW s \in DOMAIN stack',
                      location[u] = CLOSED, stack'[s].variable = of[u]
               PROVE  FALSE
    BY <1>0 DEF ClosedGone, heap
  <2>1. of[u] # NONE
    BY DEF IInv, OpenOrClosed
  <2>2. s \in 0..(left - 1) /\ s \in DOMAIN stack /\ stack[s].variable = of[u]
    BY <2>1, <1>0c, <1>0d
  <2>3. s >= work.last
    BY <2>2 DEF IInv, ClosedGone
  <2> QED BY <2>2, <2>3, <1>0, <1>0c
<1> QED BY <1>1, <1>2, <1>3, <1>4, <1>5, <1>6, <1>7, <1>8, <1>9, <1>10 DEF IInv

\* Closures that are out of reach are freed, and their upvalues.
LEMMA CollectGarbageKeeps ==
  ASSUME IInv, NEW C \in SUBSET Closure, CollectGarbage(C)
  PROVE  IInv'
<1> USE UpvaluesAssumption
<1>1. TypeOK'
  BY Members DEF IInv, TypeOK, Slot, Top, CollectGarbage
<1>2. FramesNest'
  BY Members DEF IInv, TypeOK, FramesNest, Running, CollectGarbage
<1>3. WorkFits'
  BY Members DEF IInv, TypeOK, WorkFits, FramesNest, frame, Top, NoWork, CollectGarbage
<1>4. Sorted'
  BY Members DEF IInv, Sorted, CollectGarbage
<1>5. OneSlotEach'
  BY Members DEF IInv, TypeOK, OneSlotEach, IsVariable, Top, CollectGarbage
<1>6. OneUpvalueEach'
  BY Members DEF IInv, OneUpvalueEach, CollectGarbage
<1>7. Anchored'
  BY Members DEF IInv, TypeOK, Anchored, Top, CollectGarbage
<1>8. OpenOrClosed'
  BY Members DEF IInv, TypeOK, OpenOrClosed, CollectGarbage
<1>9. HeldThere'
  BY Members DEF IInv, TypeOK, HeldThere, WorkFits, CollectGarbage
<1>10. ClosedGone'
  BY Members DEF IInv, TypeOK, OpenOrClosed, ClosedGone, Top, CollectGarbage
<1> QED BY <1>1, <1>2, <1>3, <1>4, <1>5, <1>6, <1>7, <1>8, <1>9, <1>10 DEF IInv

\* A closed upvalue is assigned.
LEMMA ClosedAssignedKeeps ==
  ASSUME IInv, pc = "run", NEW u \in Upvalue, location[u] = CLOSED, NEW v \in Value,
         closed' = [closed EXCEPT ![u] = v], reply' = <<>>,
         UNCHANGED <<stack, stackTop, frames, openUpvalues, location, of, closures, upvalues,
                     pc, work>>
  PROVE  IInv'
<1>1. TypeOK'
  BY DEF IInv, TypeOK, Top
<1>2. FramesNest' /\ WorkFits' /\ HeldThere'
  BY DEF IInv, FramesNest, Running, WorkFits, frame, Top, HeldThere
<1>3. Sorted' /\ OneSlotEach' /\ OneUpvalueEach' /\ Anchored' /\ OpenOrClosed'
  BY DEF IInv, Sorted, OneSlotEach, IsVariable, OneUpvalueEach, Anchored, OpenOrClosed
<1>4. ClosedGone'
  BY DEF IInv, ClosedGone
<1> QED BY <1>1, <1>2, <1>3, <1>4 DEF IInv

\* The upvalues that an instruction of the running function can name.
LEMMA NamedThere ==
  ASSUME IInv, Running, NEW i \in InReach
  PROVE  /\ Named(i) \in Upvalue /\ location[Named(i)] # NULL /\ of[Named(i)] \in Variable
         /\ location[Named(i)] = CLOSED \/ location[Named(i)] \in DOMAIN stack
         /\ location[Named(i)] # CLOSED => stack[location[Named(i)]].variable = of[Named(i)]
<1> USE UpvaluesAssumption
<1>1. frame.closure \in DOMAIN upvalues /\ frame.closure \in Closure \cup {SCRIPT}
      /\ i \in DOMAIN upvalues[frame.closure]
  BY Current DEF IInv, TypeOK, InReach
<1>2. Named(i) \in Upvalue /\ location[Named(i)] # NULL
  BY <1>1, Members DEF IInv, HeldThere, Named
<1>3. of[Named(i)] \in Variable
  BY <1>2 DEF IInv, TypeOK, OpenOrClosed
<1>4. \/ location[Named(i)] = CLOSED
      \/ \E j \in DOMAIN openUpvalues : openUpvalues[j] = Named(i)
  BY <1>2 DEF IInv, OpenOrClosed, Running
<1> QED BY <1>2, <1>3, <1>4 DEF IInv, Anchored

\* What is read is a value.
LEMMA DereferencedTyped ==
  ASSUME IInv, Running, NEW i \in InReach
  PROVE  Dereferenced(Named(i)) \subseteq Value
BY NamedThere, StackTyped DEF IInv, TypeOK, Dereferenced

LEMMA InitIInv == Init => IInv
<1> USE UpvaluesAssumption
<1> SUFFICES ASSUME Init PROVE IInv
  OBVIOUS
<1>1. TypeOK
  BY DEF Init, TypeOK, Slot, Top, Temporary, NoWork
<1>2. FramesNest /\ WorkFits
  BY DEF Init, FramesNest, Running, WorkFits, NoWork
<1>3. Sorted /\ OneSlotEach /\ OneUpvalueEach /\ Anchored /\ OpenOrClosed /\ ClosedGone
  BY DEF Init, Sorted, OneSlotEach, OneUpvalueEach, Anchored, OpenOrClosed, ClosedGone
<1>4. HeldThere
  BY DEF Init, HeldThere
<1> QED BY <1>1, <1>2, <1>3, <1>4 DEF IInv

\* The instructions on the stack.
LEMMA StackSteps ==
  ASSUME IInv,
         \/ \E v \in Value : Push(v)
         \/ Pop \/ EndScope \/ ScopeEnded
         \/ \E s \in DOMAIN stack : GetLocal(s) \/ SetLocal(s)
  PROVE  IInv'
<1> USE UpvaluesAssumption
<1>1. ASSUME NEW v \in Value, Push(v) PROVE IInv'
  BY <1>1, PushedKeeps DEF Push
<1>2. CASE Pop
  <2>1. \A j \in DOMAIN openUpvalues : location[openUpvalues[j]] < Top
    BY <1>2, OpenTyped, StackTyped DEF IInv, Pop, IsVariable
  <2> QED BY <1>2, <2>1, CutKeeps DEF Pop
<1>3. CASE EndScope /\ stack[Top].isCaptured
  BY <1>3, EndScopeKeeps
<1>4. CASE EndScope /\ ~stack[Top].isCaptured
  <2>1. \A j \in DOMAIN openUpvalues : location[openUpvalues[j]] < Top
    BY <1>4, OpenTyped, StackTyped DEF IInv
  <2>2. Top > frame.slots
    BY <1>4, Current, StackTyped DEF IInv, EndScope, Running
  <2> QED BY <1>4, <2>1, <2>2, CutKeeps DEF EndScope
<1>5. CASE ScopeEnded
  <2>1. Running /\ work.last = Top /\ Top \in Int
    BY <1>5, StackTyped DEF IInv, ScopeEnded, WorkFits, Running
  <2>2. \A j \in DOMAIN openUpvalues : location[openUpvalues[j]] < Top
    <3> SUFFICES ASSUME NEW j \in DOMAIN openUpvalues PROVE location[openUpvalues[j]] < Top
      OBVIOUS
    <3>1. /\ openUpvalues # <<>> /\ 1 \in DOMAIN openUpvalues /\ j \in Nat /\ j >= 1
          /\ Head(openUpvalues) = openUpvalues[1]
      BY DEF IInv, TypeOK
    <3>2. location[openUpvalues[1]] \in 0..Top /\ location[openUpvalues[j]] \in 0..Top
      BY <3>1, OpenTyped
    <3>3. location[openUpvalues[1]] < Top
      BY <1>5, <2>1, <3>1, <3>2 DEF ScopeEnded, MoreToClose
    <3>4. j = 1 \/ location[openUpvalues[1]] > location[openUpvalues[j]]
      BY <3>1 DEF IInv, Sorted
    <3> QED BY <3>2, <3>3, <3>4, <2>1
  <2>3. Top > frame.slots
    BY <1>5 DEF IInv, WorkFits, ScopeEnded
  <2> QED BY <1>5, <2>2, <2>3, CutKeeps DEF ScopeEnded
<1>6. ASSUME NEW s \in DOMAIN stack, GetLocal(s) PROVE IInv'
  <2>1. stack[s].variable \in Variable /\ stack[s].value \in Value
    BY <1>6, StackTyped DEF IInv, GetLocal, IsVariable
  <2> QED BY <1>6, <2>1, PushedKeeps DEF GetLocal
<1>7. ASSUME NEW s \in DOMAIN stack, SetLocal(s) PROVE IInv'
  <2>1. Top \in DOMAIN stack
    BY <1>7, StackTyped DEF IInv, SetLocal
  <2>2. stack[Top].value \in Value
    BY <2>1, StackTyped DEF IInv
  <2> QED BY <1>7, <2>2, AssignedKeeps DEF SetLocal
<1> QED BY <1>1, <1>2, <1>3, <1>4, <1>5, <1>6, <1>7

\* The instructions on upvalues.
LEMMA UpvalueSteps ==
  ASSUME IInv,
         \/ \E s \in DOMAIN stack, k \in 0..Len(openUpvalues) :
              ReuseUpvalue(s, k) \/ \E u \in Upvalue : CreateUpvalue(s, k, u)
         \/ \E i \in InReach : ShareUpvalue(i) \/ GetUpvalue(i) \/ SetUpvalue(i)
  PROVE  IInv'
<1> USE UpvaluesAssumption
<1>1. ASSUME NEW s \in DOMAIN stack, NEW k \in 0..Len(openUpvalues), ReuseUpvalue(s, k)
      PROVE  IInv'
  <2>1. k + 1 \in DOMAIN openUpvalues
    BY <1>1, Members DEF IInv, ReuseUpvalue, Found
  <2>2. openUpvalues[k + 1] \in Upvalue /\ location[openUpvalues[k + 1]] # NULL
    BY <2>1, OpenTyped
  <2> QED BY <1>1, <2>2, CapturedKeeps DEF ReuseUpvalue
<1>2. ASSUME NEW s \in DOMAIN stack, NEW k \in 0..Len(openUpvalues), NEW u \in Upvalue,
             CreateUpvalue(s, k, u)
      PROVE  IInv'
  BY <1>2, CreateUpvalueKeeps
<1>3. ASSUME NEW i \in InReach, ShareUpvalue(i) PROVE IInv'
  <2>1. Named(i) \in Upvalue /\ location[Named(i)] # NULL
    BY <1>3, NamedThere DEF ShareUpvalue, Running
  <2> QED BY <1>3, <2>1, CapturedKeeps DEF ShareUpvalue
<1>4. ASSUME NEW i \in InReach, GetUpvalue(i) PROVE IInv'
  <2>1. Running
    BY <1>4 DEF GetUpvalue, Running
  <2>2. PICK v \in Dereferenced(Named(i)) :
          /\ stack' = Pushed(Temporary(v)) /\ stackTop' = stackTop + 1
          /\ reply' = <<of[Named(i)], v>>
    BY <1>4 DEF GetUpvalue
  <2>3. v \in Value /\ of[Named(i)] \in Variable
    BY <2>1, DereferencedTyped, NamedThere
  <2> QED BY <1>4, <2>2, <2>3, PushedKeeps DEF GetUpvalue
<1>5. ASSUME NEW i \in InReach, SetUpvalue(i) PROVE IInv'
  <2>1. Running
    BY <1>5 DEF SetUpvalue, Running
  <2>2. Top \in DOMAIN stack
    BY <1>5, <2>1, StackTyped, Current DEF IInv, SetUpvalue
  <2>3. stack[Top].value \in Value
    BY <2>2, StackTyped DEF IInv
  <2>4. CASE location[Named(i)] = CLOSED
    BY <1>5, <2>1, <2>3, <2>4, NamedThere, ClosedAssignedKeeps DEF SetUpvalue
  <2>5. CASE location[Named(i)] # CLOSED
    <3>1. location[Named(i)] \in DOMAIN stack
      BY <2>1, <2>5, NamedThere
    <3> QED BY <1>5, <2>3, <2>5, <3>1, AssignedKeeps DEF SetUpvalue, heap
  <2> QED BY <2>4, <2>5
<1> QED BY <1>1, <1>2, <1>3, <1>4, <1>5

\* The closure that OP_CLOSURE makes.
LEMMA MakeClosureSteps ==
  ASSUME IInv,
         \E c \in Closure, n \in 0..MaxUpvalues :
           \/ MakeClosure(c, n, Temporary(NIL))
           \/ \E x \in Variable, captured \in BOOLEAN :
                MakeClosure(c, n, [variable |-> x, isCaptured |-> captured, value |-> NIL])
  PROVE  IInv'
<1> USE UpvaluesAssumption
<1>1. Temporary(NIL) \in Slot
  BY DEF Temporary, Slot
<1>2. \A x \in Variable, captured \in BOOLEAN :
        [variable |-> x, isCaptured |-> captured, value |-> NIL] \in Slot
  BY DEF Slot
<1>3. \A n \in 0..MaxUpvalues : n \in Nat
  OBVIOUS
<1> QED BY <1>1, <1>2, <1>3, MakeClosureKeeps

LEMMA NextIInv == ErrorsEnd /\ IInv /\ [Next]_vars => IInv'
<1> USE UpvaluesAssumption
<1> SUFFICES ASSUME ErrorsEnd, IInv, [Next]_vars PROVE IInv'
  OBVIOUS
<1>1. CASE \E x \in Variable, captured \in BOOLEAN : Declare(x, captured)
  BY <1>1, DeclareKeeps
<1>2. CASE Interpret
  BY <1>2, InterpretKeeps
<1>3. CASE \E c \in closures \ {SCRIPT}, n \in 0..MaxArity, m \in BOOLEAN : Call(c, n, m)
  <2>1. PICK c \in closures \ {SCRIPT}, n \in 0..MaxArity, m \in BOOLEAN : Call(c, n, m)
    BY <1>3
  <2>2. n \in Nat
    OBVIOUS
  <2> QED BY <2>1, <2>2, CallKeeps
<1>4. CASE Return
  BY <1>4, ReturnKeeps
<1>5. CASE Returned
  BY <1>5, ReturnedKeeps
<1>6. CASE RuntimeError
  BY <1>6, RuntimeErrorKeeps
<1>7. CASE CaptureDone
  BY <1>7, CaptureDoneKeeps
<1>8. CASE CloseUpvalue
  BY <1>8, CloseUpvalueKeeps
<1>9. CASE \E C \in SUBSET Closure : CollectGarbage(C)
  BY <1>9, CollectGarbageKeeps
<1>10. CASE UNCHANGED vars
  BY <1>10 DEF IInv, TypeOK, FramesNest, Running, WorkFits, Sorted, OneSlotEach, OneUpvalueEach,
               Anchored, OpenOrClosed, HeldThere, ClosedGone, IsVariable, Top, frame, vars, heap
<1> QED BY <1>1, <1>2, <1>3, <1>4, <1>5, <1>6, <1>7, <1>8, <1>9, <1>10,
           StackSteps, UpvalueSteps, MakeClosureSteps DEF Next

-----------------------------------------------------------------------------
(* The theorems *)

\* The inductive invariant, for a program that ends at its first runtime error
\* (main.c:50-57). UpvaluesPrompt.cfg shows that at the prompt it does not hold.
THEOREM Invariance == ErrorsEnd => (Spec => []IInv)
<1> SUFFICES ASSUME ErrorsEnd PROVE Spec => []IInv
  OBVIOUS
<1>1. IInv /\ [Next]_vars => IInv'
  BY NextIInv
<1>2. QED BY InitIInv, <1>1, PTL DEF Spec

\* Frames, stack, list and upvalues keep their types.
THEOREM TypeCorrect == ErrorsEnd => (Spec => []TypeOK)
<1>1. IInv => TypeOK
  BY DEF IInv
<1>2. QED BY <1>1, Invariance, PTL

\* vm.openUpvalues stays in the order that captureUpvalue and closeUpvalues
\* rely on, however captures, scopes and calls are interleaved.
THEOREM StaysSorted == ErrorsEnd => (Spec => []Sorted)
<1>1. IInv => Sorted
  BY DEF IInv
<1>2. QED BY <1>1, Invariance, PTL

\* All the closures that capture a variable share one upvalue.
THEOREM Shared == ErrorsEnd => (Spec => []OneUpvalueEach)
<1>1. IInv => OneUpvalueEach
  BY DEF IInv
<1>2. QED BY <1>1, Invariance, PTL

\* An upvalue never points at a slot that another variable has taken.
THEOREM NeverMistaken == ErrorsEnd => (Spec => []ClosesOverItsVariable)
<1> USE UpvaluesAssumption
<1>1. IInv => ClosesOverItsVariable
  <2> SUFFICES ASSUME IInv, NEW u \in Upvalue, location[u] \in DOMAIN stack
               PROVE  stack[location[u]].variable = of[u]
    BY DEF ClosesOverItsVariable, Used
  <2>1. location[u] \notin {CLOSED, NULL}
    BY StackTyped DEF IInv
  <2>2. pc # "exit"
    BY StackTyped DEF IInv, FramesNest, Running, Top
  <2>3. \E j \in DOMAIN openUpvalues : openUpvalues[j] = u
    BY <2>1, <2>2 DEF IInv, OpenOrClosed
  <2> QED BY <2>3 DEF IInv, Anchored
<1>2. QED BY <1>1, Invariance, PTL

-----------------------------------------------------------------------------
(* Upvalues.tla implements Variables.tla when the program ends at its      *)
(* first runtime error: the value of a variable is in its slot while it    *)
(* has one and in its closed upvalue afterwards, and the invariant says    *)
(* that there is only one of each.                                         *)

\* The variables there are.
Known == IF pc = "exit" THEN {} ELSE Live \ {NONE}

\* Where their values are.
StoreFacts ==
  /\ DOMAIN Store = Known /\ Store = [x \in Known |-> Store[x]]
  /\ \A x \in Known :
       /\ x \in Variable /\ Store[x] \in Value
       /\ \/ \E s \in DOMAIN stack : stack[s].variable = x
          \/ \E u \in Upvalue : of[u] = x /\ location[u] = CLOSED
  /\ pc # "exit" =>
       /\ \A s \in DOMAIN stack :
            IsVariable(s) => stack[s].variable \in Known /\ Store[stack[s].variable] = stack[s].value
       /\ \A u \in Upvalue :
            location[u] # NULL => of[u] \in Known
       /\ \A u \in Upvalue :
            location[u] = CLOSED => Store[of[u]] = closed[u]

LEMMA StoreIs == IInv => StoreFacts
<1> USE UpvaluesAssumption
<1> SUFFICES ASSUME IInv PROVE StoreFacts
  OBVIOUS
<1> DEFINE slots(x) == {s \in DOMAIN stack : stack[s].variable = x}
<1>1. DOMAIN Store = Known /\ Store = [x \in Known |-> Store[x]]
  BY DEF Store, Known
<1>2. \A x \in Known : Store[x] = IF slots(x) # {} THEN stack[CHOOSE s \in slots(x) : TRUE].value
                                  ELSE closed[CHOOSE u \in Upvalue : of[u] = x]
  BY DEF Store, Known
<1>3. \A x \in Known : /\ x \in Variable
                       /\ slots(x) # {} \/ \E u \in Upvalue : of[u] = x
  BY StackTyped DEF IInv, TypeOK, Known, Live
<1>4. \A x \in Known : \A s \in slots(x) : Store[x] = stack[s].value
  <2> SUFFICES ASSUME NEW x \in Known, NEW s \in slots(x) PROVE Store[x] = stack[s].value
    OBVIOUS
  <2> DEFINE t == CHOOSE t \in slots(x) : TRUE
  <2>1. t \in slots(x)
    OBVIOUS
  <2>2. t = s
    BY <2>1, <1>3 DEF IInv, OneSlotEach, IsVariable
  <2> QED BY <2>2, <1>2
<1>5. \A x \in Known, u \in Upvalue : slots(x) = {} /\ of[u] = x =>
        Store[x] = closed[u] /\ location[u] = CLOSED
  <2> SUFFICES ASSUME NEW x \in Known, NEW u \in Upvalue, slots(x) = {}, of[u] = x
               PROVE  Store[x] = closed[u] /\ location[u] = CLOSED
    OBVIOUS
  <2> DEFINE v == CHOOSE v \in Upvalue : of[v] = x
  <2>1. v \in Upvalue /\ of[v] = x
    OBVIOUS
  <2>2. v = u
    BY <2>1, <1>3 DEF IInv, OneUpvalueEach
  <2>3. pc # "exit" /\ location[u] # NULL
    BY <1>3 DEF IInv, OpenOrClosed, Known
  <2>4. location[u] = CLOSED
    BY <2>3 DEF IInv, OpenOrClosed, Anchored
  <2> QED BY <2>2, <2>4, <1>2
<1>6. ASSUME pc # "exit"
      PROVE  /\ \A s \in DOMAIN stack : IsVariable(s) => stack[s].variable \in Known
             /\ \A u \in Upvalue : location[u] # NULL => of[u] \in Known
  <2>1. Known = Live \ {NONE}
    BY <1>6 DEF Known
  <2>2. \A u \in Upvalue : location[u] # NULL => of[u] # NONE
    BY DEF IInv, OpenOrClosed
  <2> QED BY <2>1, <2>2 DEF Live, IsVariable
<1>7. ASSUME NEW x \in Known PROVE Store[x] \in Value
  <2>1. CASE slots(x) = {}
    <3>1. PICK u \in Upvalue : of[u] = x
      BY <2>1, <1>3
    <3>2. Store[x] = closed[u]
      BY <2>1, <3>1, <1>5
    <3> QED BY <3>2 DEF IInv, TypeOK
  <2>2. CASE slots(x) # {}
    <3>1. PICK s \in slots(x) : TRUE
      BY <2>2
    <3>2. Store[x] = stack[s].value
      BY <1>4
    <3> QED BY <3>2, StackTyped DEF IInv
  <2> QED BY <2>1, <2>2
<1>8. \A x \in Known : \/ \E s \in DOMAIN stack : stack[s].variable = x
                       \/ \E u \in Upvalue : of[u] = x /\ location[u] = CLOSED
  BY <1>3, <1>5
<1>9. ASSUME pc # "exit", NEW u \in Upvalue, location[u] = CLOSED
      PROVE  Store[of[u]] = closed[u]
  <2>1. of[u] \in Known
    BY <1>6, <1>9
  <2>2. CASE slots(of[u]) = {}
    BY <2>1, <2>2, <1>5
  <2>3. CASE slots(of[u]) # {}
    BY <2>1, <2>3, <1>4, <1>9 DEF IInv, ClosedGone
  <2> QED BY <2>2, <2>3
<1>10. ASSUME pc # "exit", NEW s \in DOMAIN stack, IsVariable(s)
       PROVE  Store[stack[s].variable] = stack[s].value
  BY <1>4, <1>6, <1>10
<1> QED BY <1>1, <1>3, <1>6, <1>7, <1>8, <1>9, <1>10 DEF StoreFacts

\* The same after a step.
LEMMA StoreIsNext == IInv' => StoreFacts'
BY StoreIs, PTL

\* A variable keeps its value: its slot does, or its closed upvalue.
LEMMA Kept ==
  ASSUME IInv, IInv', pc # "exit", pc' # "exit", NEW x,
         \/ \E s \in DOMAIN stack : /\ s \in DOMAIN stack' /\ stack[s].variable = x
                                    /\ IsVariable(s) /\ stack'[s] = stack[s]
         \/ \E u \in Upvalue : /\ location[u] = CLOSED /\ location'[u] = CLOSED
                               /\ of[u] = x /\ of'[u] = x /\ closed'[u] = closed[u]
  PROVE  x \in Known /\ x \in Known' /\ Store'[x] = Store[x]
<1> USE UpvaluesAssumption
<1>1. StoreFacts /\ StoreFacts'
  BY StoreIs, StoreIsNext
<1>2. ASSUME NEW s \in DOMAIN stack, s \in DOMAIN stack', stack[s].variable = x, IsVariable(s),
             stack'[s] = stack[s]
      PROVE  x \in Known /\ x \in Known' /\ Store'[x] = Store[x]
  BY <1>1, <1>2 DEF StoreFacts, IsVariable
<1>3. ASSUME NEW u \in Upvalue, location[u] = CLOSED, location'[u] = CLOSED, of[u] = x, of'[u] = x,
             closed'[u] = closed[u]
      PROVE  x \in Known /\ x \in Known' /\ Store'[x] = Store[x]
  <2>1. x \in Known /\ Store[x] = closed[u]
    BY <1>1, <1>3 DEF StoreFacts
  <2>2. x \in Known' /\ Store'[x] = closed'[u]
    BY <1>1, <1>3 DEF StoreFacts
  <2> QED BY <2>1, <2>2, <1>3
<1> QED BY <1>2, <1>3

\* A step that leaves the value of every variable that stays.
LEMMA Leaves ==
  ASSUME IInv, IInv', reply' = <<>>,
         \A x \in Known' : x \in Known /\ Store'[x] = Store[x]
  PROVE  Promise!Next
<1> DEFINE S == Known \ Known'
<1>1. StoreFacts /\ StoreFacts'
  BY StoreIs, StoreIsNext
<1>2. S \in SUBSET Variable
  BY <1>1 DEF StoreFacts
<1>3. Store' = [x \in DOMAIN Store \ S |-> Store[x]]
  <2>1. DOMAIN Store \ S = Known'
    BY <1>1 DEF StoreFacts
  <2>2. Store' = [x \in Known' |-> Store'[x]]
    BY <1>1 DEF StoreFacts
  <2> QED BY <2>1, <2>2
<1>4. Promise!Leave(S)
  BY <1>3 DEF Promise!Leave
<1> QED BY <1>2, <1>4 DEF Promise!Next

\* A step that brings new variables and keeps the others.
LEMMA Enters ==
  ASSUME IInv, IInv', reply' = <<>>,
         \A x \in Known : x \in Known' /\ Store'[x] = Store[x]
  PROVE  Promise!Next
<1> DEFINE S == Known' \ Known
           new == [x \in S |-> Store'[x]]
<1>1. StoreFacts /\ StoreFacts'
  BY StoreIs, StoreIsNext
<1>2. S \in SUBSET Variable /\ new \in [S -> Value]
  BY <1>1 DEF StoreFacts
<1>3. Store' = [x \in DOMAIN Store \cup DOMAIN new |->
                  IF x \in DOMAIN new THEN new[x] ELSE Store[x]]
  <2>1. DOMAIN Store \cup DOMAIN new = Known' /\ DOMAIN new = S
    BY <1>1 DEF StoreFacts
  <2>2. Store' = [x \in Known' |-> Store'[x]]
    BY <1>1 DEF StoreFacts
  <2> QED BY <2>1, <2>2
<1>4. DOMAIN new \cap DOMAIN Store = {}
  BY <1>1 DEF StoreFacts
<1>5. Promise!Enter(new)
  BY <1>3, <1>4 DEF Promise!Enter
<1> QED BY <1>2, <1>5 DEF Promise!Next

\* A step that assigns to one variable.
LEMMA Assigns ==
  ASSUME IInv, IInv', reply' = <<>>, NEW x \in Known, NEW v \in Value,
         Known' = Known, Store'[x] = v,
         \A y \in Known : y # x => Store'[y] = Store[y]
  PROVE  Promise!Next
<1>1. StoreFacts /\ StoreFacts'
  BY StoreIs, StoreIsNext
<1>2. x \in Variable /\ DOMAIN Store = Known /\ Store = [y \in Known |-> Store[y]]
      /\ Store' = [y \in Known |-> Store'[y]]
  BY <1>1 DEF StoreFacts
<1>3. Store' = [Store EXCEPT ![x] = v]
  BY <1>2
<1>4. Promise!Assign(x, v)
  BY <1>2, <1>3 DEF Promise!Assign
<1> QED BY <1>2, <1>4 DEF Promise!Next

\* Whatever variables there are afterwards are those of before.
LEMMA NothingNew ==
  ASSUME IInv, IInv', pc # "exit", pc' # "exit",
         \A s \in DOMAIN stack' : stack'[s].variable # NONE =>
           s \in DOMAIN stack /\ stack'[s] = stack[s],
         \A u \in Upvalue : location'[u] = CLOSED =>
           location[u] = CLOSED /\ of'[u] = of[u] /\ closed'[u] = closed[u]
  PROVE  \A x \in Known' : x \in Known /\ Store'[x] = Store[x]
<1> USE UpvaluesAssumption
<1> SUFFICES ASSUME NEW x \in Known' PROVE x \in Known /\ Store'[x] = Store[x]
  OBVIOUS
<1>1. StoreFacts'
  BY StoreIsNext
<1>2. x # NONE
  BY <1>1 DEF StoreFacts
<1>3. CASE \E s \in DOMAIN stack' : stack'[s].variable = x
  BY <1>2, <1>3, Kept DEF IsVariable
<1>4. CASE \E u \in Upvalue : of'[u] = x /\ location'[u] = CLOSED
  BY <1>4, Kept
<1> QED BY <1>1, <1>3, <1>4 DEF StoreFacts

\* Whatever variables there were are still there.
LEMMA NothingGone ==
  ASSUME IInv, IInv', pc # "exit", pc' # "exit",
         \A s \in DOMAIN stack : IsVariable(s) => s \in DOMAIN stack' /\ stack'[s] = stack[s],
         \A u \in Upvalue : location[u] = CLOSED =>
           location'[u] = CLOSED /\ of'[u] = of[u] /\ closed'[u] = closed[u]
  PROVE  \A x \in Known : x \in Known' /\ Store'[x] = Store[x]
<1> USE UpvaluesAssumption
<1> SUFFICES ASSUME NEW x \in Known PROVE x \in Known' /\ Store'[x] = Store[x]
  OBVIOUS
<1>1. StoreFacts
  BY StoreIs
<1>2. x # NONE
  BY <1>1 DEF StoreFacts
<1>3. CASE \E s \in DOMAIN stack : stack[s].variable = x
  BY <1>2, <1>3, Kept DEF IsVariable
<1>4. CASE \E u \in Upvalue : of[u] = x /\ location[u] = CLOSED
  BY <1>4, Kept
<1> QED BY <1>1, <1>3, <1>4 DEF StoreFacts

\* A variable is read, wherever it is.
LEMMA Reads ==
  ASSUME IInv, IInv', pc = "run", UNCHANGED <<heap, pc>>, NEW v \in Value,
         stack' = Pushed(Temporary(v)), NEW x \in Known, Store[x] = v, reply' = <<x, v>>
  PROVE  Promise!Next
<1> USE UpvaluesAssumption
<1>1. StoreFacts /\ StoreFacts'
  BY StoreIs, StoreIsNext
<1>2. \A s \in DOMAIN stack : s \in DOMAIN stack' /\ stack'[s] = stack[s]
  BY StackTyped DEF IInv, Pushed, Top
<1>3. \A s \in DOMAIN stack' : stack'[s].variable # NONE => s \in DOMAIN stack /\ stack'[s] = stack[s]
  BY StackTyped DEF IInv, Pushed, Top, Temporary
<1>4. UNCHANGED <<location, of, closed>>
  BY DEF heap
<1>5. \A y \in Known : y \in Known' /\ Store'[y] = Store[y]
  BY <1>2, <1>4, NothingGone
<1>6. \A y \in Known' : y \in Known
  BY <1>3, <1>4, NothingNew
<1>7. Store' = Store
  <2>1. Known' = Known
    BY <1>5, <1>6
  <2> QED BY <2>1, <1>1, <1>5 DEF StoreFacts
<1>8. Promise!Read(x) /\ x \in Variable
  BY <1>1, <1>7 DEF StoreFacts, Promise!Read
<1> QED BY <1>8 DEF Promise!Next

LEMMA InitPromise == Init => Promise!Init
<1> SUFFICES ASSUME Init PROVE Promise!Init
  OBVIOUS
<1>1. Known = {} /\ reply = <<>>
  BY DEF Init, Known, Live
<1>2. StoreFacts
  BY InitIInv, StoreIs
<1>3. Store = [x \in {} |-> {}]
  BY <1>1, <1>2 DEF StoreFacts
<1> QED BY <1>1, <1>3 DEF Promise!Init

\* The steps that only take variables away, or none.
LEMMA QuietSteps ==
  ASSUME IInv, IInv',
         \/ \E v \in Value : Push(v)
         \/ Pop \/ EndScope \/ Interpret \/ Return \/ Returned \/ CaptureDone \/ ScopeEnded
         \/ \E c \in Closure, n \in 0..MaxUpvalues : MakeClosure(c, n, Temporary(NIL))
         \/ \E s \in DOMAIN stack, k \in 0..Len(openUpvalues) : ReuseUpvalue(s, k)
         \/ \E i \in InReach : ShareUpvalue(i)
  PROVE  Promise!Next
<1> USE UpvaluesAssumption
<1>1. pc # "exit" /\ pc' # "exit" /\ reply' = <<>> /\ UNCHANGED <<location, of, closed>>
  BY DEF Push, Pop, EndScope, Interpret, Return, Returned, CaptureDone, ScopeEnded, MakeClosure,
         ReuseUpvalue, ShareUpvalue, Captured, heap
<1>2. \A s \in DOMAIN stack' : stack'[s].variable # NONE =>
        s \in DOMAIN stack /\ stack'[s] = stack[s]
  <2>1. stackTop \in Nat /\ DOMAIN stack = 0..Top /\ Top = stackTop - 1
    BY StackTyped DEF IInv, Top
  <2>2. ASSUME NEW v \in Value, stack' = Pushed(Temporary(v)),
               NEW s \in DOMAIN stack', stack'[s].variable # NONE
        PROVE  s \in DOMAIN stack /\ stack'[s] = stack[s]
    BY <2>1, <2>2 DEF Pushed, Temporary
  <2>3. ASSUME stack' = CutTo(Top), NEW s \in DOMAIN stack'
        PROVE  s \in DOMAIN stack /\ stack'[s] = stack[s]
    BY <2>1, <2>3 DEF CutTo
  <2>4. CASE Returned /\ Len(frames) # 1
    <3>1. /\ frame.slots \in Nat /\ frame.slots < stackTop
          /\ stack' = [s \in 0..frame.slots |-> IF s = frame.slots THEN Temporary(work.result)
                                                ELSE stack[s]]
      BY <2>4, Current DEF Returned, Running
    <3> QED BY <3>1, <2>1 DEF Temporary
  <2>5. \/ \E v \in Value : stack' = Pushed(Temporary(v))
        \/ stack' = CutTo(Top) \/ stack' = stack
        \/ Returned /\ Len(frames) # 1
    BY DEF Push, Pop, EndScope, Interpret, Return, Returned, CaptureDone, ScopeEnded,
           MakeClosure, ReuseUpvalue, ShareUpvalue
  <2> QED BY <2>2, <2>3, <2>4, <2>5
<1> QED BY <1>1, <1>2, NothingNew, Leaves

\* A new upvalue is open; its variable keeps its value on the stack.
LEMMA CreateStep ==
  ASSUME IInv, IInv', NEW s \in DOMAIN stack, NEW k \in 0..Len(openUpvalues), NEW u \in Upvalue,
         CreateUpvalue(s, k, u)
  PROVE  Promise!Next
<1> USE UpvaluesAssumption
<1>1. pc # "exit" /\ pc' # "exit" /\ reply' = <<>> /\ stack' = stack
  BY DEF CreateUpvalue, Captured
<1>2. location'[u] # CLOSED
  BY StackTyped DEF IInv, TypeOK, CreateUpvalue
<1>3. \A v \in Upvalue : v # u =>
        location'[v] = location[v] /\ of'[v] = of[v] /\ closed'[v] = closed[v]
  BY DEF IInv, TypeOK, CreateUpvalue
<1> QED BY <1>1, <1>2, <1>3, NothingNew, Leaves

\* Closing moves the value of a variable from its slot to its upvalue.
LEMMA CloseStep ==
  ASSUME IInv, IInv', CloseUpvalue
  PROVE  Promise!Next
<1> USE UpvaluesAssumption
<1> DEFINE u == Head(openUpvalues)
<1>1. /\ pc \in {"end", "return"} /\ pc' = pc /\ reply' = <<>> /\ UNCHANGED <<stack, of>>
      /\ openUpvalues # <<>>
      /\ location' = [location EXCEPT ![u] = CLOSED]
      /\ closed' = [closed EXCEPT ![u] = stack[location[u]].value]
  BY DEF CloseUpvalue, MoreToClose
<1>2. 1 \in DOMAIN openUpvalues /\ u = openUpvalues[1]
  BY <1>1 DEF IInv, TypeOK
<1>3. u \in Upvalue /\ location[u] \in DOMAIN stack /\ stack[location[u]].variable = of[u]
      /\ of[u] \in Variable
  BY <1>2, OpenTyped, StackTyped DEF IInv
<1>4. \A v \in Upvalue : v # u => location'[v] = location[v] /\ closed'[v] = closed[v]
  BY <1>1, <1>3 DEF IInv, TypeOK
<1> HIDE DEF u
<1>5. ASSUME NEW x \in Known' PROVE x \in Known /\ Store'[x] = Store[x]
  <2>1. StoreFacts' /\ x # NONE
    BY StoreIsNext DEF StoreFacts
  <2>2. CASE \E s \in DOMAIN stack : stack[s].variable = x
    BY <2>1, <2>2, <1>1, Kept DEF IsVariable
  <2>3. CASE \E v \in Upvalue : v # u /\ of[v] = x /\ location'[v] = CLOSED
    BY <2>3, <1>1, <1>4, Kept
  <2>4. CASE of[u] = x
    BY <2>2, <2>4, <1>3
  <2> QED BY <2>1, <2>2, <2>3, <2>4, <1>1 DEF StoreFacts
<1> QED BY <1>1, <1>5, Leaves

\* The variables of a collected closure are out of reach.
LEMMA CollectStep ==
  ASSUME IInv, IInv', NEW C \in SUBSET Closure, CollectGarbage(C)
  PROVE  Promise!Next
<1> USE UpvaluesAssumption
<1>1. pc # "exit" /\ pc' # "exit" /\ reply' = <<>> /\ stack' = stack
  BY DEF CollectGarbage
<1>2. \A u \in Upvalue : location'[u] = CLOSED =>
        location[u] = CLOSED /\ of'[u] = of[u] /\ closed'[u] = closed[u]
  BY DEF CollectGarbage
<1> QED BY <1>1, <1>2, NothingNew, Leaves

\* The steps that bring variables.
LEMMA EnterSteps ==
  ASSUME IInv, IInv',
         \/ \E x \in Variable, captured \in BOOLEAN : Declare(x, captured)
         \/ \E c \in closures \ {SCRIPT}, n \in 0..MaxArity, m \in BOOLEAN : Call(c, n, m)
         \/ \E c \in Closure, n \in 0..MaxUpvalues, x \in Variable, captured \in BOOLEAN :
              MakeClosure(c, n, [variable |-> x, isCaptured |-> captured, value |-> NIL])
  PROVE  Promise!Next
<1> USE UpvaluesAssumption
<1>1. pc # "exit" /\ pc' # "exit" /\ reply' = <<>> /\ UNCHANGED <<location, of, closed>>
  BY DEF Declare, Call, MakeClosure, heap
<1>2. \A s \in DOMAIN stack : IsVariable(s) => s \in DOMAIN stack' /\ stack'[s] = stack[s]
  <2>1. stackTop \in Nat /\ DOMAIN stack = 0..Top /\ Top = stackTop - 1 /\ Top \in Int
    BY StackTyped DEF IInv, Top
  <2>2. ASSUME NEW x \in Variable, NEW captured \in BOOLEAN, Declare(x, captured),
               NEW s \in DOMAIN stack, IsVariable(s)
        PROVE  s \in DOMAIN stack' /\ stack'[s] = stack[s]
    <3>1. s # Top /\ DOMAIN stack' = DOMAIN stack
      BY <2>2 DEF Declare
    <3> QED BY <2>2, <3>1 DEF Declare
  <2>3. ASSUME NEW c \in closures, NEW n \in 0..MaxArity, NEW m \in BOOLEAN, Call(c, n, m),
               NEW s \in DOMAIN stack, IsVariable(s)
        PROVE  s \in DOMAIN stack' /\ stack'[s] = stack[s]
    <3> DEFINE base == stackTop - n - 1
               args == (base + (IF m THEN 0 ELSE 1))..Top
    <3>1. s \notin args
      BY <2>1, <2>3 DEF Call
    <3>2. PICK name \in Fresh(args), captured \in [args -> BOOLEAN] :
            stack' = [t \in 0..Top |->
                        IF t \in args THEN [variable |-> name[t], isCaptured |-> captured[t],
                                            value |-> stack[t].value]
                        ELSE stack[t]]
      BY <2>3 DEF Call
    <3> QED BY <2>1, <3>1, <3>2
  <2>4. ASSUME NEW c \in Closure, NEW n \in 0..MaxUpvalues, NEW cell, MakeClosure(c, n, cell),
               NEW s \in DOMAIN stack
        PROVE  s \in DOMAIN stack' /\ stack'[s] = stack[s]
    <3>1. stack' = Pushed(cell)
      BY <2>4 DEF MakeClosure
    <3>2. s \in 0..stackTop /\ s # stackTop
      BY <2>1
    <3> QED BY <3>1, <3>2 DEF Pushed
  <2> QED BY <2>2, <2>3, <2>4
<1> QED BY <1>1, <1>2, NothingGone, Enters

\* A local variable is read or assigned through its slot.
LEMMA LocalSteps ==
  ASSUME IInv, IInv', NEW s \in DOMAIN stack, GetLocal(s) \/ SetLocal(s)
  PROVE  Promise!Next
<1> USE UpvaluesAssumption
<1> DEFINE x == stack[s].variable
<1>1. pc = "run" /\ pc' = "run" /\ IsVariable(s) /\ UNCHANGED heap
  BY DEF GetLocal, SetLocal
<1>2. StoreFacts /\ StoreFacts'
  BY StoreIs, StoreIsNext
<1>3. x \in Known /\ Store[x] = stack[s].value /\ x # NONE
  BY <1>1, <1>2 DEF StoreFacts, IsVariable
<1>4. CASE GetLocal(s)
  <2>1. stack[s].value \in Value
    BY StackTyped DEF IInv
  <2> QED BY <1>1, <1>3, <1>4, <2>1, Reads DEF GetLocal
<1>5. CASE SetLocal(s)
  <2> DEFINE v == stack[Top].value
  <2>1. Top \in DOMAIN stack
    BY <1>5, StackTyped DEF IInv, SetLocal
  <2>2. v \in Value /\ stack' = [stack EXCEPT ![s].value = v] /\ reply' = <<>>
    BY <1>5, <2>1, StackTyped DEF IInv, SetLocal
  <2> HIDE DEF v
  <2>3. /\ DOMAIN stack' = DOMAIN stack /\ stack'[s].value = v /\ stack'[s].variable = x
        /\ \A t \in DOMAIN stack : t # s => stack'[t] = stack[t]
        /\ \A t \in DOMAIN stack : stack'[t].variable = stack[t].variable
    BY <2>2, StackTyped DEF IInv, Slot
  <2>4. Store'[x] = v
    BY <2>3, <1>1, <1>2, <1>3 DEF StoreFacts, IsVariable
  <2>5. Known' = Known
    BY <2>3, <1>1 DEF Known, Live, heap
  <2>6. ASSUME NEW y \in Known, y # x PROVE Store'[y] = Store[y]
    <3>1. y # NONE
      BY <1>2 DEF StoreFacts
    <3>2. CASE \E t \in DOMAIN stack : stack[t].variable = y
      BY <3>1, <3>2, <2>3, <2>6, <1>1, Kept DEF IsVariable
    <3>3. CASE \E u \in Upvalue : of[u] = y /\ location[u] = CLOSED
      BY <3>3, <1>1, Kept DEF heap
    <3> QED BY <3>2, <3>3, <1>2 DEF StoreFacts
  <2> QED BY <2>2, <2>4, <2>5, <2>6, <1>3, Assigns
<1> QED BY <1>4, <1>5

\* A variable from further out is read or assigned through its upvalue.
LEMMA UpvalueReadOrAssigned ==
  ASSUME IInv, IInv', NEW i \in InReach, GetUpvalue(i) \/ SetUpvalue(i)
  PROVE  Promise!Next
<1> USE UpvaluesAssumption
<1> DEFINE u == Named(i)
           x == of[u]
<1>1. pc = "run" /\ pc' = "run" /\ Running
  BY DEF GetUpvalue, SetUpvalue, Running
<1>2. StoreFacts /\ StoreFacts'
  BY StoreIs, StoreIsNext
<1>3. /\ u \in Upvalue /\ location[u] # NULL /\ x \in Variable /\ x # NONE
      /\ location[u] = CLOSED \/ location[u] \in DOMAIN stack
      /\ location[u] # CLOSED => stack[location[u]].variable = x
  BY <1>1, NamedThere
<1>4. x \in Known
  BY <1>1, <1>2, <1>3 DEF StoreFacts
<1>5. CASE GetUpvalue(i)
  <2>1. PICK v \in Dereferenced(u) : stack' = Pushed(Temporary(v)) /\ reply' = <<x, v>>
    BY <1>5 DEF GetUpvalue
  <2>2. v \in Value
    BY <2>1, <1>1, DereferencedTyped
  <2>3. Store[x] = v
    <3>1. CASE location[u] = CLOSED
      BY <3>1, <2>1, <1>1, <1>2, <1>3 DEF Dereferenced, StoreFacts
    <3>2. CASE location[u] # CLOSED
      <4>1. location[u] < stackTop
        BY <3>2, <1>3, StackTyped DEF IInv, Top
      <4>2. v = stack[location[u]].value
        BY <3>2, <4>1, <2>1 DEF Dereferenced
      <4> QED BY <3>2, <4>2, <1>1, <1>2, <1>3 DEF StoreFacts, IsVariable
    <3> QED BY <3>1, <3>2
  <2>4. UNCHANGED <<heap, pc>>
    BY <1>5 DEF GetUpvalue
  <2> QED BY <2>1, <2>2, <2>3, <2>4, <1>1, <1>4, Reads
<1>6. CASE SetUpvalue(i)
  <2> DEFINE v == stack[Top].value
             s == location[u]
  <2>1. Top \in DOMAIN stack
    BY <1>6, <1>1, StackTyped, Current DEF IInv, SetUpvalue
  <2>2. v \in Value /\ reply' = <<>> /\ UNCHANGED <<location, of>>
    BY <1>6, <2>1, StackTyped DEF IInv, SetUpvalue
  <2>3. CASE s = CLOSED
    <3>1. closed' = [closed EXCEPT ![u] = v] /\ UNCHANGED stack
      BY <1>6, <2>3 DEF SetUpvalue
    <3> HIDE DEF v
    <3>2. Store'[x] = v
      BY <3>1, <2>2, <2>3, <1>1, <1>2, <1>3 DEF StoreFacts, IInv, TypeOK
    <3>3. Known' = Known
      BY <3>1, <2>2, <1>1 DEF Known, Live
    <3>4. ASSUME NEW y \in Known, y # x PROVE Store'[y] = Store[y]
      <4>1. y # NONE
        BY <1>2 DEF StoreFacts
      <4>2. CASE \E t \in DOMAIN stack : stack[t].variable = y
        BY <4>1, <4>2, <3>1, <1>1, Kept DEF IsVariable
      <4>3. CASE \E w \in Upvalue : of[w] = y /\ location[w] = CLOSED
        <5>1. PICK w \in Upvalue : of[w] = y /\ location[w] = CLOSED
          BY <4>3
        <5>2. w # u
          BY <5>1, <3>4
        <5>3. closed'[w] = closed[w]
          BY <5>2, <3>1 DEF IInv, TypeOK
        <5> QED BY <5>1, <5>3, <2>2, <1>1, Kept
      <4> QED BY <4>2, <4>3, <1>2 DEF StoreFacts
    <3> QED BY <3>2, <3>3, <3>4, <2>2, <1>4, Assigns
  <2>4. CASE s # CLOSED
    <3>1. stack' = [stack EXCEPT ![s].value = v] /\ UNCHANGED closed /\ s \in DOMAIN stack
          /\ stack[s].variable = x
      BY <1>6, <2>4, <1>3 DEF SetUpvalue
    <3> HIDE DEF v, s
    <3>2. /\ DOMAIN stack' = DOMAIN stack /\ stack'[s].value = v /\ stack'[s].variable = x
          /\ \A t \in DOMAIN stack : t # s => stack'[t] = stack[t]
          /\ \A t \in DOMAIN stack : stack'[t].variable = stack[t].variable
      BY <3>1, StackTyped DEF IInv, Slot
    <3>3. Store'[x] = v
      BY <3>1, <3>2, <1>1, <1>2, <1>3 DEF StoreFacts, IsVariable
    <3>4. Known' = Known
      BY <3>2, <2>2, <1>1 DEF Known, Live
    <3>5. ASSUME NEW y \in Known, y # x PROVE Store'[y] = Store[y]
      <4>1. y # NONE
        BY <1>2 DEF StoreFacts
      <4>2. CASE \E t \in DOMAIN stack : stack[t].variable = y
        BY <4>1, <4>2, <3>1, <3>2, <3>5, <1>1, Kept DEF IsVariable
      <4>3. CASE \E w \in Upvalue : of[w] = y /\ location[w] = CLOSED
        BY <4>3, <3>1, <2>2, <1>1, Kept
      <4> QED BY <4>2, <4>3, <1>2 DEF StoreFacts
    <3> QED BY <3>3, <3>4, <3>5, <2>2, <1>4, Assigns
  <2> QED BY <2>3, <2>4
<1> QED BY <1>5, <1>6

LEMMA NextPromise ==
  IInv /\ IInv' /\ ErrorsEnd /\ [Next]_vars => [Promise!Next]_<<Store, reply>>
<1> SUFFICES ASSUME IInv, IInv', ErrorsEnd, [Next]_vars
             PROVE  Promise!Next \/ UNCHANGED <<Store, reply>>
  OBVIOUS
<1>1. CASE UNCHANGED vars
  BY <1>1 DEF vars, heap, Store, Live
<1>2. CASE RuntimeError
  <2>1. Known' = {} /\ reply' = <<>>
    BY <1>2 DEF RuntimeError, Known
  <2> QED BY <2>1, Leaves
<1>3. CASE \E s \in DOMAIN stack, k \in 0..Len(openUpvalues) : \E u \in Upvalue :
             CreateUpvalue(s, k, u)
  BY <1>3, CreateStep
<1>4. CASE CloseUpvalue
  BY <1>4, CloseStep
<1>5. CASE \E C \in SUBSET Closure : CollectGarbage(C)
  BY <1>5, CollectStep
<1>6. CASE \E s \in DOMAIN stack : GetLocal(s) \/ SetLocal(s)
  BY <1>6, LocalSteps
<1>7. CASE \E i \in InReach : GetUpvalue(i) \/ SetUpvalue(i)
  BY <1>7, UpvalueReadOrAssigned
<1> QED BY <1>1, <1>2, <1>3, <1>4, <1>5, <1>6, <1>7, QuietSteps, EnterSteps DEF Next

\* clox's stack, upvalues and closures implement the variables of Variables.tla:
\* whichever way a function reads a variable, it gets what was last assigned.
THEOREM Implements == ErrorsEnd => (Spec => KeepsPromise)
<1> SUFFICES ASSUME ErrorsEnd PROVE Spec => KeepsPromise
  OBVIOUS
<1>1. Spec => []IInv
  BY Invariance
<1>2. IInv /\ IInv' /\ [Next]_vars => [Promise!Next]_<<Store, reply>>
  BY NextPromise
<1>3. QED BY <1>1, <1>2, InitPromise, PTL DEF Spec, KeepsPromise, Promise!Spec, Promise!vars
=============================================================================
