---------------------------- MODULE UpvaluesInv ----------------------------
(***************************************************************************)
(* The inductive invariant of Upvalues.tla when the program ends at its    *)
(* first runtime error: why a captured variable is never mistaken for      *)
(* another, whatever slots are reused.                                     *)
(***************************************************************************)
EXTENDS Upvalues

Running == pc \in {"run", "capture", "end", "return"}

\* There is a frame while the program runs, and only then a stack; frames lie
\* one above the other, and their closures are not freed.
FramesNest ==
  /\ Running <=> frames # <<>>
  /\ ~Running => stackTop = 0 /\ openUpvalues = <<>>
  /\ \A j \in DOMAIN frames :
       frames[j].slots < stackTop /\ frames[j].closure \in closures
  /\ \A i, j \in DOMAIN frames : i < j => frames[i].slots < frames[j].slots

\* The phases of one instruction know where they are.
WorkFits ==
  /\ SCRIPT \in closures /\ work.closure \in closures
  /\ pc = "end" => work.last = Top /\ Top > frame.slots
  /\ pc = "return" => work.last = frame.slots
  /\ pc = "return" /\ Len(frames) = 1 => stackTop = 1

\* A variable has one slot.
OneSlotEach ==
  \A s, t \in DOMAIN stack :
    IsVariable(s) /\ stack[s].variable = stack[t].variable => s = t

\* An open upvalue points at the slot of its variable, and the compiler knew
\* that the variable is captured.
Anchored ==
  \A j \in DOMAIN openUpvalues :
    LET u == openUpvalues[j] IN
    /\ location[u] \in DOMAIN stack
    /\ stack[location[u]].variable = of[u]
    /\ stack[location[u]].isCaptured

\* An upvalue is in the list, or closed, or not there at all.
OpenOrClosed ==
  /\ pc # "exit" => \A u \in Upvalue :
       \/ location[u] \in {CLOSED, NULL}
       \/ \E j \in DOMAIN openUpvalues : openUpvalues[j] = u
  /\ \A u \in Upvalue : location[u] = NULL <=> of[u] = NONE

\* Closures hold upvalues that are there.
HeldThere ==
  \A c \in DOMAIN upvalues :
    /\ c \notin closures => upvalues[c] = <<>>
    /\ \A i \in DOMAIN upvalues[c] : location[upvalues[c][i]] # NULL

\* The variable of a closed upvalue is gone from the stack, or is just going
\* and has not changed since.
ClosedGone ==
  \A u \in Upvalue, s \in DOMAIN stack :
    location[u] = CLOSED /\ stack[s].variable = of[u] =>
      /\ pc \in {"end", "return"} /\ s >= work.last
      /\ closed[u] = stack[s].value

IInv == /\ TypeOK /\ FramesNest /\ WorkFits
        /\ Sorted /\ OneSlotEach /\ OneUpvalueEach
        /\ Anchored /\ OpenOrClosed /\ HeldThere /\ ClosedGone
=============================================================================
