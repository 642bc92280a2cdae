------------------------------ MODULE Lexical ------------------------------
(***************************************************************************)
(* What the compiler of clox promises about names: a program is functions  *)
(* and classes made of nested blocks, and a name means the variable of the *)
(* innermost block that declares it, or a global when none does.  An error *)
(* is reported when the program breaks a rule of the language or a limit,  *)
(* and only then; nothing is promised about the rest of that program.      *)
(* Scopes.tla (clox/compiler.c) implements it.                             *)
(***************************************************************************)
EXTENDS Naturals, Sequences, FiniteSets, SequencesExt

CONSTANTS
  Name,          \* identifiers; "this" and "super" are not among them
  UINT8_COUNT,   \* variables in a function at a time, and variables it captures
  Quiet          \* names whose variables are never reported as unused

VARIABLES
  blocks,    \* for each function entered, the variables of each block entered in it
  captures,  \* for each function entered, the variables of others it uses
  classes,   \* the classes entered: the name, and the place of "super" or Nowhere
  header,    \* the superclass just named, if any: "itself" is the class's own name
  rejected,  \* whether an error was reported
  answer     \* what the last step decided: pairs of a use, or a rule, and a variable

vars == <<blocks, captures, classes, header, rejected, answer>>

(* A place is a function and a block of it, counted from the outermost; a  *)
(* variable <<function, block, name>>, a global <<0, 0, name>>.            *)

Nowhere == <<0, 0>>

Fresh(ready) == [ready |-> ready, read |-> FALSE, captured |-> FALSE]

Block(names) == [n \in names |-> Fresh(TRUE)]

Init == /\ blocks = << <<Block({"this"})>> >>
        /\ captures = <<{}>> /\ classes = <<>> /\ header = "none" /\ rejected = FALSE /\ answer = {}

Fn     == Len(blocks)
Depth  == Len(blocks[Fn])
Here   == blocks[Fn][Depth]
Global == Fn = 1 /\ Depth = 1     \* outside every block, where names are globals

Declaring(n) ==
  LET bs == blocks
  IN UNION {{f} \X {b \in DOMAIN bs[f] : n \in DOMAIN bs[f][b]} : f \in DOMAIN bs}

\* Functions nest, and so do the blocks of one.
Inside(p, q) == p[1] > q[1] \/ (p[1] = q[1] /\ p[2] >= q[2])

Innermost(n) == LET places == Declaring(n) IN CHOOSE p \in places : \A q \in places : Inside(p, q)

Variables(f) == LET bs == blocks[f] IN UNION {{b} \X DOMAIN bs[b] : b \in DOMAIN bs}

Adding(b, n, ready) == [m \in DOMAIN b \cup {n} |-> IF m = n THEN Fresh(ready) ELSE b[m]]

Declared(n, ready) ==
  IF Global THEN blocks ELSE [blocks EXCEPT ![Fn][Depth] = Adding(@, n, ready)]

WithinLimits ==
  \A f \in 1..Fn : Cardinality(Variables(f)) <= UINT8_COUNT /\ Cardinality(captures[f]) <= UINT8_COUNT

MayDeclare(n) == Global \/ n \notin DOMAIN Here

\* Steps that only enter, leave or change blocks.
Plain == UNCHANGED <<captures, classes>> /\ answer' = {}

Declare(n, ready) ==
  /\ Plain /\ MayDeclare(n)
  /\ blocks' = Declared(n, ready)

Readied(b) == [n \in DOMAIN b |-> [b[n] EXCEPT !.ready = TRUE]]

Define ==
  /\ Plain
  /\ blocks' = [blocks EXCEPT ![Fn][Depth] = Readied(@)]

Begin ==
  /\ Plain
  /\ blocks' = [blocks EXCEPT ![Fn] = Append(@, Block({}))]

Unused(b) == {n \in DOMAIN b : ~b[n].read} \ Quiet

\* Exactly the captured variables of a block outlive it.
Ended(b) == {<<IF b[n].captured THEN "close" ELSE "drop", <<Fn, Depth, n>>>> : n \in DOMAIN b}
              \cup {<<"unused", <<Fn, Depth, n>>>> : n \in Unused(b)}

\* A function's own two blocks, slot 0 and the body, end with it.
End ==
  /\ UNCHANGED <<captures, classes>>
  /\ Depth > IF Fn = 1 THEN 1 ELSE 2
  /\ blocks' = [blocks EXCEPT ![Fn] = Front(@)] /\ answer' = Ended(Here)

\* The name of a function is declared outside it; a method has no variable.
BeginFunction(outside, slot0) ==
  /\ captures' = Append(captures, {}) /\ UNCHANGED classes
  /\ blocks' = Append(outside, <<Block({slot0}), Block({})>>)
  /\ answer' = {}

\* The closure made of a function captures the variables it uses, no others.
EndFunction ==
  /\ Fn > 1 /\ Depth = 2
  /\ captures' = Front(captures) /\ UNCHANGED classes
  /\ blocks' = Front(blocks)
  /\ answer' = {<<"capture", v>> : v \in Last(captures)}

BeginClass(n) ==
  /\ classes' = Append(classes, [name |-> n, super |-> Nowhere])
  /\ MayDeclare(n)
  /\ blocks' = Declared(n, TRUE)
  /\ answer' = {} /\ UNCHANGED captures

Inherit ==
  /\ classes # <<>> /\ Last(classes).super = Nowhere
  /\ classes' = [classes EXCEPT ![Len(classes)].super = <<Fn, Depth + 1>>]
  /\ blocks' = [blocks EXCEPT ![Fn] = Append(@, Block({"super"}))]
  /\ answer' = {} /\ UNCHANGED captures

EndClass ==
  /\ classes # <<>> /\ classes' = Front(classes)
  /\ IF Last(classes).super = Nowhere THEN blocks' = blocks /\ answer' = {}
     ELSE /\ Last(classes).super = <<Fn, Depth>>
          /\ blocks' = [blocks EXCEPT ![Fn] = Front(@)] /\ answer' = Ended(Here)
  /\ UNCHANGED captures

UseGlobal(n) ==
  /\ answer' = {<<"global", <<0, 0, n>>>>} /\ Declaring(n) = {}
  /\ UNCHANGED <<blocks, captures, classes>>

Used(v, inside) == [v EXCEPT !.read = TRUE, !.captured = @ \/ inside]

\* "super" is that of the innermost class, not merely some class's.
UseVariable(n) ==
  LET p == Innermost(n)
      f == p[1]
      b == p[2]
  IN /\ UNCHANGED classes
     /\ answer' # {} /\ Declaring(n) # {}
     /\ answer' = {<<IF f = Fn THEN "local" ELSE "upvalue", <<f, b, n>>>>}
     /\ n = "this" => classes # <<>>
     /\ n = "super" => classes # <<>> /\ Last(classes).super = p
     /\ blocks[f][b][n].ready
     /\ blocks' = [blocks EXCEPT ![f][b][n] = Used(@, f # Fn)]
     /\ captures' = [g \in 1..Fn |-> captures[g] \cup IF g > f THEN {<<f, b, n>>} ELSE {}]

\* The name after "<"; a class that names itself there gets no further.
Superclass(n) ==
  /\ classes # <<>> /\ Last(classes).super = Nowhere
  /\ header' = IF n = Last(classes).name THEN "itself" ELSE "other"
  /\ UseVariable(n) \/ UseGlobal(n)

Unready(n) == LET p == Innermost(n) IN ~blocks[p[1]][p[2]][n].ready

Broken(rule, n) ==
  CASE rule = "redeclared" -> ~MayDeclare(n)
    [] rule = "own_initializer" -> Declaring(n) # {} /\ Unready(n)
    [] rule = "outside_a_class" -> n \in {"this", "super"} /\ classes = <<>>
    [] rule = "no_superclass" -> n = "super" /\ classes # <<>> /\ Last(classes).super = Nowhere
    [] rule = "inherits_itself" -> header = "itself" /\ n = Last(classes).name
    [] rule = "too_many_locals" -> ~Global /\ Cardinality(Variables(Fn)) >= UINT8_COUNT
    [] rule = "too_many_captures" -> \E f \in 1..Fn : Cardinality(captures[f]) > UINT8_COUNT

Rules == {"redeclared", "own_initializer", "outside_a_class", "no_superclass",
          "inherits_itself", "too_many_locals", "too_many_captures"}

Reject ==
  /\ ~rejected /\ rejected'
  /\ \E rule \in Rules, n \in Name \cup {"this", "super"} :
       answer' = {<<rule, <<0, 0, n>>>>} /\ Broken(rule, n)
  /\ blocks' = <<>> /\ captures' = <<>> /\ classes' = <<>> /\ header' = "none"

\* A rejected program is not watched to its end.
Ignore == rejected /\ rejected' /\ answer' = {} /\ UNCHANGED <<blocks, captures, classes, header>>

\* The next program
Restart ==
  /\ rejected \/ Global
  /\ ~rejected' /\ answer' = {} /\ header = "none" /\ header' = "none"
  /\ blocks' = << <<Block({"this"})>> >> /\ captures' = <<{}>> /\ classes' = <<>>

Step ==
  \/ \E n \in Name : \/ \E ready \in BOOLEAN : Declare(n, ready)
                     \/ MayDeclare(n) /\ BeginFunction(Declared(n, TRUE), "none")
                     \/ BeginClass(n) \/ UseGlobal(n)
  \/ \E n \in Name \cup {"this", "super"} : UseVariable(n)
  \/ BeginFunction(blocks, "this")
  \/ Define \/ Begin \/ End \/ EndFunction \/ EndClass

\* From the name of a superclass there is one way on, and from the class's own none.
ClassHeader ==
  \/ header = "none" /\ \E n \in Name : Superclass(n)
  \/ header = "other" /\ header' = "none" /\ Inherit

\* Past a limit there is no step but Reject.
Next ==
  \/ ~rejected /\ ~rejected' /\ header = "none" /\ header' = "none" /\ Step /\ WithinLimits
  \/ ~rejected /\ ~rejected' /\ ClassHeader /\ WithinLimits
  \/ Reject \/ Ignore \/ Restart

Spec == Init /\ [][Next]_vars
=============================================================================
