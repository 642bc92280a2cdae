--------------------------- MODULE MCEnvironments ---------------------------
(* Instances of Environments.tla for TLC. *)
EXTENDS Environments

One(op, n) == {Node(op, n, {})}
End        == One("end", None)
Block1     == One("block", None)
Var(n)     == One("var", n)
Define(n)  == One("define", n)
Use(n)     == One("variable", n)
Set(n)     == One("assign", n)
Call       == One("call", None)
Returns    == {Node("return", None, v) : v \in {{}, {"value"}}}
Lambda     == One("anonymous", None)

\* Any program of seven nodes with one name.
Anything ==
  End \cup Block1 \cup One("while", None) \cup One("break", None) \cup Returns
  \cup Var("a") \cup Define("a") \cup Use("a") \cup Set("a") \cup Lambda \cup One("fun", "a") \cup Call
FreeForm == [i \in 1..7 |-> Anything]

\* An initializer that calls a function.
Initializers ==
  <<Block1 \cup One("if", None), Var("a"), Lambda, Use("a") \cup Set("a") \cup Block1,
    Returns \cup End \cup Use("a"), End \cup Call \cup Var("a"), Call \cup Define("a") \cup End,
    Define("a") \cup Use("a"), Use("a") \cup End, End>>

\* A function made in a block, or a loop, and called where its variable is shadowed.
Closures ==
  <<Block1 \cup One("while", None), Var("a"), Define("a"), One("fun", "b") \cup {Node("fun", "b", {"a"})},
    Use("a") \cup Set("a") \cup Returns \cup One("break", None), End,
    Block1 \cup Use("b"), Var("a") \cup One("fun", "a") \cup Call, Define("a") \cup End, Use("b"),
    Call \cup {Node("call", None, {"argument"})}, End \cup Use("a"), End>>

\* A closure that outlives the call whose parameter it uses.
Outliving ==
  <<{Node("fun", "b", {"a"})}, Lambda \cup One("fun", "a"), Use("a") \cup Use("b") \cup Var("a"),
    Returns \cup Set("a") \cup Define("a"), End, {Node("return", None, {"value"})} \cup Use("a") \cup Set("a"),
    End, Use("b"), {Node("call", None, {"argument"})}, Call>>

\* A function that leaves the loop it was made in.
Escaping ==
  <<Var("a"), Define("a"), One("while", None), Lambda, One("break", None) \cup Returns, End,
    Set("a"), End, Use("a"), Call>>

\* A class a, and what inherits from it.
Class(n, supers) == {Node("class", n, supers)}
Members  == One("method", "m") \cup One("getter", "m") \cup One("method", "init")
This1    == One("this", "this")
Super1   == One("super", "m")
Get      == One("get", "m")
Base(body)    == <<Class("a", {}), Members, body, End, End>>
InBlock(o)    == <<Block1>> \o o \o <<End>>
Sends(n)      == <<Use(n), Call, Get \cup Call \cup Use(n), Call \cup Get>>

Inherited ==
  Base(This1 \cup Returns \cup Use("a")) \o <<Class("b", {"a"}), End>> \o Sends("b")

Overridden ==
  Base(This1) \o <<Class("b", {"a"}), Members, Super1 \cup This1 \cup Use("b"),
                   Call \cup Get \cup Set("b") \cup {Node("return", None, {"value"})}, End, End>> \o Sends("b")

\* super in a closure, and a class two levels below it.
InClosure ==
  Base(This1) \o <<Class("b", {"a"}), Members, Lambda, Super1 \cup This1, Returns \cup Call, End, Call, End, End>>
              \o Sends("b")

TwoLevels ==
  Base(This1) \o <<Class("b", {"a"}), One("method", "m"), Super1, Call, End, End,
                   Class("a", {"b"}), End \cup One("method", "init"), Use("a") \cup End, Call \cup End, Get \cup Use("a"), Call>>
              \o <<Get, Call>>

Programs ==
  {FreeForm, Initializers, Closures, Outliving, Escaping, Inherited, Overridden, InClosure, TwoLevels}
  \cup {InBlock(Outliving), InBlock(Inherited), InBlock(Overridden), InBlock(InClosure)}

ShortPrograms == {FreeForm}
=============================================================================
