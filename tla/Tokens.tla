------------------------------- MODULE Tokens -------------------------------
(***************************************************************************)
(* The tokens of one Lox program, as the two scanners hand them to the two *)
(* parsers (clox/scanner.c, plox/scanner.py).  A token is its kind; the    *)
(* text it stands for is its place in the sequence, so every name and      *)
(* number of a program is told from every other one.  "bad" is a stretch   *)
(* of characters the scanner cannot read; "num" is any literal that is     *)
(* true, "nil" one that is false; "init" is the one name with a meaning.   *)
(***************************************************************************)
EXTENDS Integers, Sequences, SequencesExt

VARIABLE tokens

EOF == "EOF"

\* What scanToken answers at place i: at the end it answers EOF for ever.
Kind(i) == IF i \in 1 .. Len(tokens) THEN tokens[i] ELSE EOF

\* A token that may stand where the grammar wants k: "init" is an identifier.
Fits(i, k) == Kind(i) = k \/ (k = "id" /\ Kind(i) = "init")

\* The words that begin a declaration or a statement: both parsers take up again before one.
Beginners == {"class", "fun", "var", "for", "if", "while", "print", "return"}

AdditionTokens == {"-", "+"}
MultiplicationTokens == {"*"}
ComparisonTokens == {"<", ">="}
EqualityTokens == {"=="}
UnaryTokens == {"!", "-"}
=============================================================================
