----------------------------- MODULE MCPrograms -----------------------------
(***************************************************************************)
(* Programs for TLC: every chain of operators up to a length, every        *)
(* statement of the grammar around small statements, and the programs one  *)
(* token away from those.                                                  *)
(***************************************************************************)
EXTENDS Programs

Joined(S, T) == {s \o t : s \in S, t \in T}
Cat(list) == FoldLeft(Joined, {<<>>}, list)
One(kinds) == {<<k>> : k \in kinds}
T(k) == {<<k>>}
Id == T("id")

Statements(S) == Cat(<<S, T(";")>>)

\* Chains: precedence, sides, and where an assignment or a ternary may stand.
Links == {"or", "and", "==", "<", "-", "*", "=", "?", ":", "."}
Chains == Cat(<<Id, One(Links), Id, One(Links), Id, One(Links), Id>>)
Signed == Cat(<<One({"!", "-"}), Id, One(Links), One({"!", "-", "("}), Id, One(Links \cup {")"}), Id>>)
Postfixes == {<<>>, <<".", "id">>, <<"(", ")">>, <<"(", "id", ",", "id", ")">>, <<"[", "id", "]">>}
Accesses == Cat(<<One({"id", "num", "-"}), Postfixes, Postfixes, {<<>>, <<"=", "id">>, <<"*", "id">>}>>)
Expressions == Chains \cup Signed \cup Accesses

\* Statements around statements, in the body of a function.
Tests == {<<"id">>, <<"!", "id">>, <<"id", "and", "id">>, <<"id", "?", "id", ":", "nil">>}
Leaves == {<<"id", ";">>, <<"return", ";">>, <<"{", "var", "id", "=", "id", ";", "id", ";", "}">>}
Small == {<<"id", ";">>, <<"return", "id", ";">>}
Heads == Cat(<<T("while"), T("("), Tests, T(")")>>)
         \cup Cat(<<T("for"), T("("), {<<";">>, <<"var", "id", ";">>, <<"id", ";">>},
                    {<<>>, <<"id">>}, T(";"), {<<>>, <<"id", "=", "num">>}, T(")")>>)
Ifs(S) == Cat(<<T("if"), T("("), Id, T(")"), S, {<<>>} \cup Cat(<<T("else"), S>>)>>)
Controls == Ifs(Leaves) \cup Cat(<<Heads, Leaves>>)
Nested == Cat(<<Heads, Ifs(Small)>>) \cup Cat(<<Heads, Heads, Small>>) \cup Ifs(Ifs(Small))
After == {<<"id", ";">>, <<"var", "id", ";", "print", "id", ";">>, <<"{", "}">>}
InFunction(bodies) == Cat(<<{<<"fun", "id", "(", "id", ")", "{">>}, bodies, T("}")>>)
Bodies == InFunction(Cat(<<Controls, After>>) \cup Nested)

\* Declarations in one another.
ClassOf(supers, methods) == Cat(<<{<<"class", "id">>}, supers, T("{"), methods, T("}")>>)
Supers == {<<>>, <<"<", "id">>}
MethodOf(name, body) == Cat(<<T(name), {<<"(", ")", "{">>}, body, T("}")>>)
InMethods == {<<"this", ".", "id", "=", "id", ";">>, <<"super", ".", "id", "(", "id", ")", ";">>,
              <<"print", "super", ".", "id", ";">>, <<"return", ";">>, <<"return", "this", ";">>}
Bodied == {<<>>} \cup MethodOf("id", InMethods) \cup MethodOf("init", InMethods)
Classes == ClassOf(Supers, Bodied)
Declarations == Classes \cup Cat(<<T("{"), {<<"var", "id", ";">>, <<"fun", "id", "(", "id", ",", "id", ")", "{", "}">>},
                                   Classes, {<<"id", ";">>, <<"var", "id", ";">>}, T("}"), {<<>>, <<"id", ";">>}>>)

\* A token lost, or another in its place.
Edited(S, kinds) ==
  UNION {UNION {{ReplaceAt(s, i, k) : k \in kinds} \cup {RemoveAt(s, i)} : i \in DOMAIN s} : s \in S}
Samples == {
  <<"id", "=", "id", "?", "id", ":", "id", ".", "id", "(", "id", ",", "id", ")", ";", "id", ";">>,
  <<"{", "var", "id", "=", "id", ";", "if", "(", "id", ")", "id", ";", "else", "{", "id", ";", "}", "}", "print", "id", ";">>,
  <<"for", "(", "var", "id", "=", "id", ";", "id", ";", "id", ")", "{", "id", ";", "}", "id", ";">>,
  <<"class", "id", "<", "id", "{", "id", "(", "id", ")", "{", "return", "super", ".", "id", "(", "id", ")", ";", "}", "}", "id", ";">>,
  <<"fun", "id", "(", "id", ",", "id", ")", "{", "while", "(", "id", ")", "return", "id", "[", "id", "]", ";", "}", "id", ";">>}
Slips == {"id", ";", ")", "}", "{", "=", "bad", "var", "print", "class", "fun", "else", "this", "init", "("}
\* What plox leaves to its resolver, where the panic may take the end of the block around it.
Misplaced == {<<"this">>, <<"super", ".", "id">>}
InHeads == {<<"if", "(">>, <<"while", "(">>, <<"for", "(", ";", ";">>}
Astray == Cat(<<T("{"), Cat(<<InHeads, Misplaced, {<<")", "{", "}">>, <<")", "{", "id", ";", "}">>}>>)
                        \cup {<<"return", "id", ";">>, <<"if", "(", "id", ")", "return", "id", ";">>},
                {<<>>, <<"id", ";">>, <<"var", "id", ";">>}, T("}"), {<<>>, <<"id", ";">>}>>)
AllPrograms == Statements(Expressions) \cup Bodies \cup Declarations \cup Astray \cup Samples \cup Edited(Samples, Slips)
               \cup Edited(Edited(Samples, {";", "bad", "fun"}), {";"})

\* A return in a branch, and a statement after the branch.
Branches == InFunction(Cat(<<Ifs({<<"return", "id", ";">>}), {<<"return", "id", ";">>}>>))
=============================================================================
