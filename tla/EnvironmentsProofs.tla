------------------------- MODULE EnvironmentsProofs -------------------------
(***************************************************************************)
(* Running what the resolver accepted: the environments nest as the text   *)
(* does, every distance leads to the declaration that the text means, and  *)
(* super, returns and warnings are what the text says they are.            *)
(***************************************************************************)
EXTENDS EnvironmentsInv, ResolverProofs

-----------------------------------------------------------------------------
(* A whole program *)

Complete(c) ==
  /\ WellFormed(c) /\ Encl(c, Len(c) + 1) = {}
  /\ \A v \in DOMAIN c : c[v].op = "var" =>
       \E d \in v + 1..Len(c) : /\ c[d].op = "define" /\ c[d].at = v
                                /\ c[d].name = c[v].name /\ Encl(c, d) = Encl(c, v)

\* What is open when the resolver is done: nothing.
LEMMA WholeIsComplete ==
  ASSUME ResolverInv, open = <<>>
  PROVE  Complete(code)
<1>1. WellFormed(code) /\ Linked(code, open)
  BY DEF ResolverInv
<1>2. Len(open) = 0 /\ DOMAIN open = {}
  OBVIOUS
<1>3. OpenHolds(open, Len(open)) = {}
  BY <1>2 DEF OpenHolds
<1> QED BY <1>1, <1>2, <1>3 DEF Linked, Complete

\* The end of a node in a whole program.
LEMMA PastIs ==
  ASSUME NEW c, Complete(c), NEW j \in 1..Len(c), c[j].op \in Nesting
  PROVE  /\ Past(c, j) \in j + 2..Len(c) + 1 /\ Past(c, j) - 1 \in 1..Len(c)
         /\ c[Past(c, j) - 1].op = "end" /\ c[Past(c, j) - 1].at = j
         /\ Encl(c, Past(c, j)) = Encl(c, j)
         /\ \A p \in 1..Len(c) + 1 : j \in Encl(c, p) <=> j < p /\ p < Past(c, j)
<1>1. WellFormed(c) /\ c \in Seq(NodeType) /\ Len(c) \in Nat /\ DOMAIN c = 1..Len(c)
  BY LenProperties DEF Complete, WellFormed
<1>2. Closed(c, j, Len(c) + 1)
  <2>1. j \notin Encl(c, Len(c) + 1)
    BY DEF Complete
  <2>2. j \in 1..(Len(c) + 1) - 1
    BY <1>1
  <2> QED BY <2>1, <2>2 DEF Encl
<1>3. PICK e \in DOMAIN c : c[e].op = "end" /\ c[e].at = j
  BY <1>1, <1>2 DEF Closed
<1> DEFINE f == CHOOSE i \in DOMAIN c : c[i].op = "end" /\ c[i].at = j
<1>4. f \in 1..Len(c) /\ c[f].op = "end" /\ c[f].at = j
  BY <1>1, <1>3
<1>5. Past(c, j) = 1 + f
  BY DEF Past
<1> HIDE DEF f
<1>6. j \in 1..f - 1 /\ Encl(c, f + 1) = Encl(c, j) /\ j \in Encl(c, f)
  BY <1>1, <1>4, AtEnd
<1>7. ASSUME NEW p \in 1..Len(c) + 1
      PROVE  j \in Encl(c, p) <=> j < p /\ p < f + 1
  <2>1. ASSUME j \in Encl(c, p) PROVE j < p /\ p < f + 1
    <3>1. j \in 1..p - 1 /\ ~Closed(c, j, p)
      BY <2>1 DEF Encl
    <3>2. ~(f \in 1..p - 1)
      BY <1>4, <3>1 DEF Closed
    <3> QED BY <1>1, <1>4, <3>1, <3>2
  <2>2. ASSUME j < p, p < f + 1 PROVE j \in Encl(c, p)
    <3>1. j \in 1..p - 1
      BY <1>1, <2>2
    <3>2. ASSUME NEW i \in 1..p - 1, c[i].op = "end", c[i].at = j PROVE FALSE
      <4>1. i \in 1..Len(c)
        BY <1>1
      <4>2. i = f
        BY <1>1, <1>4, <3>2, <4>1, EndsOnce
      <4> QED BY <1>1, <1>4, <2>2, <4>2
    <3> QED BY <3>1, <3>2 DEF Encl, Closed
  <2> QED BY <2>1, <2>2
<1>8. 1 + f = f + 1 /\ (f + 1) - 1 = f /\ f + 1 \in j + 2..Len(c) + 1
  BY <1>1, <1>4, <1>6
<1> QED BY <1>4, <1>5, <1>6, <1>7, <1>8

\* So After is where a node has been passed.
LEMMA AfterIs == \A j : After(j) = Past(code, j)
BY DEF After, Past

\* What plox finds around a node by its end is what is open there.
LEMMA AroundIs ==
  ASSUME Complete(code), NEW p \in 1..Len(code) + 1
  PROVE  Around(p) = Encl(code, p)
<1>1. WellFormed(code) /\ code \in Seq(NodeType) /\ Len(code) \in Nat
  BY LenProperties DEF Complete, WellFormed
<1>2. ASSUME NEW j \in 1..p - 1, code[j].op \in Nesting
      PROVE  p < After(j) <=> j \in Encl(code, p)
  <2>1. j \in 1..Len(code) /\ j < p
    BY <1>1
  <2> QED BY <1>2, <2>1, PastIs, AfterIs
<1>3. ASSUME NEW j \in Encl(code, p)
      PROVE  j \in 1..p - 1 /\ code[j].op \in Nesting
  BY <1>1, EnclIs
<1> QED BY <1>2, <1>3 DEF Around, Nesting

\* The text's own words for scopes agree with the ones above.
LEMMA TextScopes ==
  ASSUME Complete(code), NEW p \in 1..Len(code) + 1
  PROVE  /\ ScopeOf(p) = Scope(code, p)
         /\ \A n : LexicalScope(n, p) = Lexical(code, n, p)
         /\ Uses(p) = UsesOf(code, p)
<1>1. Around(p) = Encl(code, p)
  BY AroundIs
<1>2. ScopeOf(p) = Scope(code, p)
  BY <1>1 DEF ScopeOf, Scope, ScopeAt, Inmost, Outside
<1>3. ASSUME NEW n
      PROVE  LexicalScope(n, p) = Lexical(code, n, p)
  <2>1. WellFormed(code) /\ code \in Seq(NodeType) /\ Len(code) \in Nat
    BY LenProperties DEF Complete, WellFormed
  <2>2. ASSUME NEW i \in Encl(code, p)
        PROVE  Declares(i, n, p) <=> Binds(code, i, n, p)
    <3>1. i \in 1..p - 1 /\ i \in 1..Len(code)
      BY <2>1, EnclIs
    <3>2. \A j \in i + 1..p - 1 : Max(Around(j)) = Inmost(code, j)
      <4> TAKE j \in i + 1..p - 1
      <4>1. j \in 1..Len(code) + 1
        BY <2>1, <3>1
      <4> QED BY <4>1, AroundIs DEF Inmost
    <3>3. "body" # "class" /\ ("fun" # "class" /\ "anonymous" # "class" /\ "method" # "class" /\ "getter" # "class")
      OBVIOUS
    <3>4. DeclaredIn(code, <<"body", i>>, n, p) <=>
            \/ code[i].op \in Bodies /\ n \in code[i].arg
            \/ \E j \in i + 1..p - 1 : /\ code[j].op \in {"var", "fun", "class"} /\ code[j].name = n
                                       /\ Inmost(code, j) = i
      BY DEF DeclaredIn
    <3>5. code[i].op \in Bodies => code[i].op # "class"
      BY DEF Bodies
    <3> QED BY <3>2, <3>4, <3>5 DEF Declares, Binds
  <2>3. {i \in Around(p) : Declares(i, n, p)} = {i \in Encl(code, p) : Binds(code, i, n, p)}
    BY <1>1, <2>2
  <2> QED BY <2>3 DEF LexicalScope, Lexical, Outside
<1> QED BY <1>2, <1>3 DEF Uses, UsesOf

-----------------------------------------------------------------------------
(* Environments only grow *)

\* New environments follow the old ones, which keep their place, and this and super.
Grows(E, F) ==
  /\ DOMAIN E \subseteq DOMAIN F
  /\ \A e \in DOMAIN E :
       /\ F[e].at = E[e].at /\ F[e].enclosing = E[e].enclosing
       /\ DOMAIN E[e].values \subseteq DOMAIN F[e].values
       /\ \A n \in Special : n \in DOMAIN E[e].values => F[e].values[n] = E[e].values[n]

\* A sequence of anything is one of its own elements.
LEMMA SeqIs ==
  ASSUME NEW S, NEW s \in Seq(S)
  PROVE  IsSeq(s)
<1>1. Len(s) \in Nat /\ DOMAIN s = 1..Len(s) /\ s = [i \in 1..Len(s) |-> s[i]]
  BY LenProperties
<1> DEFINE T == {s[i] : i \in DOMAIN s}
<1>2. \A i \in 1..Len(s) : s[i] \in T
  BY <1>1
<1> HIDE DEF T
<1>3. s \in [1..Len(s) -> T]
  BY <1>1, <1>2
<1>4. s \in Seq(T)
  BY <1>1, <1>3
<1> QED BY <1>4 DEF IsSeq, T

\* Such a sequence, and with one more.
LEMMA OneMore ==
  ASSUME NEW s, IsSeq(s), NEW x
  PROVE  /\ IsSeq(Append(s, x)) /\ Append(s, x) # <<>> /\ Len(s) \in Nat /\ DOMAIN s = 1..Len(s)
         /\ Len(Append(s, x)) = Len(s) + 1 /\ DOMAIN Append(s, x) = 1..Len(s) + 1
         /\ \A i \in 1..Len(s) : Append(s, x)[i] = s[i]
         /\ Append(s, x)[Len(s) + 1] = x
<1> DEFINE T == {s[i] : i \in DOMAIN s}
<1>1. s \in Seq(T \cup {x})
  <2>1. s \in Seq(T)
    BY DEF IsSeq
  <2>2. T \subseteq T \cup {x}
    OBVIOUS
  <2> HIDE DEF T
  <2> QED BY <2>1, <2>2
<1>2. x \in T \cup {x}
  OBVIOUS
<1> HIDE DEF T
<1>3. Append(s, x) \in Seq(T \cup {x})
  BY <1>1, <1>2, Appended
<1>4. IsSeq(Append(s, x))
  BY <1>3, SeqIs
<1> QED BY <1>1, <1>2, <1>4, Appended

\* What has been declared stays declared.
LEMMA UptoGrows ==
  ASSUME NEW E, NEW F, Grows(E, F), NEW c, NEW e \in DOMAIN E, NEW q
  PROVE  Upto(E, c, e, q) => Upto(F, c, e, q)
BY DEF Upto, Grows

\* So a node that may run there still may.
LEMMA StandsGrows ==
  ASSUME NEW E, NEW F, Grows(E, F), NEW c, NEW e, NEW p, Stands(E, c, e, p)
  PROVE  Stands(F, c, e, p)
<1>1. e \in DOMAIN E /\ Upto(E, c, e, p)
  BY DEF Stands
<1>2. Upto(F, c, e, p)
  BY <1>1, UptoGrows
<1> QED BY <1>1, <1>2 DEF Stands, Grows

\* Functions and methods keep their closures.
LEMMA FunctionGrows ==
  ASSUME NEW E, NEW F, Grows(E, F), NEW c, NEW f
  PROVE  /\ FunctionOK(E, c, f) => FunctionOK(F, c, f)
         /\ MethodOK(E, c, f) => MethodOK(F, c, f)
<1>1. ASSUME FunctionOK(E, c, f) PROVE FunctionOK(F, c, f)
  <2>1. Stands(E, c, f.closure, f.at) /\ Upto(E, c, f.closure, f.at + 1)
    BY <1>1 DEF FunctionOK
  <2>2. f.closure \in DOMAIN E
    BY <2>1 DEF Stands
  <2>3. Stands(F, c, f.closure, f.at) /\ Upto(F, c, f.closure, f.at + 1)
    BY <2>1, <2>2, StandsGrows, UptoGrows
  <2> QED BY <1>1, <2>3 DEF FunctionOK
<1>2. ASSUME MethodOK(E, c, f) PROVE MethodOK(F, c, f)
  <2>1. f.closure \in DOMAIN E /\ Upto(E, c, f.closure, Inmost(c, f.at) + 1)
    BY <1>2 DEF MethodOK
  <2>2. Upto(F, c, f.closure, Inmost(c, f.at) + 1)
    BY <2>1, UptoGrows
  <2>3. f.closure \in DOMAIN F /\ F[f.closure].at = E[f.closure].at
    BY <2>1 DEF Grows
  <2> QED BY <1>2, <2>2, <2>3 DEF MethodOK
<1> QED BY <1>1, <1>2

\* The environments of super that were made hold it.
Supers(E) == \A e \in DOMAIN E : E[e].at[1] = "super" => "super" \in DOMAIN E[e].values

\* Classes keep their methods and their superclasses.
LEMMA ChainGrows ==
  ASSUME NEW E, NEW F, Grows(E, F), NEW c, Supers(E), NEW chain, ChainOK(E, c, chain)
  PROVE  ChainOK(F, c, chain)
<1>1. IsSeq(chain)
  BY DEF ChainOK
<1>2. ASSUME NEW i \in DOMAIN chain, NEW k \in DOMAIN chain[i].methods
      PROVE  LET f == chain[i].methods[k] IN
             /\ MethodOK(F, c, f)
             /\ F[f.closure].at[1] = "super" =>
                  SubSeq(chain, i + 1, Len(chain)) = F[f.closure].values["super"].chain
  <2> DEFINE f == chain[i].methods[k]
  <2>1. /\ MethodOK(E, c, f)
        /\ E[f.closure].at[1] = "super" =>
             SubSeq(chain, i + 1, Len(chain)) = E[f.closure].values["super"].chain
    BY DEF ChainOK
  <2> HIDE DEF f
  <2>2. f.closure \in DOMAIN E
    BY <2>1 DEF MethodOK
  <2>3. F[f.closure].at = E[f.closure].at
    BY <2>2 DEF Grows
  <2>4. E[f.closure].at[1] = "super" => F[f.closure].values["super"] = E[f.closure].values["super"]
    <3>1. "super" \in Special
      BY DEF Special
    <3> QED BY <2>2, <3>1 DEF Grows, Supers
  <2>5. MethodOK(F, c, f)
    BY <2>1, FunctionGrows
  <2>6. F[f.closure].at[1] = "super" =>
             SubSeq(chain, i + 1, Len(chain)) = F[f.closure].values["super"].chain
    BY <2>1, <2>3, <2>4
  <2> QED BY <2>5, <2>6 DEF f
<1> QED BY <1>1, <1>2 DEF ChainOK

\* So every value stays what it is.
LEMMA ValueGrows ==
  ASSUME NEW E, NEW F, Grows(E, F), NEW c, Supers(E), NEW v, ValueOK(E, c, v)
  PROVE  ValueOK(F, c, v)
<1>1. CASE v.kind = "nil"
  BY <1>1 DEF ValueOK
<1>2. CASE v.kind = "function" /\ FunctionOK(E, c, v)
  BY <1>2, FunctionGrows DEF ValueOK
<1>3. CASE v.kind = "class" /\ ChainOK(E, c, v.chain)
  BY <1>3, ChainGrows DEF ValueOK
<1>4. CASE v.kind = "instance" /\ v.klass.kind = "class" /\ ChainOK(E, c, v.klass.chain)
  BY <1>4, ChainGrows DEF ValueOK
<1> QED BY <1>1, <1>2, <1>3, <1>4 DEF ValueOK

\* An environment made for super holds super.
LEMMA HasSupers ==
  ASSUME NEW E, NEW c, EnvironmentsOK(E, c)
  PROVE  Supers(E)
BY DEF EnvironmentsOK, EnvironmentOK, Supers

\* An environment that has grown, with values that are what they should be.
LEMMA EnvironmentGrows ==
  ASSUME NEW E, NEW F, Grows(E, F), NEW c, Supers(E), NEW e \in DOMAIN E, EnvironmentOK(E, c, e),
         e = Globals \/ E[e].enclosing \in DOMAIN E,
         F[e] = Environment(F[e].enclosing, F[e].values, F[e].at),
         \A n \in DOMAIN F[e].values :
           \/ n \in DOMAIN E[e].values /\ F[e].values[n] = E[e].values[n]
           \/ n \in Name /\ ValueOK(F, c, F[e].values[n])
  PROVE  EnvironmentOK(F, c, e)
<1> DEFINE s == E[e].at
<1>1. /\ F[e].at = s /\ F[e].enclosing = E[e].enclosing /\ DOMAIN E[e].values \subseteq DOMAIN F[e].values
      /\ \A n \in Special : n \in DOMAIN E[e].values => F[e].values[n] = E[e].values[n]
  BY DEF Grows
<1>2. \A n \in DOMAIN F[e].values : n \in Name \cup Special /\ ValueOK(F, c, F[e].values[n])
  <2> TAKE n \in DOMAIN F[e].values
  <2>1. CASE n \in DOMAIN E[e].values /\ F[e].values[n] = E[e].values[n]
    <3>1. n \in Name \cup Special /\ ValueOK(E, c, E[e].values[n])
      BY <2>1 DEF EnvironmentOK
    <3> QED BY <2>1, <3>1, ValueGrows
  <2>2. CASE n \in Name /\ ValueOK(F, c, F[e].values[n])
    BY <2>2
  <2> QED BY <2>1, <2>2
<1>3. IF e = Globals THEN F[e].enclosing = 0 /\ s = Outside
      ELSE /\ F[e].enclosing \in 1..e - 1
           /\ s[2] \in DOMAIN c /\ c[s[2]].op \in Nesting
           /\ IF c[s[2]].op = "class" THEN s \in {<<"this", s[2]>>, <<"super", s[2]>>}
                                      ELSE s = <<"body", s[2]>>
           /\ F[F[e].enclosing].at = Outer(c, s) /\ Upto(F, c, F[e].enclosing, s[2] + 1)
           /\ c[s[2]].op \in Bodies => c[s[2]].arg \subseteq DOMAIN F[e].values
  <2>1. CASE e = Globals
    BY <1>1, <2>1 DEF EnvironmentOK
  <2>2. CASE e # Globals
    <3>1. /\ E[e].enclosing \in 1..e - 1
          /\ s[2] \in DOMAIN c /\ c[s[2]].op \in Nesting
          /\ IF c[s[2]].op = "class" THEN s \in {<<"this", s[2]>>, <<"super", s[2]>>}
                                     ELSE s = <<"body", s[2]>>
          /\ E[E[e].enclosing].at = Outer(c, s) /\ Upto(E, c, E[e].enclosing, s[2] + 1)
          /\ c[s[2]].op \in Bodies => c[s[2]].arg \subseteq DOMAIN E[e].values
      BY <2>2 DEF EnvironmentOK
    <3>2. E[e].enclosing \in DOMAIN E
      BY <2>2
    <3>3. F[E[e].enclosing].at = E[E[e].enclosing].at
      BY <3>2 DEF Grows
    <3>4. Upto(F, c, E[e].enclosing, s[2] + 1)
      BY <3>1, <3>2, UptoGrows
    <3> HIDE DEF s
    <3> QED BY <1>1, <2>2, <3>1, <3>3, <3>4
  <2> QED BY <2>1, <2>2
<1>4. s[1] = "super" => "super" \in DOMAIN F[e].values /\ F[e].values["super"].kind = "class"
  <2>1. s[1] = "super" => "super" \in DOMAIN E[e].values /\ E[e].values["super"].kind = "class"
    BY DEF EnvironmentOK
  <2>2. "super" \in Special
    BY DEF Special
  <2> QED BY <1>1, <2>1, <2>2
<1>5. s[1] = "this" =>
       /\ "this" \in DOMAIN F[e].values /\ F[e].values["this"].kind = "instance"
       /\ LET chain == F[e].values["this"].klass.chain
          IN \E i \in DOMAIN chain : \E k \in DOMAIN chain[i].methods :
               chain[i].methods[k].closure = F[e].enclosing
  <2>1. s[1] = "this" =>
       /\ "this" \in DOMAIN E[e].values /\ E[e].values["this"].kind = "instance"
       /\ LET chain == E[e].values["this"].klass.chain
          IN \E i \in DOMAIN chain : \E k \in DOMAIN chain[i].methods :
               chain[i].methods[k].closure = E[e].enclosing
    BY DEF EnvironmentOK
  <2>2. "this" \in Special
    BY DEF Special
  <2>3. s[1] = "this" => F[e].values["this"] = E[e].values["this"] /\ "this" \in DOMAIN F[e].values
    BY <1>1, <2>1, <2>2
  <2> QED BY <1>1, <2>1, <2>3
<1> HIDE DEF s
<1>6. F[e].at = s
  BY <1>1
<1> QED BY <1>2, <1>3, <1>4, <1>5, <1>6 DEF EnvironmentOK

\* All of them, when what is new is what it should be.
LEMMA EnvironmentsGrow ==
  ASSUME NEW E, NEW F, Grows(E, F), NEW c, EnvironmentsOK(E, c), IsSeq(F), F # <<>>,
         \A e \in DOMAIN E :
           /\ F[e] = Environment(F[e].enclosing, F[e].values, F[e].at)
           /\ \A n \in DOMAIN F[e].values :
                \/ n \in DOMAIN E[e].values /\ F[e].values[n] = E[e].values[n]
                \/ n \in Name /\ ValueOK(F, c, F[e].values[n]),
         \A e \in DOMAIN F \ DOMAIN E : EnvironmentOK(F, c, e)
  PROVE  EnvironmentsOK(F, c)
<1>1. Supers(E)
  BY HasSupers
<1>2. DOMAIN E = 1..Len(E) /\ Len(E) \in Nat
  BY LenProperties DEF EnvironmentsOK, IsSeq
<1>3. ASSUME NEW e \in DOMAIN E
      PROVE  EnvironmentOK(F, c, e)
  <2>1. EnvironmentOK(E, c, e)
    BY DEF EnvironmentsOK
  <2>2. e = Globals \/ E[e].enclosing \in 1..e - 1
    BY <2>1 DEF EnvironmentOK
  <2>3. e = Globals \/ E[e].enclosing \in DOMAIN E
    BY <1>2, <2>2
  <2> QED BY <1>1, <2>1, <2>3, EnvironmentGrows
<1> QED BY <1>3 DEF EnvironmentsOK

\* One more environment.
LEMMA AppendGrows ==
  ASSUME NEW E, IsSeq(E), NEW x
  PROVE  Grows(E, Append(E, x))
BY OneMore DEF Grows

\* A new environment that is as it must be leaves the others so.
LEMMA EnvironmentsAppend ==
  ASSUME NEW E, NEW c, EnvironmentsOK(E, c), NEW x, EnvironmentOK(Append(E, x), c, Len(E) + 1)
  PROVE  EnvironmentsOK(Append(E, x), c)
<1> DEFINE F == Append(E, x)
<1>1. IsSeq(E)
  BY DEF EnvironmentsOK
<1>2. /\ IsSeq(F) /\ F # <<>> /\ Len(E) \in Nat /\ DOMAIN E = 1..Len(E) /\ DOMAIN F = 1..Len(E) + 1
      /\ \A i \in 1..Len(E) : F[i] = E[i]
  BY <1>1, OneMore
<1>3. Grows(E, F)
  BY <1>1, AppendGrows
<1>4. \A e \in DOMAIN F \ DOMAIN E : EnvironmentOK(F, c, e)
  <2> TAKE e \in DOMAIN F \ DOMAIN E
  <2>1. e = Len(E) + 1
    BY <1>2
  <2> QED BY <2>1
<1> HIDE DEF F
<1>5. \A e \in DOMAIN E : F[e] = E[e] /\ E[e] = Environment(E[e].enclosing, E[e].values, E[e].at)
  BY <1>2 DEF EnvironmentsOK, EnvironmentOK
<1>6. EnvironmentsOK(F, c)
  BY <1>2, <1>3, <1>4, <1>5, EnvironmentsGrow
<1> QED BY <1>6 DEF F

\* A value for a name in one of them.
Defining(E, e, n, v) == [E EXCEPT ![e].values = Updated(@, n, v)]

\* What d[n] = v does to one environment.
LEMMA DefiningIs ==
  ASSUME NEW E, IsSeq(E), NEW e \in DOMAIN E,
         E[e] = Environment(E[e].enclosing, E[e].values, E[e].at), NEW n, NEW v
  PROVE  LET F == Defining(E, e, n, v) IN
         /\ IsSeq(F) /\ DOMAIN F = DOMAIN E /\ Len(F) = Len(E) /\ (E # <<>> => F # <<>>)
         /\ F[e] = Environment(E[e].enclosing, F[e].values, E[e].at)
         /\ F[e].enclosing = E[e].enclosing /\ F[e].at = E[e].at
         /\ DOMAIN F[e].values = DOMAIN E[e].values \cup {n} /\ F[e].values[n] = v
         /\ \A m \in DOMAIN E[e].values : m # n => F[e].values[m] = E[e].values[m]
         /\ \A i \in DOMAIN E : i # e => F[i] = E[i]
<1> DEFINE F == Defining(E, e, n, v)
           T == {E[i] : i \in DOMAIN E}
           y == [E[e] EXCEPT !.values = Updated(@, n, v)]
<1>1. E \in Seq(T) /\ DOMAIN E = 1..Len(E) /\ Len(E) \in Nat
  BY LenProperties DEF IsSeq
<1>2. F = [E EXCEPT ![e] = y]
  BY DEF Defining
<1>3. /\ y = Environment(E[e].enclosing, y.values, E[e].at) /\ y.values = Updated(E[e].values, n, v)
      /\ y.enclosing = E[e].enclosing /\ y.at = E[e].at
  BY DEF Environment
<1> HIDE DEF F, T, y
<1>4. F \in Seq(T \cup {y}) /\ Len(F) = Len(E) /\ DOMAIN F = DOMAIN E
  <2>1. E \in Seq(T \cup {y}) /\ y \in T \cup {y}
    BY <1>1
  <2>2. e \in 1..Len(E)
    BY <1>1
  <2> QED BY <1>2, <2>1, <2>2, ExceptSeq, LenProperties
<1>5. IsSeq(F)
  BY <1>4, SeqIs
<1>6. F[e] = y /\ \A i \in DOMAIN E : i # e => F[i] = E[i]
  BY <1>2
<1>7. /\ DOMAIN Updated(E[e].values, n, v) = DOMAIN E[e].values \cup {n} /\ Updated(E[e].values, n, v)[n] = v
      /\ \A m \in DOMAIN E[e].values : m # n => Updated(E[e].values, n, v)[m] = E[e].values[m]
  BY DEF Updated
<1>8. E # <<>> => F # <<>>
  BY <1>4
<1> QED BY <1>3, <1>4, <1>5, <1>6, <1>7, <1>8 DEF F

\* A name defined in an environment: nothing else changes.
LEMMA DefiningGrows ==
  ASSUME NEW E, IsSeq(E), NEW e \in DOMAIN E,
         E[e] = Environment(E[e].enclosing, E[e].values, E[e].at), NEW n \in Name, NEW v
  PROVE  Grows(E, Defining(E, e, n, v))
<1>1. n \notin Special
  BY ResolverAssumption
<1>2. \A m \in Special : m # n
  BY <1>1
<1> DEFINE F == Defining(E, e, n, v)
<1>3. /\ DOMAIN F = DOMAIN E /\ F[e].enclosing = E[e].enclosing /\ F[e].at = E[e].at
      /\ DOMAIN F[e].values = DOMAIN E[e].values \cup {n}
      /\ \A m \in DOMAIN E[e].values : m # n => F[e].values[m] = E[e].values[m]
      /\ \A i \in DOMAIN E : i # e => F[i] = E[i]
  BY DefiningIs
<1> HIDE DEF F
<1>4. Grows(E, F)
  BY <1>2, <1>3 DEF Grows
<1> QED BY <1>4 DEF F

\* A name is given a value, which may close over the environment that holds it.
LEMMA EnvironmentsDefine ==
  ASSUME NEW E, NEW c, EnvironmentsOK(E, c), NEW e \in DOMAIN E, NEW n \in Name, NEW v,
         ValueOK(E, c, v) \/ ValueOK(Defining(E, e, n, v), c, v)
  PROVE  /\ EnvironmentsOK(Defining(E, e, n, v), c) /\ Grows(E, Defining(E, e, n, v))
         /\ n \in DOMAIN Defining(E, e, n, v)[e].values
<1> DEFINE F == Defining(E, e, n, v)
<1>1. IsSeq(E) /\ E # <<>> /\ \A i \in DOMAIN E : E[i] = Environment(E[i].enclosing, E[i].values, E[i].at)
  BY DEF EnvironmentsOK, EnvironmentOK
<1>2. /\ IsSeq(F) /\ F # <<>> /\ DOMAIN F = DOMAIN E
      /\ F[e] = Environment(E[e].enclosing, F[e].values, E[e].at)
      /\ F[e].enclosing = E[e].enclosing /\ F[e].at = E[e].at
      /\ DOMAIN F[e].values = DOMAIN E[e].values \cup {n} /\ F[e].values[n] = v
      /\ \A m \in DOMAIN E[e].values : m # n => F[e].values[m] = E[e].values[m]
      /\ \A i \in DOMAIN E : i # e => F[i] = E[i]
  BY <1>1, DefiningIs
<1>3. Grows(E, F)
  BY <1>1, DefiningGrows
<1>v. ValueOK(E, c, v) \/ ValueOK(F, c, v)
  OBVIOUS
<1> HIDE DEF F
<1>4. ValueOK(F, c, v)
  BY <1>3, <1>v, HasSupers, ValueGrows
<1>5. \A i \in DOMAIN E :
           /\ F[i] = Environment(F[i].enclosing, F[i].values, F[i].at)
           /\ \A m \in DOMAIN F[i].values :
                \/ m \in DOMAIN E[i].values /\ F[i].values[m] = E[i].values[m]
                \/ m \in Name /\ ValueOK(F, c, F[i].values[m])
  <2> TAKE i \in DOMAIN E
  <2>1. CASE i = e
    BY <1>2, <1>4, <2>1
  <2>2. CASE i # e
    BY <1>1, <1>2, <2>2
  <2> QED BY <2>1, <2>2
<1>6. EnvironmentsOK(F, c)
  BY <1>2, <1>3, <1>5, EnvironmentsGrow
<1> QED BY <1>2, <1>3, <1>6 DEF F

-----------------------------------------------------------------------------
(* Activations *)

\* What an activation counts on stays so.
LEMMA StackGrows ==
  ASSUME NEW E, NEW F, Grows(E, F), NEW c, NEW st, NEW e, StackOK(E, c, st, e)
  PROVE  StackOK(F, c, st, e)
<1>1. st \in Seq(FrameType) /\ DOMAIN st = 1..Len(st) /\ Len(st) \in Nat
  BY LenProperties DEF StackOK
<1>2. \A k \in DOMAIN st : /\ FrameOK(E, c, st, e, k)
                           /\ Level(st, e, k) \in DOMAIN E /\ Level(st, e, k - 1) \in DOMAIN E
  BY DEF StackOK, FrameOK
<1>3. \A i \in DOMAIN E : i \in DOMAIN F /\ F[i].at = E[i].at
  BY DEF Grows
<1>4. ASSUME NEW k \in DOMAIN st
      PROVE  FrameOK(F, c, st, e, k)
  <2>1. st[k].kind = "block" => BlockOK(F, c, st, e, k)
    <3> SUFFICES ASSUME st[k].kind = "block" PROVE BlockOK(F, c, st, e, k)
      OBVIOUS
    <3>1. BlockOK(E, c, st, e, k)
      BY <1>2 DEF FrameOK
    <3> DEFINE s == E[Level(st, e, k)].at
    <3>2. Stands(F, c, Level(st, e, k - 1), s[2])
      BY <3>1, StandsGrows DEF BlockOK
    <3>3. F[Level(st, e, k)].at = s
      BY <1>2, <1>3
    <3> QED BY <3>1, <3>2, <3>3 DEF BlockOK
  <2>2. st[k].kind = "loop" => LoopOK(F, c, st, e, k)
    <3> SUFFICES ASSUME st[k].kind = "loop" PROVE LoopOK(F, c, st, e, k)
      OBVIOUS
    <3>1. LoopOK(E, c, st, e, k)
      BY <1>2 DEF FrameOK
    <3>2. PICK j \in DOMAIN c :
            /\ c[j].op = "while" /\ st[k].resume = Past(c, j)
            /\ Stands(E, c, Level(st, e, k - 1), j)
            /\ k < Len(st) => st[k + 1].kind = "block" /\ E[Level(st, e, k + 1)].at = <<"body", j>>
      BY <3>1 DEF LoopOK
    <3>3. Stands(F, c, Level(st, e, k - 1), j)
      BY <3>2, StandsGrows
    <3>4. k < Len(st) => F[Level(st, e, k + 1)].at = E[Level(st, e, k + 1)].at
      <4>1. k < Len(st) => k + 1 \in DOMAIN st
        BY <1>1
      <4> QED BY <1>2, <1>3, <4>1
    <3> QED BY <3>1, <3>2, <3>3, <3>4 DEF LoopOK
  <2>3. st[k].kind = "call" => CallOK(F, c, st, e, k)
    <3> SUFFICES ASSUME st[k].kind = "call" PROVE CallOK(F, c, st, e, k)
      OBVIOUS
    <3>1. CallOK(E, c, st, e, k)
      BY <1>2 DEF FrameOK
    <3>2. Stands(F, c, Level(st, e, k - 1), st[k].resume - 1)
      BY <3>1, StandsGrows DEF CallOK
    <3>3. F[Level(st, e, k)].at = E[Level(st, e, k)].at
      BY <1>2, <1>3
    <3> QED BY <3>1, <3>2, <3>3 DEF CallOK
  <2>4. st[k].this # 0 => st[k].this \in DOMAIN F /\ F[st[k].this].at[1] = "this"
    BY <1>2, <1>3 DEF FrameOK
  <2> QED BY <1>2, <1>3, <2>1, <2>2, <2>3, <2>4 DEF FrameOK
<1> QED BY <1>4 DEF StackOK

\* The environments above the activations that stay.
LEMMA LevelsPushed ==
  ASSUME NEW st \in Seq(FrameType), NEW f \in FrameType, NEW e, NEW g, f.previous = e
  PROVE  /\ \A k \in 0..Len(st) : Level(Append(st, f), g, k) = Level(st, e, k)
         /\ Level(Append(st, f), g, Len(st) + 1) = g
<1>1. /\ Len(Append(st, f)) = Len(st) + 1 /\ Len(st) \in Nat
      /\ \A i \in 1..Len(st) : Append(st, f)[i] = st[i]
      /\ Append(st, f)[Len(st) + 1] = f
  BY Appended
<1>2. ASSUME NEW k \in 0..Len(st)
      PROVE  Level(Append(st, f), g, k) = Level(st, e, k)
  <2>1. k # Len(st) + 1 /\ k + 1 \in 1..Len(st) + 1
    BY <1>1
  <2>2. CASE k = Len(st)
    BY <1>1, <2>1, <2>2 DEF Level
  <2>3. CASE k # Len(st)
    <3>1. k + 1 \in 1..Len(st)
      BY <1>1, <2>3
    <3> QED BY <1>1, <2>1, <2>3, <3>1 DEF Level
  <2> QED BY <2>2, <2>3
<1> QED BY <1>1, <1>2 DEF Level

\* A block of loop j on the activation of that loop.
BodyOfLoop(E, c, st, e, f, g) ==
  f.kind = "block" /\ \E j \in DOMAIN c :
    /\ c[j].op = "while" /\ Last(st).resume = Past(c, j)
    /\ Stands(E, c, Level(st, e, Len(st) - 1), j) /\ E[g].at = <<"body", j>>

\* An activation that is as it must be leaves those below it so.
LEMMA StackPush ==
  ASSUME NEW E, NEW c, NEW st, NEW e, StackOK(E, c, st, e), NEW f \in FrameType, f.previous = e, NEW g,
         \/ st = <<>> \/ Last(st).kind # "loop" \/ BodyOfLoop(E, c, st, e, f, g),
         FrameOK(E, c, Append(st, f), g, Len(st) + 1)
  PROVE  StackOK(E, c, Append(st, f), g)
<1> DEFINE n == Len(st)
           t == Append(st, f)
<1>1. /\ st \in Seq(FrameType) /\ t \in Seq(FrameType) /\ Len(t) = n + 1 /\ n \in Nat
      /\ DOMAIN st = 1..n /\ DOMAIN t = 1..n + 1
      /\ \A i \in 1..n : t[i] = st[i]
      /\ t[n + 1] = f
  BY Appended DEF StackOK
<1>2. \A k \in 0..n : Level(t, g, k) = Level(st, e, k)
  BY <1>1, LevelsPushed
<1>3. Level(t, g, n + 1) = g
  BY <1>1, LevelsPushed
<1>4. \A k \in 1..n : FrameOK(E, c, st, e, k)
  BY <1>1 DEF StackOK
<1>5. Level(st, e, 0) = Globals
  BY DEF StackOK
<1>6. FrameOK(E, c, t, g, n + 1)
  OBVIOUS
<1>7. n # 0 => Last(st) = st[n]
  <2>1. n # 0 => st # <<>>
    OBVIOUS
  <2>2. st # <<>> => Last(st) = st[Len(st)]
    BY <1>1, FrontIs
  <2> QED BY <2>1, <2>2
<1>8. st = <<>> \/ Last(st).kind # "loop" \/ BodyOfLoop(E, c, st, e, f, g)
  OBVIOUS
<1>9. n # 0 => st # <<>>
  OBVIOUS
<1> HIDE DEF n, t
<1>10. ASSUME NEW k \in 1..n
       PROVE  FrameOK(E, c, t, g, k)
  <2>1. /\ Level(t, g, k) = Level(st, e, k) /\ Level(t, g, k - 1) = Level(st, e, k - 1) /\ t[k] = st[k]
        /\ k > 1 => t[k - 1] = st[k - 1]
    BY <1>1, <1>2
  <2>2. FrameOK(E, c, st, e, k)
    BY <1>4
  <2>3. t[k].kind = "block" => BlockOK(E, c, t, g, k)
    BY <2>1, <2>2 DEF FrameOK, BlockOK
  <2>4. t[k].kind = "call" => CallOK(E, c, t, g, k)
    BY <2>1, <2>2 DEF FrameOK, CallOK
  <2>5. t[k].kind = "loop" => LoopOK(E, c, t, g, k)
    <3> SUFFICES ASSUME st[k].kind = "loop" PROVE LoopOK(E, c, t, g, k)
      BY <2>1
    <3>1. LoopOK(E, c, st, e, k)
      BY <2>2 DEF FrameOK
    <3>2. CASE k = n
      <4>1. Last(st) = st[n] /\ st # <<>>
        BY <1>1, <1>7, <1>9, <3>2
      <4>2. BodyOfLoop(E, c, st, e, f, g)
        BY <1>8, <3>2, <4>1
      <4>3. PICK j \in DOMAIN c :
              /\ c[j].op = "while" /\ Last(st).resume = Past(c, j)
              /\ Stands(E, c, Level(st, e, Len(st) - 1), j) /\ E[g].at = <<"body", j>>
        BY <4>2 DEF BodyOfLoop
      <4>4. f.kind = "block" /\ Len(st) = n
        BY <4>2 DEF BodyOfLoop, n
      <4> QED BY <1>1, <1>3, <2>1, <3>1, <3>2, <4>1, <4>3, <4>4 DEF LoopOK
    <3>3. CASE k # n
      <4>1. k + 1 \in 1..n /\ k + 1 \in 0..n /\ k < n /\ k < Len(t)
        BY <1>1, <3>3
      <4>2. t[k + 1] = st[k + 1] /\ Level(t, g, k + 1) = Level(st, e, k + 1)
        BY <1>1, <1>2, <4>1
      <4>3. n = Len(st)
        BY DEF n
      <4> QED BY <2>1, <3>1, <4>1, <4>2, <4>3 DEF LoopOK
    <3> QED BY <3>2, <3>3
  <2> QED BY <2>1, <2>2, <2>3, <2>4, <2>5 DEF FrameOK
<1>11. \A k \in 1..n + 1 : k = n + 1 \/ k \in 1..n
  BY <1>1
<1>12. 0 \in 0..n
  BY <1>1
<1> QED BY <1>1, <1>2, <1>5, <1>6, <1>10, <1>11, <1>12 DEF StackOK, t

\* Without the last activation, and with the environment it restores.
LEMMA StackPop ==
  ASSUME NEW E, NEW c, NEW st, NEW e, StackOK(E, c, st, e), st # <<>>
  PROVE  /\ StackOK(E, c, Front(st), Last(st).previous) /\ Last(st) = st[Len(st)]
         /\ Len(st) \in DOMAIN st /\ FrameOK(E, c, st, e, Len(st))
         /\ Level(st, e, Len(st)) = e /\ Level(st, e, Len(st) - 1) = Last(st).previous
         /\ Last(st).previous \in DOMAIN E /\ Len(Front(st)) = Len(st) - 1
         /\ Front(st) # <<>> => /\ Len(st) - 1 \in DOMAIN st /\ Last(Front(st)) = st[Len(st) - 1]
                                /\ Last(Front(st)).kind = "loop" => Last(st).kind = "block"
<1> DEFINE n == Len(st)
           t == Front(st)
           g == Last(st).previous
<1>1. /\ st \in Seq(FrameType) /\ n \in Nat \ {0} /\ DOMAIN st = 1..n /\ t \in Seq(FrameType)
      /\ Len(t) = n - 1 /\ DOMAIN t = 1..n - 1 /\ \A i \in 1..n - 1 : t[i] = st[i]
      /\ Last(st) = st[n]
  BY FrontIs DEF StackOK
<1>2. \A k \in 1..n : FrameOK(E, c, st, e, k)
  BY <1>1 DEF StackOK
<1>3. Level(st, e, n) = e
  BY DEF Level
<1>4. t # <<>> => Last(t) = t[n - 1] /\ n - 1 # 0
  BY <1>1, FrontIs
<1>5. Level(st, e, 0) = Globals /\ Len(st) = n
  BY DEF StackOK
<1> HIDE DEF n, t
<1>6. Level(st, e, n - 1) = g
  <2>1. n - 1 # n /\ (n - 1) + 1 = n
    BY <1>1
  <2> QED BY <1>1, <1>5, <2>1 DEF Level
<1>7. \A k \in 0..n - 1 : Level(t, g, k) = Level(st, e, k)
  <2> TAKE k \in 0..n - 1
  <2>1. CASE k = n - 1
    BY <1>1, <1>6, <2>1 DEF Level
  <2>2. CASE k # n - 1
    <3>1. k + 1 \in 1..n - 1 /\ k # n
      BY <1>1, <2>2
    <3> QED BY <1>1, <1>5, <2>2, <3>1 DEF Level
  <2> QED BY <2>1, <2>2
<1> HIDE DEF g
<1>8. ASSUME NEW k \in 1..n - 1
      PROVE  FrameOK(E, c, t, g, k)
  <2>1. k \in 0..n - 1 /\ k - 1 \in 0..n - 1 /\ (k > 1 => k - 1 \in 1..n - 1) /\ k \in 1..n
    BY <1>1
  <2>2. /\ Level(t, g, k) = Level(st, e, k) /\ Level(t, g, k - 1) = Level(st, e, k - 1) /\ t[k] = st[k]
        /\ k > 1 => t[k - 1] = st[k - 1]
    BY <1>1, <1>7, <2>1
  <2>3. FrameOK(E, c, st, e, k)
    BY <1>2, <2>1
  <2>4. t[k].kind = "block" => BlockOK(E, c, t, g, k)
    BY <2>2, <2>3 DEF FrameOK, BlockOK
  <2>5. t[k].kind = "call" => CallOK(E, c, t, g, k)
    BY <2>2, <2>3 DEF FrameOK, CallOK
  <2>6. t[k].kind = "loop" => LoopOK(E, c, t, g, k)
    <3> SUFFICES ASSUME st[k].kind = "loop" PROVE LoopOK(E, c, t, g, k)
      BY <2>2
    <3>1. LoopOK(E, c, st, e, k)
      BY <2>3 DEF FrameOK
    <3>2. PICK j \in DOMAIN c :
            /\ c[j].op = "while" /\ st[k].resume = Past(c, j)
            /\ Stands(E, c, Level(st, e, k - 1), j)
            /\ k < Len(st) => st[k + 1].kind = "block" /\ E[Level(st, e, k + 1)].at = <<"body", j>>
      BY <3>1 DEF LoopOK
    <3>3. k < Len(t) => k + 1 \in 0..n - 1 /\ k + 1 \in 1..n - 1 /\ k < Len(st)
      BY <1>1, <1>5
    <3>4. k < Len(t) => Level(t, g, k + 1) = Level(st, e, k + 1) /\ t[k + 1] = st[k + 1]
      BY <1>1, <1>7, <3>3
    <3> QED BY <2>2, <3>1, <3>2, <3>3, <3>4 DEF LoopOK
  <2> QED BY <2>2, <2>3, <2>4, <2>5, <2>6 DEF FrameOK
<1>9. StackOK(E, c, t, g)
  <2>1. 0 \in 0..n - 1
    BY <1>1
  <2>2. Level(t, g, 0) = Globals
    BY <1>5, <1>7, <2>1
  <2> QED BY <1>1, <1>8, <2>2 DEF StackOK
<1>10. n \in DOMAIN st /\ FrameOK(E, c, st, e, n)
  BY <1>1, <1>2
<1>11. g \in DOMAIN E
  BY <1>6, <1>10 DEF FrameOK
<1>12. t # <<>> => /\ n - 1 \in DOMAIN st /\ Last(t) = st[n - 1]
                   /\ Last(t).kind = "loop" => Last(st).kind = "block"
  <2> SUFFICES ASSUME t # <<>> PROVE /\ n - 1 \in DOMAIN st /\ Last(t) = st[n - 1]
                                     /\ Last(t).kind = "loop" => Last(st).kind = "block"
    OBVIOUS
  <2>1. n - 1 \in 1..n /\ n - 1 \in 1..n - 1 /\ n - 1 < n /\ (n - 1) + 1 = n
    BY <1>1, <1>4
  <2>2. Last(t) = st[n - 1]
    BY <1>1, <1>4, <2>1
  <2>3. FrameOK(E, c, st, e, n - 1)
    BY <1>2, <2>1
  <2>4. st[n - 1].kind = "loop" => LoopOK(E, c, st, e, n - 1)
    BY <2>3 DEF FrameOK
  <2>5. LoopOK(E, c, st, e, n - 1) => (n - 1 < Len(st) => st[(n - 1) + 1].kind = "block")
    BY DEF LoopOK
  <2> QED BY <1>1, <1>5, <2>1, <2>2, <2>4, <2>5
<1> QED BY <1>1, <1>3, <1>5, <1>6, <1>9, <1>10, <1>11, <1>12 DEF n, t, g

-----------------------------------------------------------------------------
(* Distances *)

\* What Ancestor follows from e, as far as d.
Climbs(f, e, d) ==
  f = [k \in 0..d |-> IF k = 0 THEN e ELSE IF f[k - 1] = 0 THEN 0 ELSE envs[f[k - 1]].enclosing]

\* Following enclosing, as a function of the distance.
LEMMA AncestorIs == \A e, d : Ancestor(e, d) = (CHOOSE f : Climbs(f, e, d))[d]
BY DEF Ancestor, Climbs

\* There is such a climb as far as one likes.
LEMMA ClimbExists ==
  ASSUME NEW e, NEW d \in Nat
  PROVE  \E f : Climbs(f, e, d)
<1> DEFINE T == {n \in Nat : ~ \E f : Climbs(f, e, n)}
<1>1. SUFFICES ASSUME T # {} PROVE FALSE
  OBVIOUS
<1>2. PICK n \in T : \A m \in T : n <= m
  <2>1. T \in SUBSET Nat
    OBVIOUS
  <2> HIDE DEF T
  <2> QED BY <1>1, <2>1, LeastNat
<1>3. n # 0
  <2>1. Climbs([k \in 0..0 |-> e], e, 0)
    BY DEF Climbs
  <2> QED BY <2>1
<1>4. n - 1 \in Nat /\ n - 1 \notin T
  BY <1>2, <1>3
<1>5. PICK f : Climbs(f, e, n - 1)
  BY <1>4
<1> DEFINE last == IF f[n - 1] = 0 THEN 0 ELSE envs[f[n - 1]].enclosing
           g == [k \in 0..n |-> IF k = n THEN last ELSE f[k]]
<1>6. \A k \in 0..n - 1 : f[k] = IF k = 0 THEN e ELSE IF f[k - 1] = 0 THEN 0 ELSE envs[f[k - 1]].enclosing
  BY <1>5 DEF Climbs
<1>7. \A k \in 0..n - 1 : k # n /\ g[k] = f[k]
  BY <1>4
<1>8. g[n] = last /\ n \in Nat
  OBVIOUS
<1>9. \A k \in 0..n : g[k] = IF k = 0 THEN e ELSE IF g[k - 1] = 0 THEN 0 ELSE envs[g[k - 1]].enclosing
  <2> TAKE k \in 0..n
  <2>1. CASE k = n
    <3>1. n - 1 \in 0..n - 1
      BY <1>4
    <3>2. g[n - 1] = f[n - 1]
      BY <1>7, <3>1
    <3> QED BY <1>3, <1>8, <2>1, <3>2
  <2>2. CASE k # n
    <3>1. k \in 0..n - 1 /\ (k # 0 => k - 1 \in 0..n - 1)
      BY <1>8, <2>2
    <3>2. g[k] = f[k] /\ (k # 0 => g[k - 1] = f[k - 1])
      BY <1>7, <3>1
    <3>3. f[k] = IF k = 0 THEN e ELSE IF f[k - 1] = 0 THEN 0 ELSE envs[f[k - 1]].enclosing
      BY <1>6, <3>1
    <3> HIDE DEF g
    <3> QED BY <3>2, <3>3
  <2> QED BY <2>1, <2>2
<1>10. Climbs(g, e, n)
  <2>1. g = [k \in 0..n |-> g[k]]
    OBVIOUS
  <2> HIDE DEF g
  <2> QED BY <1>9, <2>1 DEF Climbs
<1> QED BY <1>10

\* Two climbs go the same way.
LEMMA ClimbSame ==
  ASSUME NEW e, NEW d \in Nat, NEW f, Climbs(f, e, d), NEW m \in Nat, NEW g, Climbs(g, e, m),
         NEW k \in Nat, k <= d, k <= m
  PROVE  f[k] = g[k]
<1> DEFINE T == {i \in Nat : i <= d /\ i <= m /\ f[i] # g[i]}
<1>1. SUFFICES ASSUME T # {} PROVE FALSE
  OBVIOUS
<1>2. PICK n \in T : \A i \in T : n <= i
  <2>1. T \in SUBSET Nat
    OBVIOUS
  <2> HIDE DEF T
  <2> QED BY <1>1, <2>1, LeastNat
<1>3. n \in Nat /\ n <= d /\ n <= m /\ f[n] # g[n]
  BY <1>2
<1>4. /\ f[n] = IF n = 0 THEN e ELSE IF f[n - 1] = 0 THEN 0 ELSE envs[f[n - 1]].enclosing
      /\ g[n] = IF n = 0 THEN e ELSE IF g[n - 1] = 0 THEN 0 ELSE envs[g[n - 1]].enclosing
  BY <1>3 DEF Climbs
<1>5. n # 0
  BY <1>3, <1>4
<1>6. n - 1 \in Nat /\ n - 1 <= d /\ n - 1 <= m /\ n - 1 \notin T
  BY <1>2, <1>3, <1>5
<1>7. f[n - 1] = g[n - 1]
  BY <1>6
<1> QED BY <1>3, <1>4, <1>5, <1>7

\* So Ancestor goes one environment out for each step of the distance.
LEMMA AncestorStep ==
  ASSUME NEW e, NEW d \in Nat
  PROVE  /\ Ancestor(e, 0) = e
         /\ Ancestor(e, d + 1) = IF Ancestor(e, d) = 0 THEN 0 ELSE envs[Ancestor(e, d)].enclosing
<1> DEFINE G(n) == CHOOSE f : Climbs(f, e, n)
<1>1. \A n \in Nat : Climbs(G(n), e, n) /\ Ancestor(e, n) = G(n)[n]
  BY ClimbExists, AncestorIs
<1> HIDE DEF G
<1>2. Ancestor(e, 0) = e
  <2>1. Climbs(G(0), e, 0) /\ Ancestor(e, 0) = G(0)[0]
    BY <1>1
  <2> QED BY <2>1 DEF Climbs
<1>3. /\ Climbs(G(d), e, d) /\ Climbs(G(d + 1), e, d + 1) /\ d + 1 \in Nat
      /\ Ancestor(e, d) = G(d)[d] /\ Ancestor(e, d + 1) = G(d + 1)[d + 1]
  BY <1>1
<1>4. G(d)[d] = G(d + 1)[d]
  <2>1. d <= d /\ d <= d + 1
    OBVIOUS
  <2> QED BY <1>3, <2>1, ClimbSame
<1>5. G(d + 1)[d + 1] = IF G(d + 1)[d] = 0 THEN 0 ELSE envs[G(d + 1)[d]].enclosing
  <2>1. d + 1 \in 0..d + 1 /\ d + 1 # 0 /\ (d + 1) - 1 = d
    OBVIOUS
  <2> QED BY <1>3, <2>1 DEF Climbs
<1> QED BY <1>2, <1>3, <1>4, <1>5

\* Going out from an environment in which node p may run, one meets the scopes around
\* p, each with what has been declared in it before the one inside.
LEMMA Climbed ==
  ASSUME EnvironmentsOK(envs, code), NEW p, NEW e, Stands(envs, code, e, p),
         NEW d \in Nat, NEW path, Path(code, p, d, path), NEW k \in 0..d
  PROVE  /\ Ancestor(e, k) \in DOMAIN envs /\ envs[Ancestor(e, k)].at = path[k]
         /\ Upto(envs, code, Ancestor(e, k), IF k = 0 THEN p ELSE path[k - 1][2] + 1)
         /\ k # 0 => envs[Ancestor(e, k - 1)].enclosing = Ancestor(e, k)
<1> DEFINE Holds(i) ==
             /\ Ancestor(e, i) \in DOMAIN envs /\ envs[Ancestor(e, i)].at = path[i]
             /\ Upto(envs, code, Ancestor(e, i), IF i = 0 THEN p ELSE path[i - 1][2] + 1)
             /\ i # 0 => envs[Ancestor(e, i - 1)].enclosing = Ancestor(e, i)
           T == {i \in 0..d : ~Holds(i)}
<1>1. SUFFICES ASSUME T # {} PROVE FALSE
  OBVIOUS
<1>2. PICK n \in T : \A i \in T : n <= i
  <2>1. T \in SUBSET Nat
    OBVIOUS
  <2> HIDE DEF T
  <2> QED BY <1>1, <2>1, LeastNat
<1>3. n \in 0..d /\ ~Holds(n) /\ \A i \in 0..d : i < n => Holds(i)
  BY <1>2
<1> HIDE DEF T
<1>4. Holds(0)
  <2>1. Ancestor(e, 0) = e
    BY AncestorStep
  <2>2. path[0] = Scope(code, p)
    BY DEF Path
  <2> QED BY <2>1, <2>2 DEF Stands
<1>5. n # 0
  BY <1>3, <1>4
<1> DEFINE a == Ancestor(e, n - 1)
<1>6. n - 1 \in 0..d /\ n - 1 < n /\ n \in 1..d /\ (n - 1) + 1 = n /\ n - 1 \in Nat
  BY <1>3, <1>5
<1>7. a \in DOMAIN envs /\ envs[a].at = path[n - 1]
  BY <1>3, <1>6
<1>8. path[n - 1] # Outside /\ path[n] = Outer(code, path[n - 1])
  BY <1>6 DEF Path
<1>9. DOMAIN envs = 1..Len(envs) /\ Len(envs) \in Nat
  BY LenProperties DEF EnvironmentsOK, IsSeq
<1>10. Ancestor(e, n) = envs[a].enclosing
  <2>1. Ancestor(e, (n - 1) + 1) = IF Ancestor(e, n - 1) = 0 THEN 0 ELSE envs[Ancestor(e, n - 1)].enclosing
    BY <1>6, AncestorStep
  <2>2. a # 0
    BY <1>7, <1>9
  <2> QED BY <1>6, <2>1, <2>2
<1> HIDE DEF a
<1>11. EnvironmentOK(envs, code, a)
  BY <1>7 DEF EnvironmentsOK
<1>12. a # Globals
  BY <1>7, <1>8, <1>11 DEF EnvironmentOK
<1>13. /\ envs[a].enclosing \in 1..a - 1 /\ envs[envs[a].enclosing].at = Outer(code, envs[a].at)
       /\ Upto(envs, code, envs[a].enclosing, envs[a].at[2] + 1)
  BY <1>11, <1>12 DEF EnvironmentOK
<1>14. envs[a].enclosing \in DOMAIN envs
  BY <1>7, <1>9, <1>13
<1>15. Holds(n)
  <2>1. envs[Ancestor(e, n)].at = path[n]
    BY <1>7, <1>8, <1>10, <1>13
  <2>2. Upto(envs, code, Ancestor(e, n), path[n - 1][2] + 1)
    BY <1>7, <1>10, <1>13
  <2>3. envs[Ancestor(e, n - 1)].enclosing = Ancestor(e, n)
    BY <1>10 DEF a
  <2> QED BY <1>5, <1>10, <1>14, <2>1, <2>2, <2>3
<1> QED BY <1>3, <1>15

\* The scopes that a place can be in.
LEMMA ScopeShape ==
  ASSUME NEW c, WellFormed(c), NEW p \in 1..Len(c) + 1
  PROVE  /\ Encl(c, p) = {} => Scope(c, p) = Outside
         /\ Encl(c, p) # {} =>
              /\ Scope(c, p) = ScopeAt(c, Inmost(c, p)) /\ Scope(c, p)[2] = Inmost(c, p)
              /\ Scope(c, p)[1] = (IF c[Inmost(c, p)].op = "class" THEN "this" ELSE "body")
              /\ Scope(c, p) # Outside
              /\ Inmost(c, p) \in Encl(c, p) /\ Inmost(c, p) \in 1..p - 1 /\ Inmost(c, p) \in 1..Len(c)
         /\ Scope(c, p)[1] \in {"globals", "this", "body"}
<1>1. Outside[1] = "globals"
  BY DEF Outside
<1>2. CASE Encl(c, p) = {}
  BY <1>1, <1>2 DEF Scope
<1>3. CASE Encl(c, p) # {}
  <2> DEFINE i == Inmost(c, p)
             kind == IF c[i].op = "class" THEN "this" ELSE "body"
  <2>1. i \in Encl(c, p) /\ i \in 1..p - 1 /\ i \in 1..Len(c)
    BY <1>3, EnclInmost
  <2>2. Scope(c, p) = ScopeAt(c, i) /\ ScopeAt(c, i) = <<kind, i>>
    BY <1>3 DEF Scope, ScopeAt
  <2>3. kind \in {"this", "body"}
    OBVIOUS
  <2>4. Scope(c, p)[1] = kind /\ Scope(c, p)[2] = i
    BY <2>2
  <2> HIDE DEF i
  <2>5. Scope(c, p) # Outside
    BY <1>1, <2>3, <2>4
  <2> QED BY <1>3, <2>1, <2>2, <2>3, <2>4, <2>5 DEF i
<1> QED BY <1>2, <1>3

\* A place in the scope of node i has that node inmost.
LEMMA ScopeMeans ==
  ASSUME NEW c, WellFormed(c), NEW p \in 1..Len(c) + 1, NEW kind, kind # "globals", NEW i,
         Scope(c, p) = <<kind, i>>
  PROVE  /\ Encl(c, p) # {} /\ Inmost(c, p) = i /\ i \in Encl(c, p) /\ i \in 1..p - 1 /\ i \in 1..Len(c)
         /\ (kind = "this" <=> c[i].op = "class")
<1>1. Scope(c, p)[1] = kind /\ Scope(c, p)[2] = i
  OBVIOUS
<1>2. Outside[1] = "globals"
  BY DEF Outside
<1>3. Encl(c, p) # {}
  BY <1>1, <1>2, ScopeShape
<1> QED BY <1>1, <1>3, ScopeShape

\* No scope of a place is one of super, and what lies outside one that is not Outside.
LEMMA OuterShape ==
  ASSUME NEW c, WellFormed(c), NEW s, s[2] \in 1..Len(c) + 1, NEW i, NEW kind, Outer(c, s) = <<kind, i>>
  PROVE  /\ kind = "super" => s[1] = "this" /\ c[s[2]].arg # {} /\ i = s[2]
         /\ kind # "super" => Scope(c, s[2]) = <<kind, i>>
<1>1. CASE s[1] = "this" /\ c[s[2]].arg # {}
  <2>1. Outer(c, s) = <<"super", s[2]>>
    BY <1>1 DEF Outer
  <2> QED BY <1>1, <2>1
<1>2. CASE ~(s[1] = "this" /\ c[s[2]].arg # {})
  <2>1. Outer(c, s) = Scope(c, s[2])
    BY <1>2 DEF Outer
  <2>2. Scope(c, s[2])[1] = kind
    BY <2>1
  <2>3. kind # "super"
    BY <2>2, ScopeShape
  <2> QED BY <2>1, <2>3
<1> QED BY <1>1, <1>2

\* What a name means is Outside or the scope of a node around that binds it.
LEMMA LexicalShape ==
  ASSUME NEW c, WellFormed(c), NEW p \in 1..Len(c) + 1, NEW n, Lexical(c, n, p) # Outside
  PROVE  \E i \in Encl(c, p) : /\ Lexical(c, n, p) = <<IF n \in Special THEN n ELSE "body", i>>
                               /\ Binds(c, i, n, p)
<1> DEFINE H == {i \in Encl(c, p) : Binds(c, i, n, p)}
           i == Max(H)
<1>1. H # {} /\ Lexical(c, n, p) = <<IF n \in Special THEN n ELSE "body", i>>
  BY DEF Lexical
<1>2. H \in SUBSET (0..p) /\ p \in Nat
  <2>1. c \in Seq(NodeType)
    BY DEF WellFormed
  <2>2. Encl(c, p) \in SUBSET (1..p - 1) /\ p \in Nat
    BY <2>1, EnclIs
  <2>3. \A j \in 1..p - 1 : j \in 0..p
    BY <2>2
  <2> QED BY <2>2, <2>3
<1> HIDE DEF H
<1>3. i \in H
  BY <1>1, <1>2, MaxIs
<1> QED BY <1>1, <1>3 DEF H

\* The distance of a name that a node uses leads to the scope that the text means.
LEMMA Reached ==
  ASSUME EnvironmentsOK(envs, code), Stands(envs, code, env, pc), ResolverTypes, WellFormed(code), NEW n,
         ResolvedAt(code, locals, pc, n)
  PROVE  /\ Target \in DOMAIN envs /\ envs[Target].at = Lexical(code, n, pc)
         /\ pc \notin DOMAIN locals => Target = Globals
<1>1. CASE pc \notin DOMAIN locals
  <2>1. Target = Globals /\ Lexical(code, n, pc) = Outside
    BY <1>1 DEF Target, ResolvedAt
  <2>2. 1 \in DOMAIN envs
    <3>1. DOMAIN envs = 1..Len(envs) /\ Len(envs) \in Nat /\ Len(envs) # 0
      BY LenProperties, EmptySeq DEF EnvironmentsOK, IsSeq
    <3> QED BY <3>1
  <2>3. envs[1].at = Outside
    BY <2>2 DEF EnvironmentsOK, EnvironmentOK, Globals
  <2> QED BY <1>1, <2>1, <2>2, <2>3 DEF Globals
<1>2. CASE pc \in DOMAIN locals
  <2>1. locals[pc] \in Nat /\ Target = Ancestor(env, locals[pc])
    <3>1. pc \in DOMAIN code /\ locals[pc] \in 0..2 * pc
      BY <1>2 DEF ResolverTypes
    <3>2. DOMAIN code = 1..Len(code) /\ Len(code) \in Nat
      BY LenProperties DEF WellFormed
    <3> QED BY <1>2, <3>1, <3>2 DEF Target
  <2>2. PICK path : Path(code, pc, locals[pc], path) /\ path[locals[pc]] = Lexical(code, n, pc)
    BY <1>2 DEF ResolvedAt
  <2>3. locals[pc] \in 0..locals[pc]
    BY <2>1
  <2> QED BY <1>2, <2>1, <2>2, <2>3, Climbed
<1> QED BY <1>1, <1>2

\* A declaration in the scope s[2] lies in, before a place inside s, comes before s.
LEMMA NotBetween ==
  ASSUME NEW c, WellFormed(c), NEW p \in 1..Len(c), NEW b \in Encl(c, p), NEW i,
         Scope(c, b) = <<"body", i>>, NEW m \in 1..p - 1, Scope(c, m) = <<"body", i>>
  PROVE  m < b + 1
<1>1. c \in Seq(NodeType) /\ Len(c) \in Nat
  BY LenProperties DEF WellFormed
<1>2. b \in 1..p - 1 /\ b \in 1..Len(c) + 1 /\ m \in 1..Len(c) + 1 /\ p \in 1..Len(c) + 1
  <2>1. p \in 1..Len(c) + 1
    BY <1>1
  <2> QED BY <1>1, <2>1, EnclIs
<1>3. i \in 1..b - 1
  BY <1>2, ScopeMeans
<1>4. SUFFICES ASSUME ~(m < b + 1) PROVE FALSE
  OBVIOUS
<1>5. m \in b + 1..p
  BY <1>2, <1>4
<1>6. b \in Encl(c, m)
  BY <1>1, <1>2, <1>5, EnclBetween
<1>7. Inmost(c, m) = i
  BY <1>2, ScopeMeans
<1>8. b <= i
  BY <1>1, <1>2, <1>6, <1>7, EnclIs
<1> QED BY <1>2, <1>3, <1>8

\* A variable that is not where its distance leads is one whose initializer is running.
LEMMA Missed ==
  ASSUME EnvironmentsOK(envs, code), Stands(envs, code, env, pc), ResolverTypes, Complete(code),
         pc \in DOMAIN code, code[pc].op # "define", NEW n \in UsesOf(code, pc),
         ResolvedAt(code, locals, pc, n), pc \in DOMAIN locals, n \notin DOMAIN envs[Target].values
  PROVE  Misses(pc)
<1>1. /\ WellFormed(code) /\ code \in Seq(NodeType) /\ Len(code) \in Nat /\ DOMAIN code = 1..Len(code)
      /\ pc \in 1..Len(code) /\ pc \in 1..Len(code) + 1
  <2>1. WellFormed(code) /\ code \in Seq(NodeType) /\ Len(code) \in Nat /\ DOMAIN code = 1..Len(code)
    BY LenProperties DEF Complete, WellFormed
  <2> QED BY <2>1
<1> DEFINE d == locals[pc]
           L == Lexical(code, n, pc)
           t == Target
<1>2. d \in Nat /\ t = Ancestor(env, d)
  <2>1. d \in 0..2 * pc
    BY DEF ResolverTypes
  <2> QED BY <1>1, <2>1 DEF Target
<1>3. PICK path : Path(code, pc, d, path) /\ path[d] = L /\ path[d] # Outside
  BY DEF ResolvedAt
<1> DEFINE q == IF d = 0 THEN pc ELSE path[d - 1][2] + 1
<1>4. t \in DOMAIN envs /\ envs[t].at = L /\ Upto(envs, code, t, q)
  <2>1. d \in 0..d
    BY <1>2
  <2> HIDE DEF d
  <2> QED BY <1>2, <1>3, <2>1, Climbed
<1>5. L # Outside
  BY <1>3
<1>6. PICK i \in Encl(code, pc) : /\ L = <<IF n \in Special THEN n ELSE "body", i>>
                                  /\ Binds(code, i, n, pc)
  BY <1>1, <1>5, LexicalShape
<1>7. i \in 1..pc - 1 /\ i \in 1..Len(code)
  BY <1>1, EnclIs
<1>8. EnvironmentOK(envs, code, t)
  BY <1>4 DEF EnvironmentsOK
<1>9. t # Globals
  BY <1>4, <1>5, <1>8 DEF EnvironmentOK
<1>10. n \notin DOMAIN envs[t].values
  OBVIOUS
<1>11. n \notin Special
  <2> SUFFICES ASSUME n \in Special PROVE FALSE
    OBVIOUS
  <2>1. envs[t].at[1] = n
    BY <1>4, <1>6
  <2>2. n = "this" \/ n = "super"
    BY DEF Special
  <2> QED BY <1>8, <1>10, <2>1, <2>2 DEF EnvironmentOK
<1>12. L = <<"body", i>> /\ code[i].op # "class" /\ DeclaredIn(code, <<"body", i>>, n, pc)
  <2>1. n # "this" /\ n # "super"
    BY <1>11 DEF Special
  <2> QED BY <1>6, <1>11, <2>1 DEF Binds
<1> HIDE DEF t, q
<1>13. ~(code[i].op \in Bodies /\ n \in code[i].arg)
  <2>1. envs[t].at = <<"body", i>>
    BY <1>4, <1>12
  <2>2. envs[t].at[2] = i
    BY <2>1
  <2> QED BY <1>8, <1>9, <1>10, <2>2 DEF EnvironmentOK
<1>14. PICK j \in i + 1..pc - 1 : /\ code[j].op \in {"var", "fun", "class"} /\ code[j].name = n
                                  /\ Inmost(code, j) = i
  BY <1>12, <1>13 DEF DeclaredIn
<1>15. j \in 1..Len(code) /\ j \in 1..Len(code) + 1 /\ j \in 1..pc - 1 /\ j \in i + 1..pc
  BY <1>1, <1>7
<1>16. Scope(code, j) = L
  <2>1. i \in Encl(code, j)
    BY <1>1, <1>15, EnclBetween
  <2>2. Encl(code, j) # {}
    BY <2>1
  <2> QED BY <1>12, <1>14, <2>2 DEF Scope, ScopeAt
<1>17. ASSUME NEW m \in 1..pc - 1, Scope(code, m) = L
       PROVE  m \in 1..q - 1
  <2>1. CASE d = 0
    BY <2>1 DEF q
  <2>2. CASE d # 0
    <3> DEFINE s == path[d - 1]
    <3>1. d \in 1..d /\ d - 1 \in Nat
      BY <1>2, <2>2
    <3>2. s # Outside /\ s[2] \in Encl(code, pc) /\ path[d] = Outer(code, s)
      BY <1>3, <3>1 DEF Path
    <3>3. q = s[2] + 1
      BY <2>2 DEF q
    <3> HIDE DEF s
    <3>4. s[2] \in 1..pc - 1 /\ s[2] \in 1..Len(code) + 1
      BY <1>1, <3>2, EnclIs
    <3>5. Outer(code, s) = <<"body", i>>
      BY <1>3, <1>12, <3>2
    <3>6. Scope(code, s[2]) = <<"body", i>>
      BY <1>1, <3>4, <3>5, OuterShape
    <3>7. m < s[2] + 1
      BY <1>1, <1>12, <1>17, <3>2, <3>6, NotBetween
    <3> QED BY <1>1, <3>3, <3>4, <3>7
  <2> QED BY <2>1, <2>2
<1>18. ASSUME NEW m \in 1..pc - 1, Scope(code, m) = L, code[m].name = n
       PROVE  code[m].op \notin {"fun", "class", "define"}
  <2>1. m \in 1..q - 1
    BY <1>17, <1>18
  <2> QED BY <1>4, <1>10, <1>18, <2>1 DEF Upto
<1>19. code[j].op = "var"
  BY <1>14, <1>15, <1>16, <1>18
<1>20. PICK k \in j + 1..Len(code) : /\ code[k].op = "define" /\ code[k].at = j
                                     /\ code[k].name = code[j].name /\ Encl(code, k) = Encl(code, j)
  BY <1>1, <1>15, <1>19 DEF Complete
<1>21. Scope(code, k) = L
  BY <1>16, <1>20 DEF Scope, Inmost
<1>22. pc < k
  <2>1. k # pc
    BY <1>20
  <2>2. k \notin 1..pc - 1
    BY <1>14, <1>18, <1>20, <1>21
  <2> QED BY <1>1, <1>15, <2>1, <2>2
<1>23. j \in DOMAIN code /\ k \in DOMAIN code /\ j < pc
  BY <1>1, <1>15
<1> QED BY <1>14, <1>16, <1>19, <1>20, <1>22, <1>23 DEF Misses

\* In a method, super and this are where the distances lead, one next to the other, and
\* the methods of the superclass are those that follow in the chain of the instance.
LEMMA SupersMeet ==
  ASSUME EnvironmentsOK(envs, code), Stands(envs, code, env, pc), ResolverTypes, Complete(code),
         pc \in DOMAIN code, Lexical(code, "super", pc) # Outside, ResolvedAt(code, locals, pc, "super")
  PROVE  /\ pc \in DOMAIN locals /\ locals[pc] \in Nat /\ locals[pc] > 0
         /\ SuperAt \in DOMAIN envs /\ ThisAt \in DOMAIN envs
         /\ Holding("super", SuperAt) /\ Holding("this", ThisAt)
         /\ envs[SuperAt].at[1] = "super" /\ envs[ThisAt].at[1] = "this"
         /\ envs[SuperAt].values["super"].kind = "class" /\ envs[ThisAt].values["this"].kind = "instance"
         /\ LET chain == envs[ThisAt].values["this"].klass.chain
            IN \E i \in DOMAIN chain :
                 /\ \E k \in DOMAIN chain[i].methods : chain[i].methods[k].closure = SuperAt
                 /\ SubSeq(chain, i + 1, Len(chain)) = envs[SuperAt].values["super"].chain
<1>1. /\ WellFormed(code) /\ code \in Seq(NodeType) /\ Len(code) \in Nat /\ DOMAIN code = 1..Len(code)
      /\ pc \in 1..Len(code) /\ pc \in 1..Len(code) + 1
  <2>1. WellFormed(code) /\ code \in Seq(NodeType) /\ Len(code) \in Nat /\ DOMAIN code = 1..Len(code)
    BY LenProperties DEF Complete, WellFormed
  <2> QED BY <2>1
<1> DEFINE d == locals[pc]
           L == Lexical(code, "super", pc)
<1>2. pc \in DOMAIN locals
  BY DEF ResolvedAt
<1>3. d \in Nat
  <2>1. d \in 0..2 * pc
    BY <1>2 DEF ResolverTypes
  <2> QED BY <1>1, <2>1
<1>4. PICK path : Path(code, pc, d, path) /\ path[d] = L
  BY <1>2 DEF ResolvedAt
<1>5. PICK i \in Encl(code, pc) : L = <<"super", i>>
  <2>1. PICK i \in Encl(code, pc) : L = <<IF "super" \in Special THEN "super" ELSE "body", i>>
    BY <1>1, LexicalShape
  <2>2. "super" \in Special
    BY DEF Special
  <2> QED BY <2>1, <2>2
<1> HIDE DEF L
<1>6. d # 0
  <2>1. path[0] = Scope(code, pc)
    BY <1>4 DEF Path
  <2>2. Scope(code, pc)[1] # "super"
    BY <1>1, ScopeShape
  <2>3. path[d][1] = "super"
    BY <1>4, <1>5
  <2> QED BY <2>1, <2>2, <2>3
<1>7. d - 1 \in Nat /\ d - 1 \in 0..d /\ d \in 0..d /\ d \in 1..d /\ d > 0
  BY <1>3, <1>6
<1> DEFINE s == path[d - 1]
<1>8. s # Outside /\ s[2] \in Encl(code, pc) /\ path[d] = Outer(code, s)
  BY <1>4, <1>7 DEF Path
<1>9. SuperAt = Ancestor(env, d) /\ ThisAt = Ancestor(env, d - 1)
  BY DEF SuperAt, ThisAt
<1> HIDE DEF d, s
<1>10. /\ SuperAt \in DOMAIN envs /\ envs[SuperAt].at = path[d]
       /\ envs[ThisAt].enclosing = SuperAt
  BY <1>3, <1>4, <1>6, <1>7, <1>9, Climbed
<1>11. ThisAt \in DOMAIN envs /\ envs[ThisAt].at = s
  BY <1>3, <1>4, <1>7, <1>9, Climbed DEF s
<1>12. s[1] = "this"
  <2>1. s[2] \in 1..Len(code) + 1
    BY <1>1, <1>8, EnclIs
  <2>2. Outer(code, s) = <<"super", i>>
    BY <1>4, <1>5, <1>8
  <2> QED BY <1>1, <2>1, <2>2, OuterShape
<1>13. envs[SuperAt].at[1] = "super"
  BY <1>4, <1>5, <1>10
<1>14. DOMAIN envs = 1..Len(envs)
  BY LenProperties DEF EnvironmentsOK, IsSeq
<1>15. Holding("super", SuperAt) /\ envs[SuperAt].values["super"].kind = "class"
  <2>1. SuperAt # 0
    BY <1>10, <1>14
  <2>2. EnvironmentOK(envs, code, SuperAt)
    BY <1>10 DEF EnvironmentsOK
  <2> QED BY <1>13, <2>1, <2>2 DEF EnvironmentOK, Holding
<1>16. /\ Holding("this", ThisAt) /\ envs[ThisAt].values["this"].kind = "instance"
       /\ ValueOK(envs, code, envs[ThisAt].values["this"])
       /\ LET chain == envs[ThisAt].values["this"].klass.chain
          IN \E m \in DOMAIN chain : \E k \in DOMAIN chain[m].methods :
               chain[m].methods[k].closure = SuperAt
  <2>1. ThisAt # 0
    BY <1>11, <1>14
  <2>2. EnvironmentOK(envs, code, ThisAt)
    BY <1>11 DEF EnvironmentsOK
  <2>3. envs[ThisAt].at[1] = "this"
    BY <1>11, <1>12
  <2> QED BY <1>10, <2>1, <2>2, <2>3 DEF EnvironmentOK, Holding
<1> DEFINE chain == envs[ThisAt].values["this"].klass.chain
<1>17. ChainOK(envs, code, chain)
  BY <1>16 DEF ValueOK
<1>18. PICK m \in DOMAIN chain : \E k \in DOMAIN chain[m].methods : chain[m].methods[k].closure = SuperAt
  BY <1>16
<1> HIDE DEF chain
<1>19. PICK k \in DOMAIN chain[m].methods : chain[m].methods[k].closure = SuperAt
  BY <1>18
<1>20. SubSeq(chain, m + 1, Len(chain)) = envs[SuperAt].values["super"].chain
  <2> DEFINE f == chain[m].methods[k]
  <2>1. envs[f.closure].at[1] = "super" =>
          SubSeq(chain, m + 1, Len(chain)) = envs[f.closure].values["super"].chain
    BY <1>17, <1>18, <1>19 DEF ChainOK
  <2>2. f.closure = SuperAt
    BY <1>19
  <2> HIDE DEF f
  <2> QED BY <1>13, <2>1, <2>2
<1>21. \E j \in DOMAIN chain :
         /\ \E l \in DOMAIN chain[j].methods : chain[j].methods[l].closure = SuperAt
         /\ SubSeq(chain, j + 1, Len(chain)) = envs[SuperAt].values["super"].chain
  BY <1>18, <1>20
<1> QED BY <1>2, <1>3, <1>7, <1>10, <1>11, <1>12, <1>13, <1>15, <1>16, <1>21 DEF chain, d

-----------------------------------------------------------------------------
(* From node to node *)

\* Numbers of nodes, for whoever needs them.
LEMMA TextIs ==
  ASSUME NEW c, WellFormed(c)
  PROVE  /\ c \in Seq(NodeType) /\ Len(c) \in Nat /\ DOMAIN c = 1..Len(c)
         /\ \A p \in 1..Len(c) : c[p] \in NodeType /\ Fits(c, p)
BY LenProperties, ElementOfSeq DEF WellFormed

\* On to the next node in the same scope.
LEMMA StandsOn ==
  ASSUME NEW c, WellFormed(c), NEW p \in 1..Len(c), NEW E, NEW e, Stands(E, c, e, p),
         c[p].op \notin Nesting \cup {"end", "return"},
         c[p].op = "define" => c[p].name \in DOMAIN E[e].values
  PROVE  Stands(E, c, e, p + 1)
<1>1. Len(c) \in Nat /\ p \in Nat
  BY TextIs
<1>2. Encl(c, p + 1) = Encl(c, p)
  BY EnclNext
<1>3. Scope(c, p + 1) = Scope(c, p)
  BY <1>2 DEF Scope, Inmost
<1>4. Upto(E, c, e, p + 1)
  <2> SUFFICES ASSUME NEW d \in 1..(p + 1) - 1, c[d].op \in {"fun", "class", "define"},
                      E[e].at = Scope(c, d)
               PROVE  c[d].name \in DOMAIN E[e].values
    BY DEF Upto
  <2>1. CASE d = p
    <3>1. c[d].op \notin {"fun", "class"}
      BY <2>1 DEF Nesting, Bodies
    <3> QED BY <2>1, <3>1
  <2>2. CASE d # p
    <3>1. d \in 1..p - 1
      BY <1>1, <2>2
    <3> QED BY <3>1 DEF Stands, Upto
  <2> QED BY <2>1, <2>2
<1>5. Live(c, p + 1)
  <2> SUFFICES ASSUME NEW j \in Encl(c, p + 1) \cup {p + 1}, j > 1
               PROVE  c[j - 1].op # "return"
    BY DEF Live
  <2>1. CASE j = p + 1
    <3>1. j - 1 = p
      BY <1>1, <2>1
    <3> QED BY <3>1
  <2>2. CASE j \in Encl(c, p)
    BY <2>2 DEF Stands, Live
  <2> QED BY <1>2, <2>1, <2>2
<1>6. p + 1 \in 1..Len(c) + 1
  BY <1>1
<1> QED BY <1>3, <1>4, <1>5, <1>6 DEF Stands

\* No node before it is in the scope of node j.
LEMMA NothingYet ==
  ASSUME NEW c, WellFormed(c), NEW j \in 1..Len(c), NEW kind, kind # "globals", NEW d \in 1..j
  PROVE  Scope(c, d) # <<kind, j>>
<1>1. d \in 1..Len(c) + 1 /\ d \in Nat /\ j \in Nat
  BY TextIs
<1> SUFFICES ASSUME Scope(c, d) = <<kind, j>> PROVE FALSE
  OBVIOUS
<1>2. j \in 1..d - 1
  BY <1>1, ScopeMeans
<1> QED BY <1>1, <1>2

\* Past a node that holds others, in the scope that it lies in.
LEMMA StandsAfter ==
  ASSUME NEW c, Complete(c), NEW j \in 1..Len(c), c[j].op \in Nesting, NEW E, NEW e, Stands(E, c, e, j),
         c[j].op \in {"fun", "class"} => c[j].name \in DOMAIN E[e].values
  PROVE  Stands(E, c, e, Past(c, j))
<1>1. WellFormed(c) /\ Len(c) \in Nat /\ j \in Nat /\ j \in 1..Len(c) + 1
  <2>1. WellFormed(c)
    BY DEF Complete
  <2>2. Len(c) \in Nat
    BY <2>1, TextIs
  <2> QED BY <2>1, <2>2
<1> DEFINE q == Past(c, j)
<1>2. /\ q \in j + 2..Len(c) + 1 /\ q - 1 \in 1..Len(c) /\ c[q - 1].op = "end"
      /\ Encl(c, q) = Encl(c, j)
      /\ \A p \in 1..Len(c) + 1 : j \in Encl(c, p) <=> j < p /\ p < q
  BY PastIs
<1> HIDE DEF q
<1>3. Scope(c, q) = Scope(c, j) /\ E[e].at = Scope(c, j)
  BY <1>2 DEF Scope, Inmost, Stands
<1>4. Upto(E, c, e, q)
  <2> SUFFICES ASSUME NEW d \in 1..q - 1, c[d].op \in {"fun", "class", "define"},
                      Scope(c, j) = Scope(c, d)
               PROVE  c[d].name \in DOMAIN E[e].values
    BY <1>3 DEF Upto
  <2>1. CASE d < j
    <3>1. d \in 1..j - 1
      BY <1>1, <2>1
    <3> QED BY <1>3, <3>1 DEF Stands, Upto
  <2>2. CASE d = j
    <3>1. c[j].op # "define"
      BY DEF Nesting, Bodies
    <3> QED BY <2>2, <3>1
  <2>3. CASE j < d
    <3>1. d \in 1..Len(c) + 1 /\ d < q
      BY <1>1, <1>2
    <3>2. j \in Encl(c, d)
      BY <1>2, <2>3, <3>1
    <3>3. Scope(c, d) # Outside /\ Scope(c, d)[2] = Inmost(c, d)
      BY <1>1, <3>1, <3>2, ScopeShape
    <3>4. j <= Inmost(c, d)
      BY <1>1, <3>1, <3>2, EnclIs, TextIs
    <3>5. Encl(c, j) # {} /\ Inmost(c, j) = Inmost(c, d) /\ Inmost(c, j) \in 1..j - 1
      BY <1>1, <3>3, ScopeShape
    <3> QED BY <1>1, <3>4, <3>5
  <2> QED BY <1>1, <1>2, <2>1, <2>2, <2>3
<1>5. Live(c, q)
  <2> SUFFICES ASSUME NEW i \in Encl(c, q) \cup {q}, i > 1
               PROVE  c[i - 1].op # "return"
    BY DEF Live
  <2>1. CASE i = q
    BY <1>2, <2>1
  <2>2. CASE i \in Encl(c, j)
    BY <2>2 DEF Stands, Live
  <2> QED BY <1>2, <2>1, <2>2
<1>6. q \in 1..Len(c) + 1
  BY <1>1, <1>2
<1> QED BY <1>3, <1>4, <1>5, <1>6 DEF Stands, q

\* Into a node that holds others, in an environment of its own.
LEMMA StandsInside ==
  ASSUME NEW c, WellFormed(c), NEW j \in 1..Len(c), c[j].op \in Nesting, c[j].op # "class", Live(c, j),
         NEW E, NEW e \in DOMAIN E, E[e].at = <<"body", j>>
  PROVE  Stands(E, c, e, j + 1)
<1>1. Len(c) \in Nat /\ j \in Nat /\ j \in 1..Len(c) + 1 /\ j + 1 \in 1..Len(c) + 1
  BY TextIs
<1>2. j \notin Encl(c, j)
  <2>1. Encl(c, j) \in SUBSET (1..j - 1)
    BY <1>1, EnclIs, TextIs
  <2> QED BY <1>1, <2>1
<1>3. Encl(c, j + 1) = Encl(c, j) \cup {j}
  <2>1. c[j].op # "end"
    BY DEF Nesting, Bodies
  <2> QED BY <2>1, EnclNext
<1>4. Inmost(c, j + 1) = j
  <2>1. /\ Inmost(c, j + 1) \in Encl(c, j + 1) /\ \A i \in Encl(c, j + 1) : i <= Inmost(c, j + 1)
        /\ Encl(c, j + 1) \in SUBSET (1..(j + 1) - 1)
    BY <1>1, <1>3, EnclIs, TextIs
  <2>2. j <= Inmost(c, j + 1) /\ Inmost(c, j + 1) \in 1..j
    BY <1>1, <1>3, <2>1
  <2> QED BY <1>1, <2>2
<1>5. Scope(c, j + 1) = <<"body", j>>
  BY <1>3, <1>4 DEF Scope, ScopeAt
<1>6. Upto(E, c, e, j + 1)
  <2>1. \A d \in 1..(j + 1) - 1 : Scope(c, d) # <<"body", j>>
    <3> TAKE d \in 1..(j + 1) - 1
    <3>1. d \in 1..j
      BY <1>1
    <3> DEFINE kind == "body"
    <3>2. kind # "globals"
      OBVIOUS
    <3> HIDE DEF kind
    <3>3. Scope(c, d) # <<kind, j>>
      BY <3>1, <3>2, NothingYet
    <3> QED BY <3>3 DEF kind
  <2> QED BY <2>1 DEF Upto
<1>7. Live(c, j + 1)
  <2> SUFFICES ASSUME NEW i \in Encl(c, j + 1) \cup {j + 1}, i > 1
               PROVE  c[i - 1].op # "return"
    BY DEF Live
  <2>1. CASE i = j + 1
    <3>1. i - 1 = j
      BY <1>1, <2>1
    <3> QED BY <3>1 DEF Nesting, Bodies
  <2>2. CASE i \in Encl(c, j) \cup {j}
    BY <2>2 DEF Live
  <2> QED BY <1>3, <2>1, <2>2
<1> QED BY <1>1, <1>5, <1>6, <1>7 DEF Stands

\* The new environment of a block or a call, and the first node to run in it.
LEMMA NewBody ==
  ASSUME NEW E, NEW c, EnvironmentsOK(E, c), WellFormed(c), NEW j \in 1..Len(c), c[j].op \in Nesting,
         c[j].op # "class", NEW e, Stands(E, c, e, j), Upto(E, c, e, j + 1),
         NEW vals, \A n \in DOMAIN vals : n \in Name /\ vals[n] = Nil,
         c[j].op \in Bodies => c[j].arg \subseteq DOMAIN vals
  PROVE  LET F == Append(E, Environment(e, vals, <<"body", j>>)) IN
         /\ EnvironmentsOK(F, c) /\ Grows(E, F)
         /\ Len(E) + 1 \in DOMAIN F /\ F[Len(E) + 1].at = <<"body", j>>
         /\ Stands(F, c, Len(E) + 1, j + 1)
<1> DEFINE s == <<"body", j>>
           x == Environment(e, vals, s)
           F == Append(E, x)
           m == Len(E) + 1
<1>0. IsSeq(E)
  BY DEF EnvironmentsOK
<1>1. /\ Len(E) \in Nat /\ DOMAIN E = 1..Len(E) /\ DOMAIN F = 1..Len(E) + 1
      /\ (\A i \in 1..Len(E) : F[i] = E[i]) /\ F[m] = x
  BY <1>0, OneMore
<1>2. Grows(E, F)
  BY <1>0, AppendGrows
<1>3. x.enclosing = e /\ x.values = vals /\ x.at = s /\ x = Environment(x.enclosing, x.values, x.at)
  BY DEF Environment
<1>4. s[1] = "body" /\ s[2] = j
  OBVIOUS
<1>5. DOMAIN c = 1..Len(c)
  BY TextIs
<1>6. e \in DOMAIN E /\ E[e].at = Scope(c, j)
  BY DEF Stands
<1> HIDE DEF x, F
<1>7. m # Globals /\ e \in 1..m - 1 /\ m \in DOMAIN F
  <2>1. 1 \in 1..Len(E)
    BY <1>1, <1>6
  <2> QED BY <1>1, <1>6, <2>1 DEF Globals
<1>8. Outer(c, s) = Scope(c, j)
  BY <1>4 DEF Outer
<1> HIDE DEF s, m
<1>9. F[e].at = Outer(c, s) /\ Upto(F, c, e, j + 1)
  BY <1>2, <1>6, <1>8, UptoGrows DEF Grows
<1>10. \A n \in DOMAIN vals : n \in Name \cup Special /\ ValueOK(F, c, vals[n])
  <2> TAKE n \in DOMAIN vals
  <2>1. Nil.kind = "nil"
    BY DEF Nil
  <2> QED BY <2>1 DEF ValueOK
<1>11. EnvironmentOK(F, c, m)
  <2>1. s = <<"body", s[2]>>
    BY <1>4 DEF s
  <2>2. /\ F[m] = Environment(F[m].enclosing, F[m].values, F[m].at)
        /\ F[m].enclosing = e /\ F[m].values = vals /\ F[m].at = s
    BY <1>1, <1>3
  <2>3. s[1] # "super" /\ s[1] # "this"
    BY <1>4
  <2> QED BY <1>4, <1>5, <1>7, <1>9, <1>10, <2>1, <2>2, <2>3 DEF EnvironmentOK
<1>12. EnvironmentsOK(F, c)
  BY <1>11, EnvironmentsAppend DEF F, m
<1>13. F[m].at = <<"body", j>>
  BY <1>1, <1>3 DEF s
<1>14. Live(c, j)
  BY DEF Stands
<1>15. Stands(F, c, m, j + 1)
  BY <1>7, <1>13, <1>14, StandsInside
<1> QED BY <1>2, <1>7, <1>12, <1>13, <1>15 DEF F, m, x, s

\* A method lies in the class that plox finds around it.
LEMMA MethodIn ==
  ASSUME NEW c, WellFormed(c), NEW m \in 1..Len(c), c[m].op \in {"method", "getter"}
  PROVE  /\ Encl(c, m) # {} /\ Inmost(c, m) \in 1..m - 1 /\ Inmost(c, m) \in 1..Len(c)
         /\ Inmost(c, m) \in Encl(c, m) /\ \A j \in Encl(c, m) : j <= Inmost(c, m)
         /\ c[Inmost(c, m)].op = "class" /\ Scope(c, m) = <<"this", Inmost(c, m)>>
         /\ c[m].op \in Bodies
<1>1. Fits(c, m) /\ m \in 1..Len(c) + 1 /\ c \in Seq(NodeType)
  BY TextIs
<1>2. Encl(c, m) # {} /\ c[Inmost(c, m)].op = "class"
  BY <1>1 DEF Fits
<1>3. Scope(c, m) = <<"this", Inmost(c, m)>>
  BY <1>2 DEF Scope, ScopeAt
<1>4. c[m].op \in Bodies
  BY DEF Bodies
<1> QED BY <1>1, <1>2, <1>3, <1>4, ScopeShape, EnclIs

\* The class that a method was found in is the node around it.
LEMMA ClassOfIs ==
  ASSUME Complete(code), NEW m \in 1..Len(code), code[m].op \in {"method", "getter"}
  PROVE  ClassOf(m) = Inmost(code, m)
<1>1. WellFormed(code) /\ Len(code) \in Nat
  <2>1. WellFormed(code)
    BY DEF Complete
  <2> QED BY <2>1, TextIs
<1>2. m \in 1..Len(code) + 1
  BY <1>1
<1> DEFINE H == {j \in Encl(code, m) : code[j].op = "class"}
           i == Inmost(code, m)
<1>3. i \in Encl(code, m) /\ (\A j \in Encl(code, m) : j <= i) /\ code[i].op = "class" /\ i \in 1..m - 1
  BY <1>1, MethodIn
<1>4. ClassOf(m) = Max(H)
  BY <1>2, AroundIs DEF ClassOf
<1>5. i \in H /\ \A j \in H : j <= i
  BY <1>3
<1>6. H \in SUBSET (0..m) /\ m \in Nat
  <2>1. Encl(code, m) \in SUBSET (1..m - 1) /\ m \in Nat
    BY <1>1, <1>2, EnclIs, TextIs
  <2>2. \A j \in 1..m - 1 : j \in 0..m
    BY <2>1
  <2> QED BY <2>1, <2>2
<1> HIDE DEF H, i
<1>7. Max(H) \in H /\ \A j \in H : j <= Max(H)
  BY <1>5, <1>6, MaxIs
<1>8. Max(H) <= i /\ i <= Max(H)
  BY <1>5, <1>7
<1>9. Max(H) \in 0..m /\ i \in 0..m /\ m \in Nat
  BY <1>5, <1>6, <1>7
<1>10. Max(H) = i
  BY <1>8, <1>9
<1> QED BY <1>4, <1>10 DEF i

\* The environment of this, and the method bound to it.
LEMMA NewThis ==
  ASSUME NEW E, NEW c, EnvironmentsOK(E, c), WellFormed(c), NEW f, MethodOK(E, c, f),
         NEW v, v.kind = "instance", ValueOK(E, c, v),
         \E i \in DOMAIN v.klass.chain : \E k \in DOMAIN v.klass.chain[i].methods :
           v.klass.chain[i].methods[k].closure = f.closure
  PROVE  LET F == Append(E, Environment(f.closure, Entry("this", v), <<"this", Inmost(c, f.at)>>)) IN
         /\ EnvironmentsOK(F, c) /\ Grows(E, F)
         /\ Len(E) + 1 \in DOMAIN F
         /\ FunctionOK(F, c, LoxFunction(f.at, Len(E) + 1))
<1> DEFINE i == Inmost(c, f.at)
           s == <<"this", i>>
           vals == Entry("this", v)
           x == Environment(f.closure, vals, s)
           F == Append(E, x)
           m == Len(E) + 1
<1>0. IsSeq(E)
  BY DEF EnvironmentsOK
<1>1. /\ Len(E) \in Nat /\ DOMAIN E = 1..Len(E) /\ DOMAIN F = 1..Len(E) + 1
      /\ (\A a \in 1..Len(E) : F[a] = E[a]) /\ F[m] = x
  BY <1>0, OneMore
<1>2. Grows(E, F)
  BY <1>0, AppendGrows
<1>3. x.enclosing = f.closure /\ x.values = vals /\ x.at = s /\ x = Environment(x.enclosing, x.values, x.at)
  BY DEF Environment
<1>4. s[1] = "this" /\ s[2] = i /\ DOMAIN vals = {"this"} /\ vals["this"] = v
  BY DEF Entry
<1>5. DOMAIN c = 1..Len(c) /\ Len(c) \in Nat
  BY TextIs
<1>6. /\ f.at \in 1..Len(c) /\ c[f.at].op \in {"method", "getter"}
      /\ f.closure \in DOMAIN E /\ E[f.closure].at = Outer(c, Scope(c, f.at))
      /\ Upto(E, c, f.closure, i + 1) /\ Live(c, f.at)
  BY <1>5 DEF MethodOK
<1>7. i \in 1..Len(c) /\ c[i].op = "class" /\ Scope(c, f.at) = s
  BY <1>6, MethodIn
<1> HIDE DEF x, F, vals, i
<1>8. m # Globals /\ f.closure \in 1..m - 1 /\ m \in DOMAIN F
  <2>1. 1 \in 1..Len(E)
    BY <1>1, <1>6
  <2> QED BY <1>1, <1>6, <2>1 DEF Globals
<1>9. F[f.closure].at = Outer(c, s) /\ Upto(F, c, f.closure, i + 1)
  BY <1>2, <1>6, <1>7, UptoGrows DEF Grows
<1>10. \A n \in DOMAIN vals : n \in Name \cup Special /\ ValueOK(F, c, vals[n])
  <2>1. "this" \in Special
    BY DEF Special
  <2>2. ValueOK(F, c, v)
    BY <1>2, HasSupers, ValueGrows
  <2> QED BY <1>4, <2>1, <2>2
<1>11. EnvironmentOK(F, c, m)
  <2>1. s = <<"this", s[2]>>
    BY <1>4
  <2>2. /\ F[m] = Environment(F[m].enclosing, F[m].values, F[m].at)
        /\ F[m].enclosing = f.closure /\ F[m].values = vals /\ F[m].at = s
    BY <1>1, <1>3
  <2>3. c[s[2]].op \in Nesting /\ c[s[2]].op \notin Bodies /\ s[2] \in DOMAIN c /\ c[s[2]].op = "class"
    BY <1>4, <1>5, <1>7 DEF Nesting, Bodies
  <2>4. s \in {<<"this", s[2]>>, <<"super", s[2]>>}
    BY <2>1
  <2>5. s[1] # "super"
    BY <1>4
  <2>6. LET chain == F[m].values["this"].klass.chain
        IN \E a \in DOMAIN chain : \E k \in DOMAIN chain[a].methods :
             chain[a].methods[k].closure = F[m].enclosing
    BY <1>4, <2>2
  <2>7. F[F[m].enclosing].at = Outer(c, s) /\ Upto(F, c, F[m].enclosing, s[2] + 1)
    BY <1>4, <1>9, <2>2
  <2>8. "this" \in DOMAIN F[m].values /\ F[m].values["this"].kind = "instance"
    BY <1>4, <2>2
  <2>9. \A n \in DOMAIN F[m].values : n \in Name \cup Special /\ ValueOK(F, c, F[m].values[n])
    BY <1>10, <2>2
  <2>10. F[m].enclosing \in 1..m - 1
    BY <1>8, <2>2
  <2>11. F[m].at = s
    BY <2>2
  <2>12. F[m] = Environment(F[m].enclosing, F[m].values, F[m].at)
    BY <2>2
  <2> HIDE DEF s, m
  <2> QED BY <1>8, <2>3, <2>4, <2>5, <2>6, <2>7, <2>8, <2>9, <2>10, <2>11, <2>12 DEF EnvironmentOK
<1>12. EnvironmentsOK(F, c)
  BY <1>11, EnvironmentsAppend DEF F, m
<1>13. F[m].at = Scope(c, f.at)
  BY <1>1, <1>3, <1>7
<1>14. Upto(F, c, m, f.at + 1)
  <2> SUFFICES ASSUME NEW d \in 1..(f.at + 1) - 1, c[d].op \in {"fun", "class", "define"},
                      s = Scope(c, d)
               PROVE  FALSE
    BY <1>1, <1>3 DEF Upto
  <2>1. d \in 1..Len(c) /\ d \in 1..Len(c) + 1
    BY <1>5, <1>6
  <2> DEFINE kind == "this"
  <2>2. kind # "globals" /\ Scope(c, d) = <<kind, i>>
    BY DEF i
  <2> HIDE DEF kind
  <2>3. Encl(c, d) # {} /\ Inmost(c, d) = i
    BY <2>1, <2>2, ScopeMeans
  <2>4. Fits(c, d)
    BY <2>1, TextIs
  <2>5. c[d].op \notin {"end", "method", "getter"}
    OBVIOUS
  <2> QED BY <1>7, <2>3, <2>4, <2>5 DEF Fits
<1>15. Upto(F, c, m, f.at)
  <2>1. \A d \in 1..f.at - 1 : d \in 1..(f.at + 1) - 1
    BY <1>5, <1>6
  <2> QED BY <1>14, <2>1 DEF Upto
<1>16. Stands(F, c, m, f.at)
  <2>1. f.at \in 1..Len(c) + 1
    BY <1>5, <1>6
  <2> QED BY <1>6, <1>8, <1>13, <1>15, <2>1 DEF Stands
<1>17. FunctionOK(F, c, LoxFunction(f.at, m))
  <2> DEFINE g == LoxFunction(f.at, m)
  <2>1. g.at = f.at /\ g.closure = m
    BY DEF LoxFunction
  <2>2. c[f.at].op \in Bodies
    BY <1>6 DEF Bodies
  <2> HIDE DEF g
  <2>3. FunctionOK(F, c, g)
    BY <1>5, <1>6, <1>14, <1>16, <2>1, <2>2 DEF FunctionOK
  <2> QED BY <2>3 DEF g
<1> QED BY <1>2, <1>8, <1>12, <1>17 DEF F, m, x, vals, i

\* What declares nothing leaves what is declared as it is.
LEMMA UptoOn ==
  ASSUME NEW E, NEW c, NEW e, NEW p \in 1..Len(c), Stands(E, c, e, p),
         c[p].op \notin {"fun", "class", "define"}
  PROVE  Upto(E, c, e, p + 1)
<1> SUFFICES ASSUME NEW d \in 1..p, c[d].op \in {"fun", "class", "define"}, E[e].at = Scope(c, d)
             PROVE  c[d].name \in DOMAIN E[e].values
  BY DEF Upto
<1>1. d # p
  OBVIOUS
<1>2. d \in 1..p - 1
  BY <1>1
<1> QED BY <1>2 DEF Stands, Upto

-----------------------------------------------------------------------------
(* Every step *)

\* What a run keeps, taken apart.
LEMMA RunNow ==
  ASSUME RunInv, pc # 0
  PROVE  /\ RunOK /\ ResolverTypes /\ Complete(code) /\ WellFormed(code) /\ ResolverInv /\ Accepted
         /\ Len(code) \in Nat /\ DOMAIN code = 1..Len(code)
         /\ \A p \in 1..Len(code) : code[p] \in NodeType /\ Fits(code, p) /\ Sound(code, locals, p)
         /\ EnvironmentsOK(envs, code) /\ StackOK(envs, code, stack, env) /\ env \in DOMAIN envs
         /\ ValueOK(envs, code, value) /\ IsSeq(envs) /\ stack \in Seq(FrameType)
         /\ DOMAIN envs = 1..Len(envs) /\ Len(envs) \in Nat
<1>1. RunOK /\ ResolverInv /\ open = <<>> /\ ~had_error
  BY DEF RunInv, Whole
<1>2. Complete(code)
  BY <1>1, WholeIsComplete
<1>3. WellFormed(code) /\ ResolverTypes /\ Accepted
  BY <1>1 DEF ResolverInv
<1>4. /\ Len(code) \in Nat /\ DOMAIN code = 1..Len(code)
      /\ \A p \in 1..Len(code) : code[p] \in NodeType /\ Fits(code, p)
  BY <1>3, TextIs
<1>5. \A p \in 1..Len(code) : Sound(code, locals, p)
  BY <1>3, <1>4 DEF Accepted
<1>6. EnvironmentsOK(envs, code) /\ StackOK(envs, code, stack, env) /\ env \in DOMAIN envs /\ ValueOK(envs, code, value)
  BY <1>1 DEF RunOK
<1>7. IsSeq(envs) /\ stack \in Seq(FrameType)
  BY <1>6 DEF EnvironmentsOK, StackOK
<1>8. DOMAIN envs = 1..Len(envs) /\ Len(envs) \in Nat
  BY <1>7, OneMore
<1> QED BY <1>1, <1>2, <1>3, <1>4, <1>5, <1>6, <1>7, <1>8

\* What a visitor finds.
LEMMA VisitingNow ==
  ASSUME RunInv, NEW op, Visiting(op)
  PROVE  /\ pc # 0 /\ pc \in 1..Len(code) /\ code[pc].op = op /\ raised = None
         /\ Stands(envs, code, env, pc) /\ Sound(code, locals, pc)
         /\ stack # <<>> => Last(stack).kind # "loop"
         /\ code' = code /\ UNCHANGED resolverVars
<1>1. pc \in DOMAIN code /\ raised = None /\ code[pc].op = op /\ UNCHANGED resolverVars
  BY DEF Visiting, Running, node
<1>2. code' = code
  BY <1>1 DEF resolverVars
<1>3. pc # 0
  <2>1. pc = 0 => FALSE
    <3>1. ASSUME pc = 0 PROVE FALSE
      <4>1. code \in Seq(NodeType)
        BY DEF RunInv, ResolverInv, WellFormed
      <4> QED BY <1>1, <3>1, <4>1
    <3> QED BY <3>1
  <2> QED BY <2>1
<1>4. RunOK /\ DOMAIN code = 1..Len(code) /\ \A p \in 1..Len(code) : Sound(code, locals, p)
  BY <1>3, RunNow
<1>5. Stands(envs, code, env, pc) /\ (stack # <<>> => Last(stack).kind # "loop")
  BY <1>1, <1>4 DEF RunOK
<1> QED BY <1>1, <1>2, <1>3, <1>4, <1>5

\* What is left to show of a step of the run.
LEMMA RunKeeps ==
  ASSUME RunInv, pc # 0, UNCHANGED resolverVars, RunOK'
  PROVE  RunInv'
<1>1. ResolverInv /\ Whole
  BY DEF RunInv
<1>2. ResolverInv'
  BY <1>1, ResolverRests
<1>3. Whole'
  BY <1>1 DEF Whole, resolverVars, structure
<1>4. code' \in Seq(NodeType)
  BY <1>2 DEF ResolverInv, WellFormed
<1>5. pc' # 0
  <2>1. pc' \in 1..Len(code') + 1 /\ Len(code') \in Nat
    BY <1>4 DEF RunOK
  <2> QED BY <2>1
<1> QED BY <1>2, <1>3, <1>5 DEF RunInv

\* An exception leaves everything where it is.
LEMMA Raises ==
  ASSUME RunInv, pc # 0, UNCHANGED resolverVars, NEW x, Raise(x),
         \/ x \in {"break", "PloxRuntimeError", "reported"}
         \/ x = "PythonError" /\ Misses(pc)
         \/ x = "return" /\ \E k \in DOMAIN stack : stack[k].kind = "call"
  PROVE  RunOK'
<1>1. raised' = x /\ code' = code /\ UNCHANGED <<envs, env, stack, pc, value>>
  BY DEF Raise, resolverVars
<1>2. RunOK
  BY DEF RunInv
<1>3. (raised = "PythonError" => Misses(pc))'
  BY <1>1 DEF Misses
<1>4. raised' # None /\ raised' \in {None, "break", "return", "PythonError", "PloxRuntimeError", "reported"}
  BY <1>1 DEF None
<1>5. raised' = "return" => \E k \in DOMAIN stack' : stack'[k].kind = "call"
  BY <1>1
<1>6. /\ EnvironmentsOK(envs, code)' /\ StackOK(envs, code, stack, env)' /\ env' \in DOMAIN envs'
      /\ ValueOK(envs, code, value)' /\ pc' \in 1..Len(code') + 1
  BY <1>1, <1>2 DEF RunOK
<1> QED BY <1>3, <1>4, <1>5, <1>6 DEF RunOK

\* A step to another node.
LEMMA Runs ==
  ASSUME code' = code, raised' = None,
         EnvironmentsOK(envs', code), StackOK(envs', code, stack', env'), ValueOK(envs', code, value'),
         Stands(envs', code, env', pc'), stack' # <<>> => Last(stack').kind # "loop"
  PROVE  RunOK'
<1>1. pc' \in 1..Len(code') + 1 /\ env' \in DOMAIN envs'
  BY DEF Stands
<1>2. raised' # "return" /\ raised' # "PythonError" /\ raised' \in {None, "break", "return", "PythonError", "PloxRuntimeError", "reported"}
  BY DEF None
<1>3. /\ EnvironmentsOK(envs, code)' /\ StackOK(envs, code, stack, env)' /\ ValueOK(envs, code, value)'
      /\ Stands(envs, code, env, pc)'
  OBVIOUS
<1> QED BY <1>1, <1>2, <1>3 DEF RunOK

\* An expression whose value is known, and a statement that only goes on.
LEMMA Answers ==
  ASSUME RunInv, pc # 0, code' = code, raised' = None, UNCHANGED <<envs, env, stack>>,
         ValueOK(envs, code, value'), Stands(envs, code, env, pc'),
         stack # <<>> => Last(stack).kind # "loop"
  PROVE  RunOK'
<1>1. EnvironmentsOK(envs, code) /\ StackOK(envs, code, stack, env)
  BY RunNow
<1> QED BY <1>1, Runs

\* A name is given its value.
LEMMA Defines ==
  ASSUME RunInv, pc # 0, code' = code, raised' = None, UNCHANGED <<env, stack, value>>,
         NEW e \in DOMAIN envs, NEW n \in Name, NEW v, ValueOK(envs, code, v) \/ ValueOK(envs', code, v),
         envs' = DefineIn(e, n, v), Stands(envs', code, env, pc'),
         stack # <<>> => Last(stack).kind # "loop"
  PROVE  RunOK'
<1>1. EnvironmentsOK(envs, code) /\ StackOK(envs, code, stack, env) /\ ValueOK(envs, code, value)
  BY RunNow
<1>2. envs' = Defining(envs, e, n, v)
  BY DEF DefineIn, Defining
<1>3. EnvironmentsOK(envs', code) /\ Grows(envs, envs')
  BY <1>1, <1>2, EnvironmentsDefine
<1>4. StackOK(envs', code, stack, env)
  BY <1>1, <1>3, StackGrows
<1>5. ValueOK(envs', code, value)
  BY <1>1, <1>3, ValueGrows, HasSupers
<1> QED BY <1>3, <1>4, <1>5, Runs

\* Variables without an initializer, and the ends of initializers.
LEMMA RunVarKeeps ==
  ASSUME RunInv, RunVar
  PROVE  RunInv'
<1>1. Visiting("var") /\ Answer(Nil)
  BY DEF RunVar
<1>2. /\ pc # 0 /\ pc \in 1..Len(code) /\ code[pc].op = "var" /\ raised = None
      /\ Stands(envs, code, env, pc) /\ (stack # <<>> => Last(stack).kind # "loop")
      /\ code' = code /\ UNCHANGED resolverVars
  BY <1>1, VisitingNow
<1>3. WellFormed(code)
  BY <1>2, RunNow
<1>4. value' = Nil /\ pc' = pc + 1 /\ UNCHANGED <<envs, env, stack, raised>>
  BY <1>1 DEF Answer
<1>5. Stands(envs, code, env, pc + 1)
  BY <1>2, <1>3, StandsOn DEF Nesting, Bodies
<1>6. ValueOK(envs, code, Nil)
  BY DEF ValueOK, Nil
<1>7. RunOK'
  BY <1>2, <1>4, <1>5, <1>6, Answers
<1> QED BY <1>2, <1>7, RunKeeps

\* The name of a variable is defined when its initializer is done.
LEMMA RunDefineKeeps ==
  ASSUME RunInv, RunDefine
  PROVE  RunInv'
<1>1. Visiting("define") /\ envs' = DefineIn(env, node.name, value) /\ pc' = pc + 1
      /\ UNCHANGED <<env, stack, value, raised>>
  BY DEF RunDefine
<1>2. /\ pc # 0 /\ pc \in 1..Len(code) /\ code[pc].op = "define" /\ raised = None
      /\ Stands(envs, code, env, pc) /\ (stack # <<>> => Last(stack).kind # "loop")
      /\ code' = code /\ UNCHANGED resolverVars
  BY <1>1, VisitingNow
<1>3. WellFormed(code) /\ Fits(code, pc) /\ env \in DOMAIN envs /\ ValueOK(envs, code, value)
      /\ EnvironmentsOK(envs, code)
  BY <1>2, RunNow
<1> DEFINE n == code[pc].name
<1>4. n \in Name
  BY <1>2, <1>3 DEF Fits
<1>5. envs' = DefineIn(env, n, value) /\ envs' = Defining(envs, env, n, value)
  BY <1>1 DEF node, DefineIn, Defining
<1> HIDE DEF n
<1>6. Grows(envs, envs') /\ n \in DOMAIN envs'[env].values
  BY <1>3, <1>4, <1>5, EnvironmentsDefine
<1>7. Stands(envs', code, env, pc)
  BY <1>2, <1>6, StandsGrows
<1>8. Stands(envs', code, env, pc + 1)
  BY <1>2, <1>3, <1>6, <1>7, StandsOn DEF Nesting, Bodies, n
<1>9. RunOK'
  BY <1>1, <1>2, <1>3, <1>4, <1>5, <1>8, Defines
<1> QED BY <1>2, <1>9, RunKeeps

\* A function is known in its own closure by its name.
LEMMA RunFunctionKeeps ==
  ASSUME RunInv, RunFunction
  PROVE  RunInv'
<1> DEFINE v == LoxFunction(pc, env)
           n == code[pc].name
<1>1. Visiting("fun") /\ envs' = DefineIn(env, n, v) /\ pc' = After(pc)
      /\ UNCHANGED <<env, stack, value, raised>>
  BY DEF RunFunction, node
<1>2. /\ pc # 0 /\ pc \in 1..Len(code) /\ code[pc].op = "fun" /\ raised = None
      /\ Stands(envs, code, env, pc) /\ (stack # <<>> => Last(stack).kind # "loop")
      /\ code' = code /\ UNCHANGED resolverVars
  BY <1>1, VisitingNow
<1>3. WellFormed(code) /\ Fits(code, pc) /\ env \in DOMAIN envs /\ Complete(code)
      /\ EnvironmentsOK(envs, code) /\ IsSeq(envs) /\ Len(code) \in Nat /\ DOMAIN code = 1..Len(code)
  BY <1>2, RunNow
<1>4. n \in Name
  BY <1>2, <1>3 DEF Fits
<1>5. v.kind = "function" /\ v.at = pc /\ v.closure = env
  BY DEF LoxFunction
<1> HIDE DEF n, v
<1>6. envs' = Defining(envs, env, n, v)
  BY <1>1 DEF DefineIn, Defining
<1>7. envs[env] = Environment(envs[env].enclosing, envs[env].values, envs[env].at)
  BY <1>3 DEF EnvironmentsOK, EnvironmentOK
<1>8. Grows(envs, envs') /\ n \in DOMAIN envs'[env].values
  <2>1. Grows(envs, envs')
    BY <1>3, <1>4, <1>6, <1>7, DefiningGrows
  <2>2. n \in DOMAIN envs'[env].values
    BY <1>3, <1>6, <1>7, DefiningIs
  <2> QED BY <2>1, <2>2
<1>9. Stands(envs', code, env, pc)
  BY <1>2, <1>8, StandsGrows
<1>10. Upto(envs', code, env, pc + 1)
  <2> SUFFICES ASSUME NEW d \in 1..pc, code[d].op \in {"fun", "class", "define"}, envs'[env].at = Scope(code, d)
               PROVE  code[d].name \in DOMAIN envs'[env].values
    BY <1>2 DEF Upto
  <2>1. CASE d = pc
    BY <1>8, <2>1 DEF n
  <2>2. CASE d # pc
    <3>1. d \in 1..pc - 1
      BY <1>2, <2>2
    <3> QED BY <1>9, <3>1 DEF Stands, Upto
  <2> QED BY <2>1, <2>2
<1>11. pc \in DOMAIN code /\ code[pc].op \in Bodies /\ code[pc].op \in Nesting
  BY <1>2, <1>3 DEF Bodies, Nesting
<1>12. FunctionOK(envs', code, v)
  BY <1>5, <1>9, <1>10, <1>11 DEF FunctionOK
<1>13. ValueOK(envs', code, v)
  BY <1>5, <1>12 DEF ValueOK
<1>14. Stands(envs', code, env, Past(code, pc))
  BY <1>2, <1>3, <1>8, <1>9, <1>11, StandsAfter DEF n
<1>15. pc' = Past(code, pc)
  BY <1>1, AfterIs
<1>16. RunOK'
  BY <1>1, <1>2, <1>3, <1>4, <1>13, <1>14, <1>15, Defines
<1> QED BY <1>2, <1>16, RunKeeps

\* A function without a name is the value of an expression.
LEMMA RunAnonymousKeeps ==
  ASSUME RunInv, RunAnonymous
  PROVE  RunInv'
<1> DEFINE v == LoxFunction(pc, env)
<1>1. Visiting("anonymous") /\ value' = v /\ pc' = After(pc) /\ UNCHANGED <<envs, env, stack, raised>>
  BY DEF RunAnonymous
<1>2. /\ pc # 0 /\ pc \in 1..Len(code) /\ code[pc].op = "anonymous" /\ raised = None
      /\ Stands(envs, code, env, pc) /\ (stack # <<>> => Last(stack).kind # "loop")
      /\ code' = code /\ UNCHANGED resolverVars
  BY <1>1, VisitingNow
<1>3. WellFormed(code) /\ Complete(code) /\ Len(code) \in Nat /\ DOMAIN code = 1..Len(code)
  BY <1>2, RunNow
<1>4. v.kind = "function" /\ v.at = pc /\ v.closure = env
  BY DEF LoxFunction
<1> HIDE DEF v
<1>5. pc \in DOMAIN code /\ code[pc].op \in Bodies /\ code[pc].op \in Nesting
  BY <1>2, <1>3 DEF Bodies, Nesting
<1>6. Upto(envs, code, env, pc + 1)
  BY <1>2, UptoOn
<1>7. ValueOK(envs, code, v)
  BY <1>2, <1>4, <1>5, <1>6 DEF FunctionOK, ValueOK
<1>8. Stands(envs, code, env, Past(code, pc))
  BY <1>2, <1>3, <1>5, StandsAfter
<1>9. pc' = Past(code, pc)
  BY <1>1, AfterIs
<1>10. RunOK'
  BY <1>1, <1>2, <1>7, <1>8, <1>9, Answers
<1> QED BY <1>2, <1>10, RunKeeps

\* A break is an exception, wherever it is.
LEMMA RunBreakKeeps ==
  ASSUME RunInv, RunBreak
  PROVE  RunInv'
<1>1. Visiting("break") /\ Raise("break")
  BY DEF RunBreak
<1>2. pc # 0 /\ UNCHANGED resolverVars
  BY <1>1, VisitingNow
<1>3. RunOK'
  BY <1>1, <1>2, Raises
<1> QED BY <1>2, <1>3, RunKeeps

\* Code that lies in a function runs in a call.
LEMMA InACall ==
  ASSUME NEW E, NEW c, WellFormed(c), EnvironmentsOK(E, c), NEW st, NEW e, StackOK(E, c, st, e),
         NEW p, Stands(E, c, e, p), NEW j \in Encl(c, p), c[j].op \in Bodies
  PROVE  \E k \in DOMAIN st : st[k].kind = "call"
<1> SUFFICES ASSUME \A k \in DOMAIN st : st[k].kind # "call" PROVE FALSE
  OBVIOUS
<1> DEFINE In(k) == \E q \in 1..Len(c) + 1 : E[Level(st, e, k)].at = Scope(c, q) /\ j \in Encl(c, q)
           T == {k \in 0..Len(st) : In(k)}
<1>1. st \in Seq(FrameType) /\ Len(st) \in Nat /\ DOMAIN st = 1..Len(st)
  <2>1. st \in Seq(FrameType)
    BY DEF StackOK
  <2> QED BY <2>1, LenProperties
<1>2. Level(st, e, Len(st)) = e
  BY DEF Level
<1>3. In(Len(st))
  BY <1>2 DEF Stands
<1>4. T \in SUBSET Nat /\ T # {}
  BY <1>1, <1>3
<1>5. PICK m \in T : \A k \in T : m <= k
  BY <1>4, LeastNat
<1>6. m \in 0..Len(st) /\ In(m) /\ m \in Nat
  BY <1>1, <1>5
<1>7. PICK q \in 1..Len(c) + 1 : E[Level(st, e, m)].at = Scope(c, q) /\ j \in Encl(c, q)
  BY <1>6
<1>8. m # 0
  <2> SUFFICES ASSUME m = 0 PROVE FALSE
    OBVIOUS
  <2>1. Level(st, e, 0) = Globals
    BY DEF StackOK
  <2>2. E[Globals].at = Outside
    <3>1. IsSeq(E) /\ E # <<>>
      BY DEF EnvironmentsOK
    <3>2. DOMAIN E = 1..Len(E) /\ Len(E) \in Nat
      BY <3>1, OneMore
    <3>3. Globals \in DOMAIN E
      <4>1. Len(E) # 0
        <5>1. E \in Seq({E[i] : i \in DOMAIN E})
          BY <3>1 DEF IsSeq
        <5> QED BY <3>1, <5>1, EmptySeq
      <4> QED BY <3>2, <4>1 DEF Globals
    <3> QED BY <3>3 DEF EnvironmentsOK, EnvironmentOK
  <2>3. Encl(c, q) # {}
    BY <1>7
  <2> QED BY <1>7, <2>1, <2>2, <2>3, ScopeShape
<1>9. m \in 1..Len(st) /\ m - 1 \in 0..Len(st) /\ m - 1 < m
  BY <1>1, <1>6, <1>8
<1>10. FrameOK(E, c, st, e, m) /\ st[m] \in FrameType /\ st[m].kind # "call"
  BY <1>1, <1>9, ElementOfSeq DEF StackOK
<1>11. st[m].kind \in {"block", "loop"}
  BY <1>10 DEF FrameType
<1>12. In(m - 1)
  <2>1. CASE st[m].kind = "loop"
    <3>1. Level(st, e, m) = Level(st, e, m - 1)
      BY <1>10, <2>1 DEF FrameOK, LoopOK
    <3> QED BY <1>7, <3>1
  <2>2. CASE st[m].kind = "block"
    <3> DEFINE s == E[Level(st, e, m)].at
    <3>1. /\ s = <<"body", s[2]>> /\ c[s[2]].op \in {"block", "if", "while"}
          /\ Stands(E, c, Level(st, e, m - 1), s[2])
      BY <1>10, <2>2 DEF FrameOK, BlockOK
    <3> DEFINE i == s[2]
    <3>2. Scope(c, q) = <<"body", i>>
      BY <1>7, <3>1
    <3>3. E[Level(st, e, m - 1)].at = Scope(c, i) /\ i \in 1..Len(c) + 1
      BY <3>1 DEF Stands
    <3>4. c[i].op \notin Bodies
      BY <3>1 DEF Bodies
    <3> DEFINE kind == "body"
    <3>5. kind # "globals" /\ Scope(c, q) = <<kind, i>>
      BY <3>2
    <3> HIDE DEF kind, i
    <3>6. Encl(c, q) # {} /\ Inmost(c, q) = i
      BY <3>5, ScopeMeans
    <3>7. Encl(c, q) = Encl(c, i) \cup {i}
      BY <3>6, EnclInmost
    <3>8. j \in Encl(c, i)
      BY <1>7, <3>4, <3>7
    <3> QED BY <3>3, <3>8
  <2> QED BY <1>11, <2>1, <2>2
<1> HIDE DEF In
<1>13. m - 1 \in T
  BY <1>9, <1>12
<1>14. m <= m - 1
  BY <1>5, <1>13
<1> QED BY <1>6, <1>14

\* A return leaves a call: the resolver lets it stand in functions only.
LEMMA RunReturnKeeps ==
  ASSUME RunInv, RunReturn
  PROVE  RunInv'
<1>1. /\ Visiting("return") /\ value' = (IF node.arg = {} THEN Nil ELSE value)
      /\ raised' = "return" /\ UNCHANGED <<envs, env, stack, pc>>
  BY DEF RunReturn
<1>2. /\ pc # 0 /\ pc \in 1..Len(code) /\ code[pc].op = "return"
      /\ Stands(envs, code, env, pc) /\ Sound(code, locals, pc)
      /\ code' = code /\ UNCHANGED resolverVars
  BY <1>1, VisitingNow
<1>3. /\ RunOK /\ WellFormed(code) /\ EnvironmentsOK(envs, code) /\ StackOK(envs, code, stack, env)
      /\ ValueOK(envs, code, value) /\ env \in DOMAIN envs
  BY <1>2, RunNow
<1>4. \E j \in Encl(code, pc) : code[j].op \in Bodies
  BY <1>2 DEF Sound
<1>5. \E k \in DOMAIN stack : stack[k].kind = "call"
  BY <1>2, <1>3, <1>4, InACall
<1>6. ValueOK(envs, code, value')
  <2>1. ValueOK(envs, code, Nil)
    BY DEF ValueOK, Nil
  <2> QED BY <1>1, <1>3, <2>1
<1>7. RunOK'
  <2>1. raised' # None /\ raised' # "PythonError"
        /\ raised' \in {None, "break", "return", "PythonError", "PloxRuntimeError", "reported"}
    BY <1>1 DEF None
  <2>2. /\ EnvironmentsOK(envs, code)' /\ StackOK(envs, code, stack, env)' /\ env' \in DOMAIN envs'
        /\ ValueOK(envs, code, value)' /\ pc' \in 1..Len(code') + 1
    <3>1. pc \in 1..Len(code) + 1
      BY <1>3 DEF RunOK
    <3> QED BY <1>1, <1>2, <1>3, <1>6, <3>1
  <2>3. (\E k \in DOMAIN stack : stack[k].kind = "call")'
    BY <1>1, <1>5
  <2> QED BY <2>1, <2>2, <2>3 DEF RunOK
<1> QED BY <1>2, <1>7, RunKeeps

\* Where a name leads and what is missing there.
LEMMA LookUpNow ==
  ASSUME RunInv, NEW op, Visiting(op), op # "define", NEW n \in UsesOf(code, pc)
  PROVE  /\ Target \in DOMAIN envs /\ envs[Target].at = Lexical(code, n, pc)
         /\ pc \notin DOMAIN locals => Target = Globals
         /\ n \notin DOMAIN envs[Target].values /\ pc \in DOMAIN locals => Misses(pc)
<1>1. /\ pc # 0 /\ pc \in 1..Len(code) /\ code[pc].op = op
      /\ Stands(envs, code, env, pc) /\ Sound(code, locals, pc)
  BY VisitingNow
<1>2. /\ WellFormed(code) /\ EnvironmentsOK(envs, code) /\ ResolverTypes /\ Complete(code)
      /\ DOMAIN code = 1..Len(code)
  BY <1>1, RunNow
<1>3. ResolvedAt(code, locals, pc, n)
  BY <1>1 DEF Sound
<1>4. /\ Target \in DOMAIN envs /\ envs[Target].at = Lexical(code, n, pc)
      /\ pc \notin DOMAIN locals => Target = Globals
  BY <1>1, <1>2, <1>3, Reached
<1>5. n \notin DOMAIN envs[Target].values /\ pc \in DOMAIN locals => Misses(pc)
  BY <1>1, <1>2, <1>3, Missed
<1> QED BY <1>4, <1>5

\* A variable, or this, is found or misses in its own initializer.
LEMMA RunVariableKeeps ==
  ASSUME RunInv, RunVariable
  PROVE  RunInv'
<1>1. PICK op \in {"variable", "this"} : Visiting(op) /\ LookUp(node.name)
  BY DEF RunVariable
<1> DEFINE n == code[pc].name
<1>2. /\ pc # 0 /\ pc \in 1..Len(code) /\ code[pc].op = op /\ raised = None
      /\ Stands(envs, code, env, pc) /\ (stack # <<>> => Last(stack).kind # "loop")
      /\ code' = code /\ UNCHANGED resolverVars
  BY <1>1, VisitingNow
<1>3. WellFormed(code) /\ EnvironmentsOK(envs, code)
  BY <1>2, RunNow
<1>4. n \in UsesOf(code, pc) /\ LookUp(n)
  BY <1>1, <1>2 DEF UsesOf, node
<1> HIDE DEF n
<1>5. /\ Target \in DOMAIN envs
      /\ n \notin DOMAIN envs[Target].values /\ pc \in DOMAIN locals => Misses(pc)
  BY <1>1, <1>4, LookUpNow
<1>6. CASE Holding(n, Target)
  <2>1. Answer(envs[Target].values[n])
    BY <1>4, <1>6 DEF LookUp
  <2>2. value' = envs[Target].values[n] /\ pc' = pc + 1 /\ UNCHANGED <<envs, env, stack, raised>>
    BY <2>1 DEF Answer
  <2>3. Stands(envs, code, env, pc + 1)
    BY <1>1, <1>2, <1>3, StandsOn DEF Nesting, Bodies
  <2>4. ValueOK(envs, code, value')
    BY <1>3, <1>5, <1>6, <2>2 DEF EnvironmentsOK, EnvironmentOK, Holding
  <2>5. RunOK'
    BY <1>2, <2>2, <2>3, <2>4, Answers
  <2> QED BY <1>2, <2>5, RunKeeps
<1>7. CASE ~Holding(n, Target)
  <2>1. Raise(Missing)
    BY <1>4, <1>7 DEF LookUp
  <2>2. Target # 0 => n \notin DOMAIN envs[Target].values
    BY <1>7 DEF Holding
  <2>3. Target # 0
    <3>1. 0 \notin DOMAIN envs
      <4>1. DOMAIN envs = 1..Len(envs) /\ Len(envs) \in Nat
        BY <1>2, RunNow
      <4> QED BY <4>1
    <3> QED BY <1>5, <3>1
  <2>4. Missing = "PloxRuntimeError" \/ (Missing = "PythonError" /\ Misses(pc))
    BY <1>5, <2>2, <2>3 DEF Missing
  <2>5. RunOK'
    BY <1>2, <2>1, <2>4, Raises
  <2> QED BY <1>2, <2>5, RunKeeps
<1> QED BY <1>6, <1>7

\* An assignment never misses what the resolver found.
LEMMA RunAssignKeeps ==
  ASSUME RunInv, RunAssign
  PROVE  RunInv'
<1> DEFINE n == code[pc].name
<1>1. Visiting("assign")
      /\ IF Target # 0 /\ (pc \in DOMAIN locals \/ Holding(n, Globals))
         THEN /\ envs' = DefineIn(Target, n, value)
              /\ pc' = pc + 1 /\ UNCHANGED <<env, stack, value, raised>>
         ELSE Raise(Missing)
  BY DEF RunAssign, node
<1>2. /\ pc # 0 /\ pc \in 1..Len(code) /\ code[pc].op = "assign" /\ raised = None
      /\ Stands(envs, code, env, pc) /\ (stack # <<>> => Last(stack).kind # "loop")
      /\ code' = code /\ UNCHANGED resolverVars
  BY <1>1, VisitingNow
<1>3. WellFormed(code) /\ EnvironmentsOK(envs, code) /\ ValueOK(envs, code, value) /\ Fits(code, pc)
      /\ DOMAIN envs = 1..Len(envs) /\ Len(envs) \in Nat
  BY <1>2, RunNow
<1>4. n \in UsesOf(code, pc) /\ n \in Name
  BY <1>2, <1>3 DEF UsesOf, Fits
<1> HIDE DEF n
<1>5. Target \in DOMAIN envs /\ Target # 0
  <2>1. Target \in DOMAIN envs
    BY <1>1, <1>4, LookUpNow
  <2> QED BY <1>3, <2>1
<1>6. CASE pc \in DOMAIN locals \/ Holding(n, Globals)
  <2>1. envs' = DefineIn(Target, n, value) /\ pc' = pc + 1 /\ UNCHANGED <<env, stack, value, raised>>
    BY <1>1, <1>5, <1>6
  <2>2. Grows(envs, envs')
    <3>1. envs' = Defining(envs, Target, n, value)
      BY <2>1 DEF DefineIn, Defining
    <3> QED BY <1>3, <1>4, <1>5, <3>1, EnvironmentsDefine
  <2>3. Stands(envs', code, env, pc)
    BY <1>2, <2>2, StandsGrows
  <2>4. Stands(envs', code, env, pc + 1)
    BY <1>2, <1>3, <2>3, StandsOn DEF Nesting, Bodies
  <2>5. RunOK'
    BY <1>2, <1>3, <1>4, <1>5, <2>1, <2>4, Defines
  <2> QED BY <1>2, <2>5, RunKeeps
<1>7. CASE ~(pc \in DOMAIN locals \/ Holding(n, Globals))
  <2>1. Raise("PloxRuntimeError")
    BY <1>1, <1>7 DEF Missing
  <2>2. RunOK'
    BY <1>2, <2>1, Raises
  <2> QED BY <1>2, <2>2, RunKeeps
<1> QED BY <1>6, <1>7

\* The activation of a block.
LEMMA BlockPushed ==
  ASSUME NEW E, NEW c, NEW st, NEW e, StackOK(E, c, st, e), NEW p \in DOMAIN c, Stands(E, c, e, p),
         c[p].op \in {"block", "if", "while"}, NEW m \in DOMAIN E, E[m].at = <<"body", p>>,
         NEW f \in FrameType, f.kind = "block", f.previous = e, f.this = 0,
         c[p].op = "while" => st # <<>> /\ Last(st).kind = "loop" /\ BodyOfLoop(E, c, st, e, f, m),
         c[p].op # "while" => st = <<>> \/ Last(st).kind # "loop"
  PROVE  StackOK(E, c, Append(st, f), m)
<1> DEFINE t == Append(st, f)
           n == Len(st)
<1>1. /\ st \in Seq(FrameType) /\ n \in Nat /\ DOMAIN st = 1..n
      /\ \A i \in 1..n : t[i] = st[i]
      /\ t[n + 1] = f
  BY Appended DEF StackOK
<1>2. Level(t, m, n) = e /\ Level(t, m, n + 1) = m
  <2>1. n \in 0..n /\ Level(st, e, n) = e
    BY <1>1 DEF Level
  <2>2. st \in Seq(FrameType) /\ f \in FrameType /\ f.previous = e
    BY <1>1
  <2>3. \A g : (\A k \in 0..n : Level(t, g, k) = Level(st, e, k)) /\ Level(t, g, n + 1) = g
    BY ONLY <2>2, LevelsPushed
  <2> QED BY <2>1, <2>3
<1>3. (n + 1) - 1 = n
  BY <1>1
<1>4. c[p].op = "while" <=> n + 1 > 1 /\ t[n].kind = "loop"
  <2>1. CASE st = <<>>
    <3>1. n = 0
      BY <2>1
    <3> QED BY <2>1, <3>1
  <2>2. CASE st # <<>>
    <3>1. n # 0
      BY <1>1, <2>2, EmptySeq
    <3>2. n \in 1..n
      BY <1>1, <3>1
    <3>3. t[n] = st[n] /\ Last(st) = st[n] /\ n + 1 > 1
      BY <1>1, <3>2 DEF Last
    <3> QED BY <2>2, <3>3
  <2> QED BY <2>1, <2>2
<1> DEFINE s == E[m].at
<1>5. s[2] = p /\ s = <<"body", s[2]>>
  OBVIOUS
<1> HIDE DEF s, t, n
<1>6. BlockOK(E, c, t, m, n + 1)
  BY <1>2, <1>3, <1>4, <1>5 DEF BlockOK, s
<1>7. e \in DOMAIN E
  BY DEF Stands
<1>8. FrameOK(E, c, t, m, n + 1)
  <2>1. t[n + 1].kind = "block" /\ t[n + 1].this = 0
    BY <1>1
  <2> QED BY <1>2, <1>3, <1>6, <1>7, <2>1 DEF FrameOK
<1>9. st = <<>> \/ Last(st).kind # "loop" \/ BodyOfLoop(E, c, st, e, f, m)
  OBVIOUS
<1> QED BY <1>8, <1>9, StackPush DEF t, n

\* The activation of a loop.
LEMMA LoopPushed ==
  ASSUME NEW E, NEW c, NEW st, NEW e, StackOK(E, c, st, e), NEW p \in DOMAIN c, Stands(E, c, e, p),
         c[p].op = "while", st = <<>> \/ Last(st).kind # "loop",
         NEW f \in FrameType, f.kind = "loop", f.previous = e, f.this = 0, f.resume = Past(c, p)
  PROVE  /\ StackOK(E, c, Append(st, f), e)
         /\ Append(st, f) # <<>> /\ Last(Append(st, f)) = f
         /\ \A g, m : g.kind = "block" /\ E[m].at = <<"body", p>> =>
                        BodyOfLoop(E, c, Append(st, f), e, g, m)
<1> DEFINE t == Append(st, f)
           n == Len(st)
<1>1. /\ st \in Seq(FrameType) /\ n \in Nat /\ DOMAIN st = 1..n /\ Len(t) = n + 1
      /\ \A i \in 1..n : t[i] = st[i]
      /\ t[n + 1] = f /\ t # <<>> /\ Last(t) = f
  BY Appended DEF StackOK
<1>2. Level(t, e, n) = e /\ Level(t, e, n + 1) = e
  <2>1. n \in 0..n /\ Level(st, e, n) = e
    BY <1>1 DEF Level
  <2> QED BY <1>1, <2>1, LevelsPushed
<1>3. (n + 1) - 1 = n /\ ~(n + 1 < n + 1)
  BY <1>1
<1>4. e \in DOMAIN E
  BY DEF Stands
<1> HIDE DEF t, n
<1>5. FrameOK(E, c, t, e, n + 1)
  <2>1. t[n + 1].kind = "loop" /\ t[n + 1].this = 0 /\ t[n + 1].resume = Past(c, p)
    BY <1>1
  <2>2. LoopOK(E, c, t, e, n + 1)
    <3>1. Level(t, e, n + 1) = Level(t, e, (n + 1) - 1)
      BY <1>2, <1>3
    <3>2. Stands(E, c, Level(t, e, (n + 1) - 1), p)
      BY <1>2, <1>3
    <3> QED BY <1>1, <1>3, <2>1, <3>1, <3>2 DEF LoopOK
  <2> QED BY <1>2, <1>3, <1>4, <2>1, <2>2 DEF FrameOK
<1>6. StackOK(E, c, t, e)
  BY <1>5, StackPush DEF t, n
<1>7. \A g, m : g.kind = "block" /\ E[m].at = <<"body", p>> => BodyOfLoop(E, c, t, e, g, m)
  <2>1. Stands(E, c, Level(t, e, Len(t) - 1), p)
    BY <1>1, <1>2, <1>3
  <2> QED BY <1>1, <2>1 DEF BodyOfLoop
<1> QED BY <1>1, <1>6, <1>7 DEF t

\* What entering a block gives: an environment of its own inside the one before.
LEMMA Enters ==
  ASSUME RunInv, NEW op \in {"block", "if", "while"}, Visiting(op), NEW frames, EnterBlock(frames)
  PROVE  /\ EnvironmentsOK(envs', code) /\ StackOK(envs', code, stack, env) /\ ValueOK(envs', code, value')
         /\ Stands(envs', code, env, pc) /\ Stands(envs', code, env', pc')
         /\ env' \in DOMAIN envs' /\ envs'[env'].at = <<"body", pc>>
         /\ stack' = stack \o frames /\ raised' = raised
<1> DEFINE none == <<>>
<1>1. /\ envs' = Append(envs, Environment(env, none, <<"body", pc>>)) /\ env' = Len(envs) + 1
      /\ stack' = stack \o frames
      /\ pc' = pc + 1 /\ UNCHANGED <<value, raised>>
  BY DEF EnterBlock
<1>2. /\ pc # 0 /\ pc \in 1..Len(code) /\ code[pc].op = op /\ Stands(envs, code, env, pc)
  BY VisitingNow
<1>3. /\ WellFormed(code) /\ EnvironmentsOK(envs, code) /\ StackOK(envs, code, stack, env)
      /\ ValueOK(envs, code, value) /\ env \in DOMAIN envs
  BY <1>2, RunNow
<1>4. code[pc].op \in Nesting /\ code[pc].op \notin Bodies /\ code[pc].op \notin {"fun", "class", "define"}
  BY <1>2 DEF Nesting, Bodies
<1>5. Upto(envs, code, env, pc + 1)
  BY <1>2, <1>4, UptoOn
<1>6. \A n \in DOMAIN none : n \in Name /\ none[n] = Nil
  OBVIOUS
<1> HIDE DEF none
<1>7. /\ EnvironmentsOK(envs', code) /\ Grows(envs, envs')
      /\ env' \in DOMAIN envs' /\ envs'[env'].at = <<"body", pc>>
      /\ Stands(envs', code, env', pc + 1)
  BY <1>1, <1>2, <1>3, <1>4, <1>5, <1>6, NewBody
<1>8. StackOK(envs', code, stack, env) /\ Stands(envs', code, env, pc) /\ ValueOK(envs', code, value)
  BY <1>2, <1>3, <1>7, StackGrows, StandsGrows, ValueGrows, HasSupers
<1> QED BY <1>1, <1>7, <1>8

\* The frames pushed are activations of the environment that is current.
LEMMA FrameIs ==
  ASSUME NEW kind \in {"block", "loop", "call"}, NEW resume \in Nat, NEW this \in Nat, env \in Nat
  PROVE  /\ Frame(kind, resume, this) \in FrameType
         /\ Frame(kind, resume, this).kind = kind /\ Frame(kind, resume, this).previous = env
         /\ Frame(kind, resume, this).resume = resume /\ Frame(kind, resume, this).this = this
BY DEF Frame, FrameType

\* One and two activations more.
LEMMA PushedFrames ==
  ASSUME NEW st \in Seq(FrameType), NEW f \in FrameType, NEW g \in FrameType
  PROVE  st \o <<f>> = Append(st, f) /\ st \o <<f, g>> = Append(Append(st, f), g)
OBVIOUS

\* Blocks, and branches taken or not.
LEMMA RunBlockKeeps ==
  ASSUME RunInv, NEW op \in {"block", "if"}, Visiting(op), EnterBlock(<<Frame("block", 0, 0)>>)
  PROVE  RunInv'
<1> DEFINE f == Frame("block", 0, 0)
<1>1. /\ pc # 0 /\ pc \in 1..Len(code) /\ code[pc].op = op /\ raised = None
      /\ (stack # <<>> => Last(stack).kind # "loop")
      /\ code' = code /\ UNCHANGED resolverVars
  BY VisitingNow
<1>2. stack \in Seq(FrameType) /\ DOMAIN code = 1..Len(code) /\ env \in Nat
  <2>1. DOMAIN envs = 1..Len(envs) /\ env \in DOMAIN envs
    BY <1>1, RunNow
  <2> QED BY <1>1, <2>1, RunNow
<1>3. f \in FrameType /\ f.kind = "block" /\ f.previous = env /\ f.this = 0
  BY <1>2, FrameIs
<1>4. EnterBlock(<<f>>)
  OBVIOUS
<1> HIDE DEF f
<1>5. /\ EnvironmentsOK(envs', code) /\ StackOK(envs', code, stack, env) /\ ValueOK(envs', code, value')
      /\ Stands(envs', code, env, pc) /\ Stands(envs', code, env', pc')
      /\ env' \in DOMAIN envs' /\ envs'[env'].at = <<"body", pc>>
      /\ stack' = stack \o <<f>> /\ raised' = raised
  BY <1>4, Enters
<1>6. stack' = Append(stack, f)
  BY <1>2, <1>3, <1>5, PushedFrames
<1>7. StackOK(envs', code, stack', env')
  BY <1>1, <1>2, <1>3, <1>5, <1>6, BlockPushed
<1>8. Last(stack').kind # "loop"
  BY <1>2, <1>3, <1>6, Appended
<1>9. RunOK'
  BY <1>1, <1>5, <1>7, <1>8, Runs
<1> QED BY <1>1, <1>9, RunKeeps

\* A branch or a loop that is left out.
LEMMA SkipKeeps ==
  ASSUME RunInv, NEW op \in {"if", "while"}, Visiting(op), SkipTo(After(pc))
  PROVE  RunInv'
<1>1. /\ pc # 0 /\ pc \in 1..Len(code) /\ code[pc].op = op /\ raised = None
      /\ Stands(envs, code, env, pc) /\ (stack # <<>> => Last(stack).kind # "loop")
      /\ code' = code /\ UNCHANGED resolverVars
  BY VisitingNow
<1>2. pc' = Past(code, pc) /\ UNCHANGED <<envs, env, stack, value, raised>>
  BY AfterIs DEF SkipTo
<1>3. Complete(code) /\ ValueOK(envs, code, value)
  BY <1>1, RunNow
<1>4. Stands(envs, code, env, pc')
  BY <1>1, <1>2, <1>3, StandsAfter DEF Nesting
<1>5. RunOK'
  BY <1>1, <1>2, <1>3, <1>4, Answers
<1> QED BY <1>1, <1>5, RunKeeps

\* The body of a loop has an activation on that of the loop.
LEMMA RunWhileKeeps ==
  ASSUME RunInv, Visiting("while"), EnterBlock(<<Frame("loop", After(pc), 0), Frame("block", 0, 0)>>)
  PROVE  RunInv'
<1> DEFINE f == Frame("loop", After(pc), 0)
           g == Frame("block", 0, 0)
<1>1. /\ pc # 0 /\ pc \in 1..Len(code) /\ code[pc].op = "while" /\ raised = None
      /\ (stack # <<>> => Last(stack).kind # "loop")
      /\ code' = code /\ UNCHANGED resolverVars
  BY VisitingNow
<1>2. stack \in Seq(FrameType) /\ DOMAIN code = 1..Len(code) /\ env \in Nat /\ Complete(code) /\ Len(code) \in Nat
  <2>1. DOMAIN envs = 1..Len(envs) /\ env \in DOMAIN envs
    BY <1>1, RunNow
  <2> QED BY <1>1, <2>1, RunNow
<1>3. After(pc) = Past(code, pc) /\ After(pc) \in Nat
  <2>1. Past(code, pc) \in pc + 2..Len(code) + 1
    BY <1>1, <1>2, PastIs DEF Nesting
  <2> QED BY <1>1, <1>2, <2>1, AfterIs
<1>4. /\ f \in FrameType /\ f.kind = "loop" /\ f.previous = env /\ f.this = 0 /\ f.resume = Past(code, pc)
      /\ g \in FrameType /\ g.kind = "block" /\ g.previous = env /\ g.this = 0
  BY <1>2, <1>3, FrameIs
<1>5. EnterBlock(<<f, g>>)
  OBVIOUS
<1> HIDE DEF f, g
<1>6. /\ EnvironmentsOK(envs', code) /\ StackOK(envs', code, stack, env) /\ ValueOK(envs', code, value')
      /\ Stands(envs', code, env, pc) /\ Stands(envs', code, env', pc')
      /\ env' \in DOMAIN envs' /\ envs'[env'].at = <<"body", pc>>
      /\ stack' = stack \o <<f, g>> /\ raised' = raised
  BY <1>5, Enters
<1> DEFINE t == Append(stack, f)
<1>7. stack' = Append(t, g)
  BY <1>2, <1>4, <1>6, PushedFrames
<1>8. /\ StackOK(envs', code, t, env) /\ t # <<>> /\ Last(t) = f
      /\ BodyOfLoop(envs', code, t, env, g, env')
  <2>1. /\ StackOK(envs', code, t, env) /\ t # <<>> /\ Last(t) = f
        /\ \A h, m : h.kind = "block" /\ envs'[m].at = <<"body", pc>> =>
                        BodyOfLoop(envs', code, t, env, h, m)
    <3>1. /\ StackOK(envs', code, stack, env) /\ pc \in DOMAIN code /\ Stands(envs', code, env, pc)
          /\ code[pc].op = "while" /\ (stack = <<>> \/ Last(stack).kind # "loop")
          /\ f \in FrameType /\ f.kind = "loop" /\ f.previous = env /\ f.this = 0
          /\ f.resume = Past(code, pc)
      BY <1>1, <1>2, <1>4, <1>6
    <3> QED BY ONLY <3>1, LoopPushed
  <2> QED BY <1>4, <1>6, <2>1
<1>9. t \in Seq(FrameType)
  BY <1>2, <1>4, Appended
<1> HIDE DEF t
<1>10. StackOK(envs', code, stack', env')
  BY <1>1, <1>2, <1>4, <1>6, <1>7, <1>8, BlockPushed
<1>11. Last(stack').kind # "loop"
  BY <1>4, <1>7, <1>9, Appended
<1>12. RunOK'
  BY <1>1, <1>6, <1>10, <1>11, Runs
<1> QED BY <1>1, <1>12, RunKeeps

\* The activation that ends next.
LEMMA TopFrame ==
  ASSUME NEW E, NEW c, NEW st, NEW e, StackOK(E, c, st, e), st # <<>>
  PROVE  LET f == Last(st)
             s == E[e].at
         IN
         /\ f \in FrameType /\ f.previous \in DOMAIN E /\ StackOK(E, c, Front(st), f.previous)
         /\ f.kind = "block" =>
              /\ s = <<"body", s[2]>> /\ s[2] \in DOMAIN c /\ c[s[2]].op \in {"block", "if", "while"}
              /\ Stands(E, c, f.previous, s[2])
              /\ (c[s[2]].op = "while" <=> Front(st) # <<>> /\ Last(Front(st)).kind = "loop")
         /\ f.kind = "loop" =>
              /\ e = f.previous
              /\ \E j \in DOMAIN c : c[j].op = "while" /\ f.resume = Past(c, j) /\ Stands(E, c, f.previous, j)
         /\ f.kind = "call" =>
              /\ s = <<"body", s[2]>> /\ c[s[2]].op \in Bodies
              /\ f.resume - 1 \in DOMAIN c /\ c[f.resume - 1].op \in {"call", "get"}
              /\ Stands(E, c, f.previous, f.resume - 1)
         /\ Front(st) # <<>> /\ Last(Front(st)).kind = "loop" => f.kind = "block"
         /\ f.this # 0 => f.this \in DOMAIN E /\ E[f.this].at[1] = "this"
<1> DEFINE n == Len(st)
           f == Last(st)
<1>1. /\ StackOK(E, c, Front(st), f.previous) /\ f = st[n]
      /\ n \in DOMAIN st /\ FrameOK(E, c, st, e, n)
      /\ Level(st, e, n) = e /\ Level(st, e, n - 1) = f.previous
      /\ f.previous \in DOMAIN E /\ Len(Front(st)) = n - 1
      /\ Front(st) # <<>> => /\ n - 1 \in DOMAIN st /\ Last(Front(st)) = st[n - 1]
                             /\ Last(Front(st)).kind = "loop" => f.kind = "block"
  BY StackPop
<1>2. st \in Seq(FrameType) /\ f \in FrameType /\ n \in Nat \ {0} /\ Front(st) \in Seq(FrameType)
  <2>1. st \in Seq(FrameType)
    BY DEF StackOK
  <2> QED BY <2>1, FrontIs
<1>3. Front(st) # <<>> <=> n > 1
  <2>1. Front(st) = <<>> <=> Len(Front(st)) = 0
    BY <1>2, EmptySeq
  <2> QED BY <1>1, <1>2, <2>1
<1> HIDE DEF n, f
<1>4. f.kind = "block" => BlockOK(E, c, st, e, n)
  BY <1>1 DEF FrameOK
<1>5. f.kind = "loop" => LoopOK(E, c, st, e, n)
  BY <1>1 DEF FrameOK
<1>6. f.kind = "call" => CallOK(E, c, st, e, n)
  BY <1>1 DEF FrameOK
<1>7. f.this # 0 => f.this \in DOMAIN E /\ E[f.this].at[1] = "this"
  BY <1>1 DEF FrameOK
<1>8. f.kind = "block" =>
        LET s == E[e].at IN
              /\ s = <<"body", s[2]>> /\ s[2] \in DOMAIN c /\ c[s[2]].op \in {"block", "if", "while"}
              /\ Stands(E, c, f.previous, s[2])
              /\ (c[s[2]].op = "while" <=> Front(st) # <<>> /\ Last(Front(st)).kind = "loop")
  BY <1>1, <1>3, <1>4 DEF BlockOK
<1>9. f.kind = "loop" =>
              /\ e = f.previous
              /\ \E j \in DOMAIN c : c[j].op = "while" /\ f.resume = Past(c, j) /\ Stands(E, c, f.previous, j)
  BY <1>1, <1>5 DEF LoopOK
<1>10. f.kind = "call" =>
        LET s == E[e].at IN
              /\ s = <<"body", s[2]>> /\ c[s[2]].op \in Bodies
              /\ f.resume - 1 \in DOMAIN c /\ c[f.resume - 1].op \in {"call", "get"}
              /\ Stands(E, c, f.previous, f.resume - 1)
  BY <1>1, <1>6 DEF CallOK
<1> QED BY <1>1, <1>2, <1>7, <1>8, <1>9, <1>10 DEF f

\* The environment of an end is that of the block or call which it ends.
LEMMA EndNow ==
  ASSUME RunInv, Visiting("end"), code[node.at].op # "class"
  PROVE  LET j == node.at IN
         /\ j \in 1..Len(code) /\ j \in Nat /\ code[j].op \in Nesting /\ Past(code, j) = pc + 1
         /\ envs[env].at = <<"body", j>> /\ stack # <<>>
<1> DEFINE j == node.at
<1>1. /\ pc # 0 /\ pc \in 1..Len(code) /\ code[pc].op = "end" /\ Stands(envs, code, env, pc)
  BY VisitingNow
<1>2. /\ WellFormed(code) /\ Complete(code) /\ EnvironmentsOK(envs, code) /\ Len(code) \in Nat
      /\ StackOK(envs, code, stack, env) /\ DOMAIN code = 1..Len(code) /\ DOMAIN envs = 1..Len(envs)
      /\ env \in DOMAIN envs /\ code \in Seq(NodeType) /\ pc \in 1..Len(code) + 1
  <2>1. pc \in 1..Len(code) + 1
    BY <1>1 DEF Stands
  <2> QED BY <1>1, <2>1, RunNow, TextIs
<1>3. j = code[pc].at
  BY DEF node
<1> HIDE DEF j
<1>4. Encl(code, pc) # {} /\ j = Inmost(code, pc) /\ j \in Encl(code, pc) /\ j \in 1..pc - 1 /\ j \in 1..Len(code)
  BY <1>1, <1>2, <1>3, AtEnd
<1>5. code[j].op \in Nesting
  BY <1>2, <1>4, EnclIs
<1>6. Past(code, j) = pc + 1
  <2>1. /\ Past(code, j) \in j + 2..Len(code) + 1 /\ Past(code, j) - 1 \in 1..Len(code)
        /\ code[Past(code, j) - 1].op = "end" /\ code[Past(code, j) - 1].at = j
    BY <1>2, <1>4, <1>5, PastIs
  <2>2. Past(code, j) - 1 = pc
    BY <1>1, <1>2, <1>3, <2>1, EndsOnce
  <2> QED BY <1>1, <1>2, <1>4, <2>1, <2>2
<1>7. envs[env].at = <<"body", j>>
  <2>1. envs[env].at = Scope(code, pc) /\ code[j].op # "class"
    BY <1>1 DEF Stands, j
  <2> QED BY <1>4, <2>1 DEF Scope, ScopeAt
<1>8. stack # <<>>
  <2> SUFFICES ASSUME stack = <<>> PROVE FALSE
    OBVIOUS
  <2>1. Level(stack, env, 0) = env /\ Level(stack, env, 0) = Globals
    <3>1. Len(stack) = 0
      OBVIOUS
    <3> QED BY <1>2, <3>1 DEF Level, StackOK
  <2>2. envs[env].at = Outside
    BY <1>2, <2>1 DEF EnvironmentsOK, EnvironmentOK
  <2>3. envs[env].at[1] = "body"
    BY <1>7
  <2> QED BY <2>2, <2>3 DEF Outside
<1>9. j \in Nat
  BY <1>2, <1>4
<1> QED BY <1>4, <1>5, <1>6, <1>7, <1>8, <1>9 DEF j

\* What a call answers.
LEMMA AnsweredIs ==
  ASSUME NEW f, f.this # 0 => f.this \in DOMAIN envs /\ envs[f.this].at[1] = "this",
         EnvironmentsOK(envs, code), NEW v, ValueOK(envs, code, v)
  PROVE  ValueOK(envs, code, Answered(f, v))
<1>1. CASE f.this = 0
  BY <1>1 DEF Answered
<1>2. CASE f.this # 0
  <2>1. "this" \in DOMAIN envs[f.this].values
    BY <1>2 DEF EnvironmentsOK, EnvironmentOK
  <2>2. ValueOK(envs, code, envs[f.this].values["this"])
    BY <1>2, <2>1 DEF EnvironmentsOK, EnvironmentOK
  <2> QED BY <1>2, <2>2 DEF Answered
<1> QED BY <1>1, <1>2

\* The end of a function.
LEMMA EndOfBodyKeeps ==
  ASSUME RunInv, EndOfBody
  PROVE  RunInv'
<1> DEFINE j == node.at
           f == Last(stack)
<1>1. /\ Visiting("end") /\ code[j].op \in Bodies /\ Restored /\ stack' = Front(stack)
      /\ value' = Answered(f, Nil) /\ pc' = f.resume /\ UNCHANGED <<envs, raised>>
  BY DEF EndOfBody
<1>2. /\ pc # 0 /\ raised = None /\ (stack # <<>> => f.kind # "loop")
      /\ code' = code /\ UNCHANGED resolverVars
  BY <1>1, VisitingNow
<1>3. /\ WellFormed(code) /\ EnvironmentsOK(envs, code) /\ StackOK(envs, code, stack, env)
      /\ DOMAIN code = 1..Len(code) /\ Len(code) \in Nat
  BY <1>2, RunNow
<1>4. envs[env].at = <<"body", j>> /\ stack # <<>> /\ code[j].op \notin {"block", "if", "while", "class"}
  <2>1. code[j].op \notin {"block", "if", "while", "class"}
    BY <1>1 DEF Bodies
  <2> QED BY <1>1, <2>1, EndNow
<1> DEFINE s == envs[env].at
<1>5. s[2] = j
  BY <1>4
<1>6. /\ f \in FrameType /\ f.previous \in DOMAIN envs /\ StackOK(envs, code, Front(stack), f.previous)
      /\ f.kind = "block" => code[s[2]].op \in {"block", "if", "while"}
      /\ f.kind = "call" => /\ f.resume - 1 \in DOMAIN code /\ code[f.resume - 1].op \in {"call", "get"}
                            /\ Stands(envs, code, f.previous, f.resume - 1)
      /\ Front(stack) # <<>> /\ Last(Front(stack)).kind = "loop" => f.kind = "block"
      /\ f.this # 0 => f.this \in DOMAIN envs /\ envs[f.this].at[1] = "this"
  BY <1>3, <1>4, TopFrame
<1> HIDE DEF f, j, s
<1>7. f.kind = "call"
  BY <1>2, <1>4, <1>5, <1>6 DEF FrameType
<1>8. Stands(envs, code, f.previous, f.resume)
  <2>1. f.resume \in Nat /\ f.resume - 1 \in 1..Len(code) /\ (f.resume - 1) + 1 = f.resume
    BY <1>3, <1>6, <1>7 DEF FrameType
  <2>2. code[f.resume - 1].op \notin Nesting \cup {"end", "return", "define"}
    BY <1>6, <1>7 DEF Nesting, Bodies
  <2>3. Stands(envs, code, f.previous, (f.resume - 1) + 1)
    BY <1>3, <1>6, <1>7, <2>1, <2>2, StandsOn
  <2> QED BY <2>1, <2>3
<1>9. ValueOK(envs, code, value')
  <2>1. ValueOK(envs, code, Nil)
    BY DEF ValueOK, Nil
  <2> QED BY <1>1, <1>3, <1>6, <2>1, AnsweredIs
<1>10. env' = f.previous
  BY <1>1, <1>7 DEF Restored, f
<1>11. Front(stack) # <<>> => Last(Front(stack)).kind # "loop"
  BY <1>6, <1>7
<1>12. RunOK'
  BY <1>1, <1>2, <1>3, <1>6, <1>8, <1>9, <1>10, <1>11, Runs
<1> QED BY <1>2, <1>12, RunKeeps

\* The end of a block, and of one turn of a loop.
LEMMA EndOfBlockKeeps ==
  ASSUME RunInv, EndOfBlock
  PROVE  RunInv'
<1> DEFINE j == node.at
           f == Last(stack)
           t == Front(stack)
<1>1. /\ Visiting("end") /\ code[j].op \in {"block", "if", "while"} /\ Restored
      /\ IF code[j].op = "while" THEN stack' = Front(t) /\ pc' = j ELSE stack' = t /\ pc' = pc + 1
      /\ UNCHANGED <<envs, value, raised>>
  BY DEF EndOfBlock
<1>2. /\ pc # 0 /\ raised = None /\ (stack # <<>> => f.kind # "loop")
      /\ code' = code /\ UNCHANGED resolverVars
  BY <1>1, VisitingNow
<1>3. /\ Complete(code) /\ EnvironmentsOK(envs, code) /\ StackOK(envs, code, stack, env)
      /\ DOMAIN code = 1..Len(code) /\ ValueOK(envs, code, value)
  BY <1>2, RunNow
<1>4. /\ j \in 1..Len(code) /\ Past(code, j) = pc + 1 /\ code[j].op \in Nesting
      /\ envs[env].at = <<"body", j>> /\ stack # <<>> /\ code[j].op \notin Bodies
  <2>1. code[j].op \notin Bodies /\ code[j].op # "class"
    BY <1>1 DEF Bodies
  <2> QED BY <1>1, <2>1, EndNow
<1> DEFINE s == envs[env].at
<1>5. s[2] = j
  BY <1>4
<1>6. /\ f \in FrameType /\ StackOK(envs, code, t, f.previous)
      /\ f.kind = "block" => /\ Stands(envs, code, f.previous, s[2])
                             /\ (code[s[2]].op = "while" <=> t # <<>> /\ Last(t).kind = "loop")
      /\ f.kind = "call" => code[s[2]].op \in Bodies
  BY <1>3, <1>4, TopFrame
<1>7. env' = f.previous
  BY <1>1, <1>2, <1>4 DEF Restored
<1> HIDE DEF f, j, s, t
<1>8. f.kind = "block"
  BY <1>2, <1>4, <1>5, <1>6 DEF FrameType
<1>9. Stands(envs, code, f.previous, j) /\ (code[j].op = "while" <=> t # <<>> /\ Last(t).kind = "loop")
  BY <1>5, <1>6, <1>8
<1>10. CASE code[j].op = "while"
  <2>1. stack' = Front(t) /\ pc' = j
    BY <1>1, <1>10
  <2>2. t # <<>> /\ Last(t).kind = "loop"
    BY <1>9, <1>10
  <2>3. /\ StackOK(envs, code, Front(t), Last(t).previous) /\ f.previous = Last(t).previous
        /\ Front(t) # <<>> /\ Last(Front(t)).kind = "loop" => Last(t).kind = "block"
    BY <1>6, <2>2, TopFrame
  <2>4. RunOK'
    BY <1>1, <1>2, <1>3, <1>7, <1>9, <2>1, <2>2, <2>3, Runs
  <2> QED BY <1>2, <2>4, RunKeeps
<1>11. CASE code[j].op # "while"
  <2>1. stack' = t /\ pc' = pc + 1
    BY <1>1, <1>11
  <2>2. Stands(envs, code, f.previous, Past(code, j))
    <3>1. code[j].op \notin {"fun", "class"}
      BY <1>1
    <3> QED BY <1>3, <1>4, <1>9, <3>1, StandsAfter
  <2>3. Stands(envs, code, f.previous, pc + 1)
    BY <1>4, <2>2
  <2>4. t # <<>> => Last(t).kind # "loop"
    BY <1>9, <1>11
  <2>5. RunOK'
    BY <1>1, <1>2, <1>3, <1>6, <1>7, <2>1, <2>3, <2>4, Runs
  <2> QED BY <1>2, <2>5, RunKeeps
<1> QED BY <1>10, <1>11

\* An exception on its way up restores the environment of each activation.
LEMMA UnwindKeeps ==
  ASSUME RunInv, pc # 0, Unwind
  PROVE  RunInv'
<1> DEFINE f == Last(stack)
           t == Front(stack)
<1>1. /\ raised # None /\ stack # <<>> /\ UNCHANGED resolverVars /\ envs' = envs /\ stack' = t /\ Restored
      /\ IF Catches(f)
         THEN /\ raised' = None /\ pc' = f.resume
              /\ value' = IF raised = "return" THEN Answered(f, value) ELSE value
         ELSE UNCHANGED <<raised, pc, value>>
  BY DEF Unwind
<1>2. code' = code
  BY <1>1 DEF resolverVars
<1>3. /\ RunOK /\ Complete(code) /\ WellFormed(code) /\ EnvironmentsOK(envs, code)
      /\ StackOK(envs, code, stack, env)
      /\ DOMAIN code = 1..Len(code) /\ Len(code) \in Nat /\ ValueOK(envs, code, value)
      /\ stack \in Seq(FrameType)
  BY RunNow
<1>4. /\ f \in FrameType /\ f.previous \in DOMAIN envs /\ StackOK(envs, code, t, f.previous)
      /\ f.kind = "loop" =>
              /\ env = f.previous
              /\ \E j \in DOMAIN code : /\ code[j].op = "while" /\ f.resume = Past(code, j)
                                        /\ Stands(envs, code, f.previous, j)
      /\ f.kind = "call" => /\ f.resume - 1 \in DOMAIN code /\ code[f.resume - 1].op \in {"call", "get"}
                            /\ Stands(envs, code, f.previous, f.resume - 1)
      /\ t # <<>> /\ Last(t).kind = "loop" => f.kind = "block"
      /\ f.this # 0 => f.this \in DOMAIN envs /\ envs[f.this].at[1] = "this"
  BY <1>1, <1>3, TopFrame
<1>5. env' = f.previous
  BY <1>1, <1>4 DEF Restored
<1>6. /\ DOMAIN t = 1..Len(stack) - 1 /\ Len(stack) \in Nat \ {0} /\ DOMAIN stack = 1..Len(stack)
      /\ (\A i \in 1..Len(stack) - 1 : t[i] = stack[i]) /\ f = stack[Len(stack)]
  BY <1>1, <1>3, FrontIs
<1> HIDE DEF f, t
<1>7. CASE Catches(f)
  <2>1. raised' = None /\ pc' = f.resume
        /\ value' = IF raised = "return" THEN Answered(f, value) ELSE value
    BY <1>1, <1>7
  <2>2. f.kind \in {"loop", "call"} /\ (t # <<>> => Last(t).kind # "loop")
    BY <1>4, <1>7 DEF Catches
  <2>3. ValueOK(envs, code, value')
    BY <1>3, <1>4, <2>1, AnsweredIs
  <2>4. Stands(envs, code, f.previous, f.resume)
    <3>1. CASE f.kind = "loop"
      <4>1. PICK j \in DOMAIN code : /\ code[j].op = "while" /\ f.resume = Past(code, j)
                                     /\ Stands(envs, code, f.previous, j)
        BY <1>4, <3>1
      <4> QED BY <1>3, <4>1, StandsAfter DEF Nesting
    <3>2. CASE f.kind = "call"
      <4>1. f.resume \in Nat /\ f.resume - 1 \in 1..Len(code) /\ (f.resume - 1) + 1 = f.resume
        BY <1>3, <1>4, <3>2 DEF FrameType
      <4>2. code[f.resume - 1].op \notin Nesting \cup {"end", "return", "define"}
        BY <1>4, <3>2 DEF Nesting, Bodies
      <4>3. Stands(envs, code, f.previous, (f.resume - 1) + 1)
        BY <1>3, <1>4, <3>2, <4>1, <4>2, StandsOn
      <4> QED BY <4>1, <4>3
    <3> QED BY <2>2, <3>1, <3>2
  <2>5. RunOK'
    BY <1>1, <1>2, <1>3, <1>4, <1>5, <2>1, <2>2, <2>3, <2>4, Runs
  <2> QED BY <1>1, <2>5, RunKeeps
<1>8. CASE ~Catches(f)
  <2>1. UNCHANGED <<raised, pc, value>>
    BY <1>1, <1>8
  <2>2. (raised = "PythonError" => Misses(pc))'
    BY <1>2, <1>3, <2>1 DEF Misses, RunOK
  <2>3. (raised = "return" => \E k \in DOMAIN stack : stack[k].kind = "call")'
    <3> SUFFICES ASSUME raised = "return" PROVE \E k \in DOMAIN t : t[k].kind = "call"
      BY <1>1, <2>1
    <3>1. PICK k \in DOMAIN stack : stack[k].kind = "call"
      BY <1>3 DEF RunOK
    <3>2. f.kind # "call"
      BY <1>8 DEF Catches
    <3>3. k \in 1..Len(stack) /\ k # Len(stack)
      BY <1>6, <3>1, <3>2
    <3>4. k \in 1..Len(stack) - 1
      BY <1>6, <3>3
    <3> QED BY <1>6, <3>1, <3>4
  <2>4. raised' # None /\ raised' \in {None, "break", "return", "PythonError", "PloxRuntimeError", "reported"}
        /\ pc' \in 1..Len(code') + 1
    BY <1>1, <1>2, <1>3, <2>1 DEF RunOK
  <2>5. /\ EnvironmentsOK(envs, code)' /\ StackOK(envs, code, stack, env)' /\ env' \in DOMAIN envs'
        /\ ValueOK(envs, code, value)'
    BY <1>1, <1>2, <1>3, <1>4, <1>5, <2>1
  <2>6. RunOK'
    BY <2>2, <2>3, <2>4, <2>5 DEF RunOK
  <2> QED BY <1>1, <2>6, RunKeeps
<1> QED BY <1>7, <1>8

\* The last step of a run that an error ends.
LEMMA ReportErrorKeeps ==
  ASSUME RunInv, pc # 0, ReportError
  PROVE  RunInv'
<1>1. Raise("reported") /\ UNCHANGED resolverVars
  BY DEF ReportError, Raise
<1>2. RunOK'
  BY <1>1, Raises
<1> QED BY <1>1, <1>2, RunKeeps

\* Growing twice is growing.
LEMMA GrowsOn ==
  ASSUME NEW E, NEW F, NEW G, Grows(E, F), Grows(F, G)
  PROVE  Grows(E, G)
<1>1. DOMAIN E \subseteq DOMAIN F /\ DOMAIN F \subseteq DOMAIN G
  BY DEF Grows
<1>2. ASSUME NEW e \in DOMAIN E
      PROVE  /\ G[e].at = E[e].at /\ G[e].enclosing = E[e].enclosing
             /\ DOMAIN E[e].values \subseteq DOMAIN G[e].values
             /\ \A n \in Special : n \in DOMAIN E[e].values => G[e].values[n] = E[e].values[n]
  <2>1. e \in DOMAIN F
    BY <1>1
  <2>2. /\ F[e].at = E[e].at /\ F[e].enclosing = E[e].enclosing
        /\ DOMAIN E[e].values \subseteq DOMAIN F[e].values
        /\ \A n \in Special : n \in DOMAIN E[e].values => F[e].values[n] = E[e].values[n]
    BY DEF Grows
  <2>3. /\ G[e].at = F[e].at /\ G[e].enclosing = F[e].enclosing
        /\ DOMAIN F[e].values \subseteq DOMAIN G[e].values
        /\ \A n \in Special : n \in DOMAIN F[e].values => G[e].values[n] = F[e].values[n]
    BY <2>1 DEF Grows
  <2> QED BY <2>2, <2>3
<1> QED BY <1>1, <1>2 DEF Grows

\* The activation of a call.
LEMMA CallPushed ==
  ASSUME NEW E, NEW c, NEW st, NEW e, StackOK(E, c, st, e), NEW p \in DOMAIN c, p \in Nat, Stands(E, c, e, p),
         c[p].op \in {"call", "get"}, st # <<>> => Last(st).kind # "loop",
         NEW m \in DOMAIN E, NEW j, c[j].op \in Bodies, E[m].at = <<"body", j>>, j \in DOMAIN c,
         NEW f \in FrameType, f.kind = "call", f.previous = e, f.resume = p + 1,
         f.this # 0 => f.this \in DOMAIN E /\ E[f.this].at[1] = "this"
  PROVE  StackOK(E, c, Append(st, f), m) /\ Last(Append(st, f)).kind # "loop"
<1> DEFINE t == Append(st, f)
           n == Len(st)
<1>1. /\ st \in Seq(FrameType) /\ n \in Nat /\ DOMAIN st = 1..n /\ Len(t) = n + 1
      /\ \A i \in 1..n : t[i] = st[i]
      /\ t[n + 1] = f /\ Last(t) = f
  BY Appended DEF StackOK
<1>2. Level(t, m, n) = e /\ Level(t, m, n + 1) = m
  <2>1. n \in 0..n /\ Level(st, e, n) = e
    BY <1>1 DEF Level
  <2>2. st \in Seq(FrameType) /\ f \in FrameType /\ f.previous = e
    BY <1>1
  <2>3. \A g : (\A k \in 0..n : Level(t, g, k) = Level(st, e, k)) /\ Level(t, g, n + 1) = g
    BY ONLY <2>2, LevelsPushed
  <2> QED BY <2>1, <2>3
<1>3. (n + 1) - 1 = n /\ (p + 1) - 1 = p
  BY <1>1
<1>4. e \in DOMAIN E
  BY DEF Stands
<1> DEFINE s == E[m].at
<1>5. s[2] = j /\ s = <<"body", s[2]>>
  OBVIOUS
<1> HIDE DEF t, n, s
<1>6. CallOK(E, c, t, m, n + 1)
  BY <1>1, <1>2, <1>3, <1>5 DEF CallOK, s
<1>7. FrameOK(E, c, t, m, n + 1)
  <2>1. t[n + 1].kind = "call" /\ (t[n + 1].this # 0 => t[n + 1].this \in DOMAIN E /\ E[t[n + 1].this].at[1] = "this")
    BY <1>1
  <2> QED BY <1>2, <1>3, <1>4, <1>6, <2>1 DEF FrameOK
<1>8. StackOK(E, c, t, m)
  BY <1>7, StackPush DEF t, n
<1> QED BY <1>1, <1>8 DEF t

\* A call: what closes over the environments E runs in a new one.
LEMMA Invoked ==
  ASSUME RunInv, NEW op \in {"call", "get"}, Visiting(op),
         NEW E, Grows(envs, E), EnvironmentsOK(E, code),
         NEW f, FunctionOK(E, code, f), Invoke(f, E)
  PROVE  RunInv'
<1> DEFINE j == f.at
           vals == [n \in code[j].arg |-> Nil]
           this == IF IsInitializer(f) THEN f.closure ELSE 0
           fr == Frame("call", pc + 1, this)
<1>1. /\ envs' = Append(E, Environment(f.closure, vals, <<"body", j>>)) /\ env' = Len(E) + 1
      /\ stack' = Append(stack, fr) /\ pc' = j + 1 /\ UNCHANGED <<value, raised>>
  BY DEF Invoke
<1>2. /\ pc # 0 /\ pc \in 1..Len(code) /\ code[pc].op = op /\ raised = None
      /\ Stands(envs, code, env, pc) /\ (stack # <<>> => Last(stack).kind # "loop")
      /\ code' = code /\ UNCHANGED resolverVars
  BY VisitingNow
<1>3. /\ WellFormed(code) /\ EnvironmentsOK(envs, code) /\ StackOK(envs, code, stack, env)
      /\ ValueOK(envs, code, value) /\ env \in DOMAIN envs /\ DOMAIN envs = 1..Len(envs)
      /\ DOMAIN code = 1..Len(code) /\ Len(code) \in Nat
  BY <1>2, RunNow
<1>4. /\ j \in 1..Len(code) /\ code[j].op \in Bodies /\ code[j].op \in Nesting /\ code[j].op # "class"
      /\ Stands(E, code, f.closure, j) /\ Upto(E, code, f.closure, j + 1)
  BY <1>3 DEF FunctionOK, Bodies, Nesting
<1>5. (\A n \in DOMAIN vals : n \in Name /\ vals[n] = Nil) /\ code[j].arg \subseteq DOMAIN vals
  <2>1. Fits(code, j)
    BY <1>2, <1>4, RunNow
  <2>2. code[j].arg \subseteq Name
    BY <1>4, <2>1 DEF Fits
  <2> QED BY <2>2
<1>6. f.closure \in DOMAIN E /\ f.closure \in Nat
  <2>1. DOMAIN E = 1..Len(E) /\ Len(E) \in Nat
    BY OneMore DEF EnvironmentsOK
  <2>2. f.closure \in DOMAIN E
    BY <1>4 DEF Stands
  <2> QED BY <2>1, <2>2
<1>7. this # 0 => this \in DOMAIN E /\ E[this].at[1] = "this"
  <2> SUFFICES ASSUME this # 0 PROVE this \in DOMAIN E /\ E[this].at[1] = "this"
    OBVIOUS
  <2>1. code[j].op \in {"method", "getter"} /\ this = f.closure
    BY DEF IsInitializer
  <2>2. Scope(code, j) = <<"this", Inmost(code, j)>>
    BY <1>3, <1>4, <2>1, MethodIn
  <2>3. E[f.closure].at = Scope(code, j)
    BY <1>4 DEF Stands
  <2> QED BY <1>6, <2>1, <2>2, <2>3
<1>8. this \in Nat
  BY <1>6
<1>9. env \in Nat
  BY <1>3
<1>10. pc + 1 \in Nat
  BY <1>2
<1> HIDE DEF this
<1>11. fr \in FrameType /\ fr.kind = "call" /\ fr.previous = env /\ fr.resume = pc + 1 /\ fr.this = this
  BY <1>8, <1>9, <1>10, FrameIs
<1> HIDE DEF fr, vals, j
<1>12. /\ EnvironmentsOK(envs', code) /\ Grows(E, envs')
       /\ env' \in DOMAIN envs' /\ envs'[env'].at = <<"body", j>>
       /\ Stands(envs', code, env', j + 1)
  BY <1>1, <1>3, <1>4, <1>5, NewBody
<1>13. Grows(envs, envs')
  BY <1>12, GrowsOn
<1>14. StackOK(envs', code, stack, env) /\ Stands(envs', code, env, pc) /\ ValueOK(envs', code, value)
  BY <1>2, <1>3, <1>13, StackGrows, StandsGrows, ValueGrows, HasSupers
<1>15. fr.this # 0 => fr.this \in DOMAIN envs' /\ envs'[fr.this].at[1] = "this"
  BY <1>7, <1>11, <1>12 DEF Grows
<1>16. StackOK(envs', code, stack', env') /\ Last(stack').kind # "loop"
  <2>1. pc \in DOMAIN code /\ pc \in Nat /\ j \in DOMAIN code
    BY <1>2, <1>3, <1>4
  <2> QED BY <1>1, <1>2, <1>4, <1>11, <1>12, <1>14, <1>15, <2>1, CallPushed
<1>17. RunOK'
  BY <1>1, <1>2, <1>12, <1>14, <1>16, Runs
<1> QED BY <1>2, <1>17, RunKeeps

\* What a class finds is one of the methods in its chain.
LEMMA FoundInChain ==
  ASSUME NEW E, NEW c, NEW chain, ChainOK(E, c, chain), NEW k, Finders(chain, k) # {}
  PROVE  /\ Min(Finders(chain, k)) \in DOMAIN chain
         /\ k \in DOMAIN chain[Min(Finders(chain, k))].methods
         /\ FindMethod(chain, k) = chain[Min(Finders(chain, k))].methods[k]
         /\ MethodOK(E, c, FindMethod(chain, k))
<1>1. DOMAIN chain = 1..Len(chain) /\ Len(chain) \in Nat
  <2>1. IsSeq(chain)
    BY DEF ChainOK
  <2> QED BY <2>1, OneMore
<1>2. Finders(chain, k) \in SUBSET Nat
  BY <1>1 DEF Finders
<1>3. Min(Finders(chain, k)) \in Finders(chain, k)
  BY <1>2, MinIs
<1>4. Min(Finders(chain, k)) \in DOMAIN chain /\ k \in DOMAIN chain[Min(Finders(chain, k))].methods
  BY <1>3 DEF Finders
<1>5. FindMethod(chain, k) = chain[Min(Finders(chain, k))].methods[k]
  BY DEF FindMethod
<1> QED BY <1>4, <1>5 DEF ChainOK

\* The receiver's environment, and the method bound to it.
LEMMA BoundIs ==
  ASSUME RunInv, pc # 0, NEW f, MethodOK(envs, code, f), NEW v, v.kind = "instance", ValueOK(envs, code, v),
         \E i \in DOMAIN v.klass.chain : \E k \in DOMAIN v.klass.chain[i].methods :
           v.klass.chain[i].methods[k].closure = f.closure
  PROVE  /\ EnvironmentsOK(Bound(f, v), code) /\ Grows(envs, Bound(f, v))
         /\ FunctionOK(Bound(f, v), code, BoundMethod(f))
<1>1. EnvironmentsOK(envs, code) /\ WellFormed(code) /\ Complete(code) /\ DOMAIN code = 1..Len(code)
  BY RunNow
<1>2. f.at \in 1..Len(code) /\ code[f.at].op \in {"method", "getter"}
  BY <1>1 DEF MethodOK
<1>3. ClassOf(f.at) = Inmost(code, f.at)
  BY <1>1, <1>2, ClassOfIs
<1>4. /\ Bound(f, v) = Append(envs, Environment(f.closure, Entry("this", v), <<"this", Inmost(code, f.at)>>))
      /\ BoundMethod(f) = LoxFunction(f.at, Len(envs) + 1)
  BY <1>3 DEF Bound, BoundMethod
<1> DEFINE F == Append(envs, Environment(f.closure, Entry("this", v), <<"this", Inmost(code, f.at)>>))
<1>5. EnvironmentsOK(F, code) /\ Grows(envs, F) /\ FunctionOK(F, code, LoxFunction(f.at, Len(envs) + 1))
  BY <1>1, NewThis
<1> QED BY <1>4, <1>5

\* A method that is taken from an instance and not called.
LEMMA BindKeeps ==
  ASSUME RunInv, NEW op \in {"get", "super"}, Visiting(op),
         NEW f, MethodOK(envs, code, f), NEW v, v.kind = "instance", ValueOK(envs, code, v),
         \E i \in DOMAIN v.klass.chain : \E k \in DOMAIN v.klass.chain[i].methods :
           v.klass.chain[i].methods[k].closure = f.closure,
         Bind(f, v)
  PROVE  RunInv'
<1>1. envs' = Bound(f, v) /\ value' = BoundMethod(f) /\ pc' = pc + 1 /\ UNCHANGED <<env, stack, raised>>
  BY DEF Bind
<1>2. /\ pc # 0 /\ pc \in 1..Len(code) /\ code[pc].op = op /\ raised = None
      /\ Stands(envs, code, env, pc) /\ (stack # <<>> => Last(stack).kind # "loop")
      /\ code' = code /\ UNCHANGED resolverVars
  BY VisitingNow
<1>3. /\ WellFormed(code) /\ StackOK(envs, code, stack, env)
  BY <1>2, RunNow
<1>4. EnvironmentsOK(envs', code) /\ Grows(envs, envs') /\ FunctionOK(envs', code, value')
  BY <1>1, <1>2, BoundIs
<1>5. ValueOK(envs', code, value')
  <2>1. value'.kind = "function"
    BY <1>1 DEF BoundMethod, LoxFunction
  <2> QED BY <1>4, <2>1 DEF ValueOK
<1>6. StackOK(envs', code, stack, env) /\ Stands(envs', code, env, pc)
  BY <1>2, <1>3, <1>4, StackGrows, StandsGrows
<1>7. Stands(envs', code, env, pc + 1)
  <2>1. code[pc].op \notin Nesting \cup {"end", "return", "define"}
    BY <1>2 DEF Nesting, Bodies
  <2> QED BY <1>2, <1>3, <1>6, <2>1, StandsOn
<1>8. RunOK'
  BY <1>1, <1>2, <1>4, <1>5, <1>6, <1>7, Runs
<1> QED BY <1>2, <1>8, RunKeeps

\* What a value is, by its kind.
LEMMA ValueIs ==
  ASSUME NEW E, NEW c, NEW v, ValueOK(E, c, v)
  PROVE  /\ v.kind = "function" => FunctionOK(E, c, v)
         /\ v.kind = "class" => ChainOK(E, c, v.chain)
         /\ v.kind = "instance" => v.klass.kind = "class" /\ ChainOK(E, c, v.klass.chain)
BY DEF ValueOK

\* An instance of a class.
LEMMA InstanceIs ==
  ASSUME NEW E, NEW c, NEW v, v.kind = "class", ChainOK(E, c, v.chain)
  PROVE  LoxInstance(v).kind = "instance" /\ LoxInstance(v).klass = v /\ ValueOK(E, c, LoxInstance(v))
<1>1. LoxInstance(v).kind = "instance" /\ LoxInstance(v).klass = v
  BY DEF LoxInstance
<1> QED BY <1>1 DEF ValueOK

\* Calls of functions and classes.
LEMMA RunCallKeeps ==
  ASSUME RunInv, RunCall
  PROVE  RunInv'
<1>1. Visiting("call")
  BY DEF RunCall
<1>2. /\ pc # 0 /\ pc \in 1..Len(code) /\ code[pc].op = "call" /\ raised = None
      /\ Stands(envs, code, env, pc) /\ (stack # <<>> => Last(stack).kind # "loop")
      /\ code' = code /\ UNCHANGED resolverVars
  BY <1>1, VisitingNow
<1>3. /\ WellFormed(code) /\ EnvironmentsOK(envs, code) /\ ValueOK(envs, code, value) /\ IsSeq(envs)
  BY <1>2, RunNow
<1> DEFINE v == value
           f == Initializer(v)
<1>4. \/ Raise("PloxRuntimeError")
      \/ v.kind = "function" /\ Invoke(v, envs)
      \/ v.kind = "class" /\ Finders(v.chain, "init") = {} /\ Answer(LoxInstance(v))
      \/ v.kind = "class" /\ Finders(v.chain, "init") # {} /\ Invoke(BoundMethod(f), Bound(f, LoxInstance(v)))
  BY DEF RunCall
<1>5. ValueOK(envs, code, v)
  BY <1>3
<1>6. v.kind = "function" => FunctionOK(envs, code, v)
  BY <1>5, ValueIs
<1>7. v.kind = "class" => ChainOK(envs, code, v.chain)
  BY <1>5, ValueIs
<1> HIDE DEF v
<1>8. CASE Raise("PloxRuntimeError")
  <2>1. RunOK'
    BY <1>2, <1>8, Raises
  <2> QED BY <1>2, <2>1, RunKeeps
<1>9. CASE v.kind = "function" /\ Invoke(v, envs)
  <2>1. Grows(envs, envs)
    BY DEF Grows
  <2> QED BY <1>1, <1>3, <1>6, <1>9, <2>1, Invoked
<1>10. CASE v.kind = "class" /\ Finders(v.chain, "init") = {} /\ Answer(LoxInstance(v))
  <2>1. ValueOK(envs, code, LoxInstance(v))
    BY <1>7, <1>10, InstanceIs
  <2>2. value' = LoxInstance(v) /\ pc' = pc + 1 /\ UNCHANGED <<envs, env, stack, raised>>
    BY <1>10 DEF Answer
  <2>3. Stands(envs, code, env, pc + 1)
    <3>1. code[pc].op \notin Nesting \cup {"end", "return", "define"}
      BY <1>2 DEF Nesting, Bodies
    <3> QED BY <1>2, <1>3, <3>1, StandsOn
  <2>4. RunOK'
    BY <1>2, <2>1, <2>2, <2>3, Answers
  <2> QED BY <1>2, <2>4, RunKeeps
<1>11. CASE v.kind = "class" /\ Finders(v.chain, "init") # {} /\ Invoke(BoundMethod(f), Bound(f, LoxInstance(v)))
  <2> DEFINE i == Min(Finders(v.chain, "init"))
             w == LoxInstance(v)
  <2>1. /\ i \in DOMAIN v.chain /\ "init" \in DOMAIN v.chain[i].methods
        /\ f = v.chain[i].methods["init"] /\ MethodOK(envs, code, f)
    BY <1>7, <1>11, FoundInChain DEF Initializer
  <2>2. w.kind = "instance" /\ w.klass = v /\ ValueOK(envs, code, w)
    BY <1>7, <1>11, InstanceIs
  <2> HIDE DEF f, w, i
  <2>3. \E k \in DOMAIN w.klass.chain : \E n \in DOMAIN w.klass.chain[k].methods :
           w.klass.chain[k].methods[n].closure = f.closure
    BY <2>1, <2>2
  <2>4. /\ EnvironmentsOK(Bound(f, w), code) /\ Grows(envs, Bound(f, w))
        /\ FunctionOK(Bound(f, w), code, BoundMethod(f))
    BY <1>2, <2>1, <2>2, <2>3, BoundIs
  <2>5. Invoke(BoundMethod(f), Bound(f, w))
    BY <1>11 DEF f, w
  <2> QED BY <1>1, <2>4, <2>5, Invoked
<1> QED BY <1>4, <1>8, <1>9, <1>10, <1>11

\* Getters are called, methods bound.
LEMMA RunGetKeeps ==
  ASSUME RunInv, RunGet
  PROVE  RunInv'
<1>1. Visiting("get")
  BY DEF RunGet
<1>2. pc # 0 /\ UNCHANGED resolverVars
  BY <1>1, VisitingNow
<1>3. ValueOK(envs, code, value)
  BY <1>2, RunNow
<1> DEFINE v == value
           k == node.name
           f == FindMethod(v.klass.chain, k)
<1>4. \/ Raise("PloxRuntimeError")
      \/ /\ v.kind = "instance" /\ Finders(v.klass.chain, k) # {}
         /\ Invoke(BoundMethod(f), Bound(f, v)) \/ Bind(f, v)
  BY DEF RunGet
<1>5. ValueOK(envs, code, v)
  BY <1>3
<1>6. v.kind = "instance" => v.klass.kind = "class" /\ ChainOK(envs, code, v.klass.chain)
  BY <1>5, ValueIs
<1> HIDE DEF v, k
<1>7. CASE Raise("PloxRuntimeError")
  <2>1. RunOK'
    BY <1>2, <1>7, Raises
  <2> QED BY <1>2, <2>1, RunKeeps
<1>8. CASE /\ v.kind = "instance" /\ Finders(v.klass.chain, k) # {}
           /\ Invoke(BoundMethod(f), Bound(f, v)) \/ Bind(f, v)
  <2> DEFINE i == Min(Finders(v.klass.chain, k))
  <2>1. /\ i \in DOMAIN v.klass.chain /\ k \in DOMAIN v.klass.chain[i].methods
        /\ f = v.klass.chain[i].methods[k] /\ MethodOK(envs, code, f)
    BY <1>6, <1>8, FoundInChain
  <2>2. Invoke(BoundMethod(f), Bound(f, v)) \/ Bind(f, v)
    BY <1>8
  <2> HIDE DEF f, i
  <2>3. \E j \in DOMAIN v.klass.chain : \E n \in DOMAIN v.klass.chain[j].methods :
           v.klass.chain[j].methods[n].closure = f.closure
    BY <2>1
  <2>4. v.kind = "instance"
    BY <1>8
  <2>5. CASE Bind(f, v)
    BY <1>1, <1>5, <2>1, <2>3, <2>4, <2>5, BindKeeps
  <2>6. CASE Invoke(BoundMethod(f), Bound(f, v))
    <3>1. /\ EnvironmentsOK(Bound(f, v), code) /\ Grows(envs, Bound(f, v))
          /\ FunctionOK(Bound(f, v), code, BoundMethod(f))
      BY <1>2, <1>5, <2>1, <2>3, <2>4, BoundIs
    <3> QED BY <1>1, <2>6, <3>1, Invoked
  <2> QED BY <2>2, <2>5, <2>6
<1> QED BY <1>4, <1>7, <1>8

\* What follows of the chain of a receiver holds methods that the receiver has.
LEMMA InTheRest ==
  ASSUME NEW C, IsSeq(C), NEW i \in DOMAIN C, NEW j \in DOMAIN SubSeq(C, i + 1, Len(C))
  PROVE  i + j \in DOMAIN C /\ SubSeq(C, i + 1, Len(C))[j] = C[i + j]
<1> DEFINE T == {C[k] : k \in DOMAIN C}
<1>1. C \in Seq(T)
  BY DEF IsSeq
<1>2. Len(C) \in Nat /\ DOMAIN C = 1..Len(C)
  BY <1>1, LenProperties
<1> HIDE DEF T
<1>3. SubSeq(C, i + 1, Len(C)) = [k \in 1..(Len(C) - (i + 1) + 1) |-> C[i + 1 + k - 1]]
  BY <1>1, <1>2
<1>4. j \in 1..Len(C) - i /\ Len(C) - (i + 1) + 1 = Len(C) - i /\ i + 1 + j - 1 = i + j
  BY <1>2, <1>3
<1> QED BY <1>2, <1>3, <1>4

\* A method of the superclass is bound to the receiver.
LEMMA RunSuperKeeps ==
  ASSUME RunInv, RunSuper
  PROVE  RunInv'
<1>1. Visiting("super")
  BY DEF RunSuper
<1>2. /\ pc # 0 /\ pc \in 1..Len(code) /\ code[pc].op = "super" /\ UNCHANGED resolverVars
      /\ Stands(envs, code, env, pc) /\ Sound(code, locals, pc)
  BY <1>1, VisitingNow
<1>3. EnvironmentsOK(envs, code) /\ ResolverTypes /\ Complete(code) /\ DOMAIN code = 1..Len(code)
  BY <1>2, RunNow
<1>4. Lexical(code, "super", pc) # Outside /\ ResolvedAt(code, locals, pc, "super")
  <2>1. "super" \in UsesOf(code, pc)
    BY <1>2 DEF UsesOf
  <2> QED BY <1>2, <2>1 DEF Sound
<1> DEFINE v == envs[ThisAt].values["this"]
           sup == envs[SuperAt].values["super"]
           C == v.klass.chain
           k == node.name
           f == FindMethod(sup.chain, k)
<1>5. /\ pc \in DOMAIN locals /\ locals[pc] # 0
      /\ SuperAt \in DOMAIN envs /\ ThisAt \in DOMAIN envs
      /\ Holding("super", SuperAt) /\ Holding("this", ThisAt)
      /\ sup.kind = "class" /\ v.kind = "instance"
      /\ \E i \in DOMAIN C : SubSeq(C, i + 1, Len(C)) = sup.chain
  <2>1. pc \in DOMAIN code
    BY <1>2, <1>3
  <2>2. locals[pc] \in Nat /\ locals[pc] > 0 => locals[pc] # 0
    OBVIOUS
  <2> QED BY <1>2, <1>3, <1>4, <2>1, <2>2, SupersMeet
<1>6. ValueOK(envs, code, sup) /\ ValueOK(envs, code, v)
  <2>1. "super" \in DOMAIN envs[SuperAt].values /\ "this" \in DOMAIN envs[ThisAt].values
    BY <1>5 DEF Holding
  <2>2. \A e \in DOMAIN envs : \A n \in DOMAIN envs[e].values : ValueOK(envs, code, envs[e].values[n])
    BY <1>3 DEF EnvironmentsOK, EnvironmentOK
  <2> QED BY <1>5, <2>1, <2>2
<1>7. Raise("PloxRuntimeError") \/ (Finders(sup.chain, k) # {} /\ Bind(f, v))
  BY <1>5 DEF RunSuper
<1> HIDE DEF v, sup, k
<1>8. ChainOK(envs, code, sup.chain) /\ ChainOK(envs, code, C)
  BY <1>5, <1>6, ValueIs
<1>9. CASE Raise("PloxRuntimeError")
  <2>1. RunOK'
    BY <1>2, <1>9, Raises
  <2> QED BY <1>2, <2>1, RunKeeps
<1>10. CASE Finders(sup.chain, k) # {} /\ Bind(f, v)
  <2> DEFINE m == Min(Finders(sup.chain, k))
  <2>1. /\ m \in DOMAIN sup.chain /\ k \in DOMAIN sup.chain[m].methods
        /\ f = sup.chain[m].methods[k] /\ MethodOK(envs, code, f)
    BY <1>8, <1>10, FoundInChain
  <2>2. Bind(f, v)
    BY <1>10
  <2> HIDE DEF f, m
  <2>3. PICK i \in DOMAIN C : SubSeq(C, i + 1, Len(C)) = sup.chain
    BY <1>5
  <2>4. IsSeq(C)
    BY <1>8 DEF ChainOK
  <2> HIDE DEF C
  <2>5. i + m \in DOMAIN C /\ sup.chain[m] = C[i + m]
    BY <2>1, <2>3, <2>4, InTheRest
  <2>6. \E j \in DOMAIN C : \E n \in DOMAIN C[j].methods : C[j].methods[n].closure = f.closure
    BY <2>1, <2>5
  <2>7. \E j \in DOMAIN v.klass.chain : \E n \in DOMAIN v.klass.chain[j].methods :
           v.klass.chain[j].methods[n].closure = f.closure
    BY <2>6 DEF C
  <2> QED BY <1>1, <1>5, <1>6, <2>1, <2>2, <2>7, BindKeeps
<1> QED BY <1>7, <1>9, <1>10

\* A class in front of its superclasses.
LEMMA ChainCons ==
  ASSUME NEW C, IsSeq(C), NEW x
  PROVE  LET D == <<x>> \o C IN
         /\ IsSeq(D) /\ Len(C) \in Nat /\ DOMAIN C = 1..Len(C) /\ DOMAIN D = 1..Len(C) + 1 /\ D[1] = x
         /\ \A i \in 2..Len(C) + 1 : D[i] = C[i - 1]
         /\ SubSeq(D, 2, Len(D)) = C
         /\ \A i \in 2..Len(C) + 1 : SubSeq(D, i + 1, Len(D)) = SubSeq(C, i, Len(C))
<1> DEFINE T == {C[k] : k \in DOMAIN C}
           U == T \cup {x}
           D == <<x>> \o C
           n == Len(C)
<1>1. C \in Seq(T)
  BY DEF IsSeq
<1>2. n \in Nat /\ DOMAIN C = 1..n /\ C = [k \in 1..n |-> C[k]]
  BY <1>1, LenProperties
<1>3. C \in Seq(U) /\ <<x>> \in Seq(U) /\ Len(<<x>>) = 1 /\ <<x>>[1] = x
  <2>1. T \subseteq U /\ x \in U
    OBVIOUS
  <2> HIDE DEF T, U
  <2> QED BY <1>1, <2>1
<1> HIDE DEF T, U
<1>4. /\ D \in Seq(U) /\ Len(D) = 1 + n
      /\ \A i \in 1..1 + n : D[i] = IF i <= 1 THEN <<x>>[i] ELSE C[i - 1]
  BY <1>2, <1>3, ConcatProperties
<1>5. IsSeq(D) /\ DOMAIN D = 1..n + 1
  <2>1. IsSeq(D)
    BY <1>4, SeqIs
  <2> QED BY <1>2, <1>4, <2>1, LenProperties
<1> HIDE DEF D, n
<1>v. \A i \in 1..1 + n : D[i] = IF i <= 1 THEN <<x>>[i] ELSE C[i - 1]
  BY <1>4
<1>6. D[1] = x
  <2>1. 1 \in 1..1 + n /\ 1 <= 1
    BY <1>2
  <2>2. D[1] = <<x>>[1]
    BY <1>v, <2>1
  <2> QED BY <2>2
<1>7. \A i \in 2..n + 1 : D[i] = C[i - 1]
  <2> TAKE i \in 2..n + 1
  <2>1. i \in 1..1 + n /\ ~(i <= 1)
    BY <1>2
  <2> QED BY <1>v, <2>1
<1>8. ASSUME NEW i \in 2..n + 2
      PROVE  SubSeq(D, i, n + 1) = [k \in 1..(n + 1 - i + 1) |-> D[i + k - 1]]
  BY <1>2, <1>4
<1>9. ASSUME NEW i \in 2..n + 2
      PROVE  SubSeq(D, i, n + 1) = SubSeq(C, i - 1, n)
  <2>1. SubSeq(C, i - 1, n) = [k \in 1..(n - (i - 1) + 1) |-> C[i - 1 + k - 1]]
    BY <1>1, <1>2
  <2>2. n + 1 - i + 1 = n - (i - 1) + 1
    BY <1>2
  <2>3. ASSUME NEW k \in 1..(n - (i - 1) + 1)
        PROVE  D[i + k - 1] = C[i - 1 + k - 1]
    <3>1. i + k - 1 \in 2..n + 1 /\ i - 1 + k - 1 = (i + k - 1) - 1
      BY <1>2
    <3> QED BY <1>7, <3>1
  <2> QED BY <1>8, <2>1, <2>2, <2>3
<1>10. SubSeq(D, 2, Len(D)) = C
  <2>1. SubSeq(D, 2, n + 1) = SubSeq(C, 1, n)
    <3>1. 2 \in 2..n + 2 /\ 2 - 1 = 1
      BY <1>2
    <3> QED BY <1>9, <3>1
  <2>2. SubSeq(C, 1, n) = C
    BY <1>1, <1>2, SubSeqFull DEF n
  <2> QED BY <1>2, <1>4, <2>1, <2>2
<1>11. ASSUME NEW i \in 2..n + 1
       PROVE  SubSeq(D, i + 1, Len(D)) = SubSeq(C, i, n)
  <2>1. i + 1 \in 2..n + 2 /\ (i + 1) - 1 = i /\ Len(D) = n + 1
    BY <1>2, <1>4
  <2> QED BY <1>9, <2>1
<1> QED BY <1>2, <1>5, <1>6, <1>7, <1>10, <1>11 DEF D, n

\* A class whose methods close over its own superclass, and what it inherits.
LEMMA ChainMore ==
  ASSUME NEW F, NEW c, NEW sup, ChainOK(F, c, sup), NEW ms,
         \A k \in DOMAIN ms :
           /\ MethodOK(F, c, ms[k])
           /\ F[ms[k].closure].at[1] = "super" => sup = F[ms[k].closure].values["super"].chain
  PROVE  ChainOK(F, c, <<[methods |-> ms]>> \o sup)
<1> DEFINE x == [methods |-> ms]
           D == <<x>> \o sup
           n == Len(sup)
<1>1. IsSeq(sup)
  BY DEF ChainOK
<1>2. /\ IsSeq(D) /\ n \in Nat /\ DOMAIN sup = 1..n /\ DOMAIN D = 1..n + 1 /\ D[1] = x
      /\ \A i \in 2..n + 1 : D[i] = sup[i - 1]
      /\ SubSeq(D, 2, Len(D)) = sup
      /\ \A i \in 2..n + 1 : SubSeq(D, i + 1, Len(D)) = SubSeq(sup, i, n)
  BY <1>1, ChainCons
<1>3. x.methods = ms
  OBVIOUS
<1> HIDE DEF D, n, x
<1>4. ASSUME NEW i \in DOMAIN D, NEW k \in DOMAIN D[i].methods
      PROVE  LET f == D[i].methods[k] IN
             /\ MethodOK(F, c, f)
             /\ F[f.closure].at[1] = "super" =>
                  SubSeq(D, i + 1, Len(D)) = F[f.closure].values["super"].chain
  <2>1. CASE i = 1
    <3>1. D[i].methods = ms /\ SubSeq(D, i + 1, Len(D)) = sup
      BY <1>2, <1>3, <2>1
    <3> QED BY <3>1
  <2>2. CASE i # 1
    <3>1. i \in 2..n + 1 /\ i - 1 \in DOMAIN sup /\ (i - 1) + 1 = i
      BY <1>2, <2>2
    <3>2. D[i] = sup[i - 1] /\ SubSeq(D, i + 1, Len(D)) = SubSeq(sup, i, n)
      BY <1>2, <3>1
    <3>3. \A l \in DOMAIN sup[i - 1].methods :
            LET f == sup[i - 1].methods[l] IN
            /\ MethodOK(F, c, f)
            /\ F[f.closure].at[1] = "super" =>
                 SubSeq(sup, (i - 1) + 1, Len(sup)) = F[f.closure].values["super"].chain
      BY <3>1 DEF ChainOK
    <3> QED BY <3>1, <3>2, <3>3 DEF n
  <2> QED BY <2>1, <2>2
<1> QED BY <1>2, <1>4 DEF ChainOK, D, x

\* A class lets its methods stand where it stands: no return is directly in it.
LEMMA LiveMethod ==
  ASSUME NEW c, WellFormed(c), NEW m \in 1..Len(c), c[m].op \in {"method", "getter"}, Live(c, Inmost(c, m))
  PROVE  Live(c, m)
<1> DEFINE i == Inmost(c, m)
<1>1. /\ Encl(c, m) # {} /\ i \in 1..m - 1 /\ i \in 1..Len(c) /\ i \in Encl(c, m) /\ c[i].op = "class"
  BY MethodIn
<1>2. c \in Seq(NodeType) /\ Len(c) \in Nat /\ m \in 1..Len(c) + 1 /\ m \in Nat
  <2>1. c \in Seq(NodeType) /\ Len(c) \in Nat
    BY TextIs
  <2> QED BY <2>1
<1>3. Encl(c, m) = Encl(c, i) \cup {i}
  BY <1>1, <1>2, EnclInmost
<1>4. \A j \in Encl(c, m) : j > 1 => c[j - 1].op # "return"
  BY <1>3 DEF Live
<1>5. m > 1 => c[m - 1].op # "return"
  <2> SUFFICES ASSUME m > 1, c[m - 1].op = "return" PROVE FALSE
    OBVIOUS
  <2>1. m - 1 \in 1..Len(c) /\ (m - 1) + 1 = m
    BY <1>2
  <2>2. c[m - 1].op \notin Nesting /\ c[m - 1].op \notin {"end", "method", "getter"}
    BY DEF Nesting, Bodies
  <2>3. Encl(c, m) = Encl(c, m - 1)
    <3>1. Encl(c, (m - 1) + 1) = {j \in Encl(c, m - 1) : ~(c[m - 1].op = "end" /\ c[m - 1].at = j)}
                          \cup (IF c[m - 1].op \in Nesting THEN {m - 1} ELSE {})
      BY <2>1, EnclNext
    <3>2. Encl(c, (m - 1) + 1) = Encl(c, m - 1)
      BY <2>2, <3>1
    <3> QED BY <2>1, <3>2
  <2>4. Inmost(c, m - 1) = i /\ Encl(c, m - 1) # {}
    BY <1>1, <2>3 DEF Inmost
  <2>5. Fits(c, m - 1)
    BY <2>1, TextIs
  <2> QED BY <1>1, <2>2, <2>4, <2>5 DEF Fits
<1> QED BY <1>4, <1>5 DEF Live

\* What a class declares close over the environment of its superclass, or its own.
LEMMA MethodsOf ==
  ASSUME Complete(code), NEW p \in 1..Len(code), code[p].op = "class", Live(code, p),
         NEW F, NEW e \in DOMAIN F, F[e].at = Outer(code, <<"this", p>>), Upto(F, code, e, p + 1),
         NEW k \in {code[m].name : m \in Methods(p)}
  PROVE  LET f == LoxFunction(Max({m \in Methods(p) : code[m].name = k}), e)
         IN MethodOK(F, code, f) /\ f.closure = e
<1> DEFINE T == {m \in Methods(p) : code[m].name = k}
           m == Max(T)
           f == LoxFunction(m, e)
<1>1. WellFormed(code) /\ Len(code) \in Nat /\ DOMAIN code = 1..Len(code)
  <2>1. WellFormed(code)
    BY DEF Complete
  <2> QED BY <2>1, TextIs
<1>2. T \in SUBSET (0..Len(code)) /\ T # {}
  BY <1>1 DEF Methods
<1>3. m \in T
  BY <1>1, <1>2, MaxIs
<1>4. m \in 1..Len(code) /\ code[m].op \in {"method", "getter"} /\ ClassOf(m) = p
  BY <1>1, <1>3 DEF Methods
<1>5. f.kind = "function" /\ f.at = m /\ f.closure = e
  BY DEF LoxFunction
<1> HIDE DEF m, f, T
<1>6. Inmost(code, m) = p
  BY <1>4, ClassOfIs
<1>7. Scope(code, m) = <<"this", p>>
  BY <1>1, <1>4, <1>6, MethodIn
<1>8. Live(code, m)
  BY <1>1, <1>4, <1>6, LiveMethod
<1>9. MethodOK(F, code, f)
  BY <1>1, <1>4, <1>5, <1>6, <1>7, <1>8 DEF MethodOK
<1> QED BY <1>5, <1>9 DEF f, m, T

\* The environment of super, inside that of the class.
SuperOf(E, v, e) ==
  /\ e # Globals /\ env \in 1..e - 1 /\ v.kind = "class" /\ ValueOK(envs, code, v)
  /\ E[e] = Environment(env, Entry("super", v), <<"super", pc>>)

\* Such an environment is as it must be, once the class has its name.
LEMMA SuperIsOK ==
  ASSUME NEW F, Grows(envs, F), EnvironmentsOK(envs, code), env \in DOMAIN envs,
         pc \in DOMAIN code, code[pc].op = "class", Stands(F, code, env, pc), Upto(F, code, env, pc + 1),
         NEW v, NEW e, SuperOf(F, v, e)
  PROVE  EnvironmentOK(F, code, e)
<1> DEFINE vals == Entry("super", v)
           s == <<"super", pc>>
<1>1. F[e].enclosing = env /\ F[e].values = vals /\ F[e].at = s /\ F[e] = Environment(env, vals, s)
  BY DEF SuperOf, Environment
<1>2. DOMAIN vals = {"super"} /\ vals["super"] = v
  BY DEF Entry
<1>3. s[1] = "super" /\ s[2] = pc
  OBVIOUS
<1>4. ValueOK(F, code, v)
  BY HasSupers, ValueGrows DEF SuperOf
<1>5. Outer(code, s) = Scope(code, pc)
  BY <1>3 DEF Outer
<1>6. F[env].at = Outer(code, s)
  BY <1>5 DEF Stands
<1>7. code[s[2]].op \in Nesting /\ s \in {<<"this", s[2]>>, <<"super", s[2]>>} /\ code[s[2]].op \notin Bodies
  <2>1. code[s[2]].op \in Nesting /\ code[s[2]].op \notin Bodies
    BY <1>3 DEF Nesting, Bodies
  <2>2. s = <<"super", s[2]>>
    BY <1>3
  <2> QED BY <2>1, <2>2
<1> HIDE DEF vals, s
<1>8. \A n \in DOMAIN vals : n \in Name \cup Special /\ ValueOK(F, code, vals[n])
  BY <1>2, <1>4 DEF Special
<1>9. e # Globals /\ env \in 1..e - 1 /\ v.kind = "class"
  BY DEF SuperOf
<1>10. s[1] # "this"
  BY <1>3
<1> QED BY <1>1, <1>2, <1>3, <1>6, <1>7, <1>8, <1>9, <1>10 DEF EnvironmentOK

\* A class gets its name: its methods close over e, which is the environment of the
\* class or that of super.
LEMMA ClassDeclared ==
  ASSUME RunInv, Visiting("class"),
         NEW E, IsSeq(E), E # <<>>, Grows(envs, E), \A i \in DOMAIN envs : E[i] = envs[i],
         NEW e \in DOMAIN E, E[e].at = Outer(code, <<"this", pc>>), e = env \/ e \notin DOMAIN envs,
         \A i \in DOMAIN E \ DOMAIN envs : \E v : SuperOf(E, v, i),
         NEW sup, ChainOK(envs, code, sup),
         E[e].at[1] = "super" => "super" \in DOMAIN E[e].values /\ sup = E[e].values["super"].chain,
         DeclareClass(sup, e, E)
  PROVE  RunInv'
<1> DEFINE n == node.name
           ms == [k \in {code[m].name : m \in Methods(pc)} |->
                    LoxFunction(Max({m \in Methods(pc) : code[m].name = k}), e)]
           X == LoxClass(<<[methods |-> ms]>> \o sup)
           F == envs'
<1>1. F = Defining(E, env, n, X) /\ pc' = After(pc) /\ UNCHANGED <<env, stack, value, raised>>
  BY DEF DeclareClass, Defining
<1>2. /\ pc # 0 /\ pc \in 1..Len(code) /\ code[pc].op = "class" /\ raised = None
      /\ Stands(envs, code, env, pc) /\ (stack # <<>> => Last(stack).kind # "loop")
      /\ code' = code /\ UNCHANGED resolverVars
  BY VisitingNow
<1>3. /\ WellFormed(code) /\ Complete(code) /\ EnvironmentsOK(envs, code) /\ StackOK(envs, code, stack, env)
      /\ ValueOK(envs, code, value) /\ env \in DOMAIN envs /\ DOMAIN code = 1..Len(code) /\ Fits(code, pc)
      /\ Len(code) \in Nat
  BY <1>2, RunNow
<1>4. n \in Name /\ n = code[pc].name
  BY <1>2, <1>3 DEF Fits, node
<1>5. X.kind = "class" /\ X.chain = <<[methods |-> ms]>> \o sup
  BY DEF LoxClass
<1>6. DOMAIN ms = {code[m].name : m \in Methods(pc)}
  OBVIOUS
<1>7. \A k \in DOMAIN ms : ms[k] = LoxFunction(Max({m \in Methods(pc) : code[m].name = k}), e)
  OBVIOUS
<1> HIDE DEF n, ms, X, F
<1>8. /\ env \in DOMAIN E /\ E[env] = envs[env]
      /\ E[env] = Environment(E[env].enclosing, E[env].values, E[env].at)
  BY <1>3 DEF Grows, EnvironmentsOK, EnvironmentOK
<1>9. /\ IsSeq(F) /\ F # <<>> /\ DOMAIN F = DOMAIN E
      /\ F[env] = Environment(E[env].enclosing, F[env].values, E[env].at)
      /\ F[env].enclosing = E[env].enclosing /\ F[env].at = E[env].at
      /\ DOMAIN F[env].values = DOMAIN E[env].values \cup {n} /\ F[env].values[n] = X
      /\ \A m \in DOMAIN E[env].values : m # n => F[env].values[m] = E[env].values[m]
      /\ \A i \in DOMAIN E : i # env => F[i] = E[i]
  BY <1>1, <1>8, DefiningIs
<1>10. Grows(E, F) /\ Grows(envs, F)
  <2>1. Grows(E, F)
    BY <1>1, <1>4, <1>8, DefiningGrows
  <2> QED BY <2>1, GrowsOn
<1>11. Stands(F, code, env, pc)
  BY <1>2, <1>10, StandsGrows
<1>12. Upto(F, code, env, pc + 1)
  <2> SUFFICES ASSUME NEW d \in 1..pc, code[d].op \in {"fun", "class", "define"}, F[env].at = Scope(code, d)
               PROVE  code[d].name \in DOMAIN F[env].values
    BY <1>2 DEF Upto
  <2>1. CASE d = pc
    BY <1>4, <1>9, <2>1
  <2>2. CASE d # pc
    <3>1. d \in 1..pc - 1
      BY <1>2, <2>2
    <3> QED BY <1>11, <3>1 DEF Stands, Upto
  <2> QED BY <2>1, <2>2
<1>13. e \in DOMAIN F /\ F[e].at = Outer(code, <<"this", pc>>)
  BY <1>9, <1>10 DEF Grows
<1>14. Upto(F, code, e, pc + 1)
  <2>1. CASE e = env
    BY <1>12, <2>1
  <2>2. CASE e # env
    <3> DEFINE kind == "super"
    <3>1. F[e].at = <<kind, pc>> /\ kind # "globals"
      <4>1. PICK v : SuperOf(E, v, e)
        BY <2>2
      <4>2. E[e].at = <<"super", pc>>
        BY <4>1 DEF SuperOf, Environment
      <4> QED BY <1>9, <2>2, <4>2
    <3> HIDE DEF kind
    <3>2. \A d \in 1..pc : Scope(code, d) # <<kind, pc>>
      BY <1>2, <1>3, <3>1, NothingYet
    <3>3. (pc + 1) - 1 = pc
      BY <1>2
    <3> QED BY <3>1, <3>2, <3>3 DEF Upto
  <2> QED BY <2>1, <2>2
<1>15. \A k \in DOMAIN ms : MethodOK(F, code, ms[k]) /\ ms[k].closure = e
  <2> TAKE k \in DOMAIN ms
  <2>1. Live(code, pc)
    BY <1>2 DEF Stands
  <2>2. ms[k] = LoxFunction(Max({m \in Methods(pc) : code[m].name = k}), e)
        /\ k \in {code[m].name : m \in Methods(pc)}
    BY <1>6, <1>7
  <2> DEFINE f == LoxFunction(Max({m \in Methods(pc) : code[m].name = k}), e)
  <2>3. Complete(code) /\ pc \in 1..Len(code) /\ code[pc].op = "class" /\ e \in DOMAIN F
    BY <1>2, <1>3, <1>13
  <2>4. MethodOK(F, code, f) /\ f.closure = e
    BY ONLY <1>13, <1>14, <2>1, <2>2, <2>3, MethodsOf
  <2> QED BY <2>2, <2>4
<1>16. F[e].at[1] = "super" => sup = F[e].values["super"].chain
  BY <1>10 DEF Grows, Special
<1>17. ChainOK(F, code, sup)
  BY <1>3, <1>10, HasSupers, ChainGrows
<1>18. ValueOK(F, code, X)
  <2>1. ChainOK(F, code, <<[methods |-> ms]>> \o sup)
    BY <1>15, <1>16, <1>17, ChainMore
  <2> QED BY <1>5, <2>1 DEF ValueOK
<1>19. \A i \in DOMAIN envs :
           /\ F[i] = Environment(F[i].enclosing, F[i].values, F[i].at)
           /\ \A m \in DOMAIN F[i].values :
                \/ m \in DOMAIN envs[i].values /\ F[i].values[m] = envs[i].values[m]
                \/ m \in Name /\ ValueOK(F, code, F[i].values[m])
  <2> TAKE i \in DOMAIN envs
  <2>1. CASE i = env
    BY <1>4, <1>8, <1>9, <1>18, <2>1
  <2>2. CASE i # env
    <3>1. i \in DOMAIN E /\ E[i] = envs[i] /\ envs[i] = Environment(envs[i].enclosing, envs[i].values, envs[i].at)
      BY <1>3 DEF Grows, EnvironmentsOK, EnvironmentOK
    <3>2. F[i] = envs[i]
      BY <1>9, <2>2, <3>1
    <3> QED BY <3>1, <3>2
  <2> QED BY <2>1, <2>2
<1>20. \A i \in DOMAIN F \ DOMAIN envs : EnvironmentOK(F, code, i)
  <2> TAKE i \in DOMAIN F \ DOMAIN envs
  <2>1. PICK v : SuperOf(E, v, i)
    BY <1>9
  <2>2. F[i] = E[i]
    BY <1>3, <1>9
  <2>3. SuperOf(F, v, i)
    BY <2>1, <2>2 DEF SuperOf
  <2> QED BY <1>2, <1>3, <1>10, <1>11, <1>12, <2>3, SuperIsOK
<1>21. EnvironmentsOK(F, code)
  BY <1>3, <1>9, <1>10, <1>19, <1>20, EnvironmentsGrow
<1>22. StackOK(F, code, stack, env) /\ ValueOK(F, code, value)
  BY <1>3, <1>10, StackGrows, ValueGrows, HasSupers
<1>23. Stands(F, code, env, Past(code, pc))
  <2>1. code[pc].op \in Nesting
    BY <1>2 DEF Nesting
  <2>2. code[pc].name \in DOMAIN F[env].values
    BY <1>4, <1>9
  <2> QED BY <1>2, <1>3, <1>11, <2>1, <2>2, StandsAfter
<1>24. RunOK'
  <2>1. pc' = Past(code, pc)
    BY <1>1, AfterIs
  <2> QED BY <1>1, <1>2, <1>21, <1>22, <1>23, <2>1, Runs DEF F
<1> QED BY <1>2, <1>24, RunKeeps

\* Classes, with and without a superclass.
LEMMA RunClassKeeps ==
  ASSUME RunInv, RunClass
  PROVE  RunInv'
<1>1. Visiting("class")
  BY DEF RunClass
<1>2. /\ pc # 0 /\ pc \in 1..Len(code) /\ code[pc].op = "class" /\ Stands(envs, code, env, pc)
      /\ code' = code /\ UNCHANGED resolverVars
  BY <1>1, VisitingNow
<1>3. /\ WellFormed(code) /\ EnvironmentsOK(envs, code) /\ IsSeq(envs) /\ env \in DOMAIN envs
      /\ DOMAIN envs = 1..Len(envs) /\ Len(envs) \in Nat /\ envs # <<>>
  <2>1. EnvironmentsOK(envs, code)
    BY <1>2, RunNow
  <2> QED BY <1>2, <2>1, RunNow DEF EnvironmentsOK
<1> DEFINE here == <<"this", pc>>
<1>4. here[1] = "this" /\ here[2] = pc
  OBVIOUS
<1>5. CASE node.arg = {}
  <2>1. DeclareClass(<<>>, env, envs)
    BY <1>5 DEF RunClass
  <2>2. envs[env].at = Outer(code, here)
    BY <1>2, <1>4, <1>5 DEF Stands, Outer, node
  <2>3. envs[env].at[1] # "super"
    <3>1. envs[env].at = Scope(code, pc) /\ pc \in 1..Len(code) + 1
      BY <1>2 DEF Stands
    <3> QED BY <1>3, <3>1, ScopeShape
  <2>4. ChainOK(envs, code, <<>>)
    <3>1. IsSeq(<<>>)
      BY DEF IsSeq
    <3> QED BY <3>1 DEF ChainOK
  <2>5. Grows(envs, envs)
    BY DEF Grows
  <2> HIDE DEF here
  <2> QED BY <1>1, <1>3, <2>1, <2>2, <2>3, <2>4, <2>5, ClassDeclared DEF here
<1>6. CASE node.arg # {}
  <2> DEFINE s == CHOOSE x \in node.arg : TRUE
             v == envs[Target].values[s]
             m == Len(envs) + 1
             E == Append(envs, Environment(env, Entry("super", v), <<"super", pc>>))
  <2>1. \/ ~Holding(s, Target) /\ Raise(Missing)
        \/ Raise("PloxRuntimeError")
        \/ Holding(s, Target) /\ v.kind = "class" /\ DeclareClass(v.chain, m, E)
    BY <1>6 DEF RunClass
  <2>2. s \in UsesOf(code, pc)
    BY <1>2, <1>6 DEF UsesOf, node
  <2> HIDE DEF s
  <2>3. /\ Target \in DOMAIN envs
        /\ s \notin DOMAIN envs[Target].values /\ pc \in DOMAIN locals => Misses(pc)
    BY <1>1, <2>2, LookUpNow
  <2>4. Target # 0
    BY <1>3, <2>3
  <2>5. CASE Raise("PloxRuntimeError")
    <3>1. RunOK'
      BY <1>2, <2>5, Raises
    <3> QED BY <1>2, <3>1, RunKeeps
  <2>6. CASE ~Holding(s, Target) /\ Raise(Missing)
    <3>1. s \notin DOMAIN envs[Target].values
      BY <2>4, <2>6 DEF Holding
    <3>2. Missing = "PloxRuntimeError" \/ (Missing = "PythonError" /\ Misses(pc))
      BY <2>3, <3>1 DEF Missing
    <3>3. RunOK'
      BY <1>2, <2>6, <3>2, Raises
    <3> QED BY <1>2, <3>3, RunKeeps
  <2>7. CASE Holding(s, Target) /\ v.kind = "class" /\ DeclareClass(v.chain, m, E)
    <3>1. ValueOK(envs, code, v)
      BY <1>3, <2>3, <2>7 DEF Holding, EnvironmentsOK, EnvironmentOK
    <3>2. DeclareClass(v.chain, m, E) /\ v.kind = "class"
      BY <2>7
    <3> HIDE DEF v
    <3>3. ChainOK(envs, code, v.chain)
      BY <3>1, <3>2, ValueIs
    <3>4. /\ IsSeq(E) /\ E # <<>> /\ DOMAIN E = 1..Len(envs) + 1
          /\ \A i \in DOMAIN envs : E[i] = envs[i]
          /\ E[m] = Environment(env, Entry("super", v), <<"super", pc>>)
      BY <1>3, OneMore
    <3>5. Grows(envs, E)
      BY <1>3, AppendGrows
    <3>6. E[m].at = <<"super", pc>> /\ E[m].values = Entry("super", v)
      BY <3>4 DEF Environment
    <3> HIDE DEF E
    <3>7. m \in DOMAIN E /\ m \notin DOMAIN envs /\ DOMAIN E \ DOMAIN envs = {m}
      BY <1>3, <3>4
    <3>8. SuperOf(E, v, m)
      <4>1. m # Globals /\ env \in 1..m - 1
        BY <1>3 DEF Globals
      <4> QED BY <3>1, <3>2, <3>4, <4>1 DEF SuperOf
    <3> HIDE DEF m
    <3>9. E[m].at = Outer(code, here)
      BY <1>4, <1>6, <3>6 DEF Outer, node
    <3>10. "super" \in DOMAIN E[m].values /\ v.chain = E[m].values["super"].chain
      BY <3>6 DEF Entry
    <3> HIDE DEF here
    <3>11. \A i \in DOMAIN E \ DOMAIN envs : \E w : SuperOf(E, w, i)
      BY <3>7, <3>8
    <3> QED BY <1>1, <3>2, <3>3, <3>4, <3>5, <3>7, <3>9, <3>10, <3>11, ClassDeclared DEF here
  <2> QED BY <2>1, <2>5, <2>6, <2>7
<1> QED BY <1>5, <1>6

\* A run starts at the first node, in the globals.
LEMMA InterpretKeeps ==
  ASSUME RunInv, Interpret
  PROVE  RunInv'
<1>1. /\ pc = 0 /\ ~had_error /\ open = <<>> /\ code # <<>> /\ pc' = 1
      /\ UNCHANGED resolverVars /\ UNCHANGED <<envs, env, stack, value, raised>>
  BY DEF Interpret
<1>2. /\ ResolverInv /\ envs = <<Environment(0, <<>>, Outside)>> /\ env = Globals
      /\ stack = <<>> /\ value = Nil /\ raised = None
  BY <1>1 DEF RunInv
<1>3. code' = code /\ open' = open /\ had_error' = had_error
  BY <1>1 DEF resolverVars, structure
<1>4. ResolverInv' /\ Whole'
  BY <1>1, <1>2, <1>3, ResolverRests DEF Whole
<1>5. WellFormed(code)
  BY <1>2 DEF ResolverInv
<1>6. code \in Seq(NodeType) /\ Len(code) \in Nat
  BY <1>5, TextIs
<1> DEFINE none == <<>>
           g == Environment(0, none, Outside)
           s == Outside
<1>7. g.enclosing = 0 /\ g.values = none /\ g.at = s /\ s[1] = "globals" /\ DOMAIN none = {}
  BY DEF Environment, Outside
<1>8. envs = <<g>> /\ DOMAIN envs = {1} /\ envs[1] = g
  BY <1>2
<1> HIDE DEF g, s, none
<1>9. IsSeq(envs) /\ envs # <<>>
  <2>1. <<g>> \in Seq({g})
    OBVIOUS
  <2>2. IsSeq(<<g>>)
    BY <2>1, SeqIs
  <2> QED BY <1>8, <2>2
<1>10. EnvironmentOK(envs, code, 1)
  <2>1. 1 = Globals /\ s = Outside /\ s[1] # "super" /\ s[1] # "this" /\ g = Environment(0, none, s)
    BY <1>7 DEF Globals, s, g
  <2> QED BY <1>7, <1>8, <2>1 DEF EnvironmentOK
<1>11. EnvironmentsOK(envs, code)
  BY <1>8, <1>9, <1>10 DEF EnvironmentsOK
<1>12. StackOK(envs, code, stack, env)
  <2>1. stack \in Seq(FrameType) /\ Len(stack) = 0 /\ DOMAIN stack = {}
    BY <1>2
  <2> QED BY <1>2, <2>1 DEF StackOK, Level
<1>13. Encl(code, 1) = {} /\ 1 \in 1..Len(code) + 1
  <2>1. 1 \in 1..Len(code) + 1
    BY <1>6
  <2>2. Encl(code, 1) \in SUBSET (1..1 - 1)
    BY <1>6, <2>1, EnclIs
  <2> QED BY <2>1, <2>2
<1>14. Stands(envs, code, env, pc')
  <2>1. Upto(envs, code, env, 1)
    BY DEF Upto
  <2>2. Live(code, 1)
    BY <1>13 DEF Live
  <2>3. envs[env].at = Scope(code, 1) /\ env \in DOMAIN envs
    BY <1>2, <1>7, <1>8, <1>13 DEF Scope, Globals, s
  <2> QED BY <1>1, <1>13, <2>1, <2>2, <2>3 DEF Stands
<1>15. ValueOK(envs, code, value)
  BY <1>2 DEF ValueOK, Nil
<1>16. RunOK'
  BY <1>1, <1>2, <1>3, <1>11, <1>12, <1>14, <1>15, Runs
<1> QED BY <1>1, <1>4, <1>16 DEF RunInv

\* The resolver at work leaves the interpreter alone.
LEMMA ResolveKeeps ==
  ASSUME RunInv, Resolve
  PROVE  RunInv'
<1>1. pc = 0 /\ ResolverNext /\ UNCHANGED <<envs, env, stack, pc, value, raised>>
  BY DEF Resolve, runVars
<1>2. ResolverInv
  BY DEF RunInv
<1>3. ResolverInv'
  BY <1>1, <1>2, ResolverVisits DEF ResolverNext
<1> QED BY <1>1, <1>3 DEF RunInv

\* Every step of the interpreter.
LEMMA StepKeeps ==
  ASSUME RunInv, Next
  PROVE  RunInv'
<1>1. CASE Resolve
  BY <1>1, ResolveKeeps
<1>2. CASE Interpret
  BY <1>2, InterpretKeeps
<1>3. CASE RunBlock
  BY <1>3, RunBlockKeeps DEF RunBlock
<1>4. CASE RunIf
  BY <1>4, RunBlockKeeps, SkipKeeps DEF RunIf
<1>5. CASE RunWhile
  BY <1>5, RunWhileKeeps, SkipKeeps DEF RunWhile
<1>6. CASE RunBreak \/ RunReturn \/ RunVar \/ RunDefine \/ RunFunction \/ RunAnonymous
  BY <1>6, RunBreakKeeps, RunReturnKeeps, RunVarKeeps, RunDefineKeeps, RunFunctionKeeps, RunAnonymousKeeps
<1>7. CASE RunVariable \/ RunAssign \/ RunClass \/ RunCall \/ RunGet \/ RunSuper
  BY <1>7, RunVariableKeeps, RunAssignKeeps, RunClassKeeps, RunCallKeeps, RunGetKeeps, RunSuperKeeps
<1>8. CASE EndOfBlock \/ EndOfBody
  BY <1>8, EndOfBlockKeeps, EndOfBodyKeeps
<1>9. CASE Unwind \/ ReportError
  <2>1. pc # 0
    <3>1. raised # None
      BY <1>9 DEF Unwind, ReportError, None
    <3> QED BY <3>1 DEF RunInv
  <2> QED BY <1>9, <2>1, UnwindKeeps, ReportErrorKeeps
<1> QED BY <1>1, <1>2, <1>3, <1>4, <1>5, <1>6, <1>7, <1>8, <1>9 DEF Next

\* Nothing happens.
LEMMA RestKeeps ==
  ASSUME RunInv, UNCHANGED vars
  PROVE  RunInv'
<1>1. UNCHANGED resolverVars /\ UNCHANGED <<envs, env, stack, pc, value, raised>>
  BY DEF vars, runVars
<1>2. code' = code /\ open' = open /\ had_error' = had_error
  BY <1>1 DEF resolverVars, structure
<1>3. ResolverInv'
  <2>1. ResolverInv
    BY DEF RunInv
  <2> QED BY <1>1, <2>1, ResolverRests
<1>4. pc # 0 => Whole' /\ RunOK'
  <2> SUFFICES ASSUME pc # 0 PROVE Whole' /\ RunOK'
    OBVIOUS
  <2>1. Whole /\ RunOK
    BY DEF RunInv
  <2>2. (raised = "PythonError" => Misses(pc))'
    BY <1>1, <1>2, <2>1 DEF RunOK, Misses
  <2> QED BY <1>1, <1>2, <2>1, <2>2 DEF Whole, RunOK
<1> QED BY <1>1, <1>3, <1>4 DEF RunInv

-----------------------------------------------------------------------------
(* What follows *)

\* The interpreter, run on what the resolver accepted, keeps its environments,
\* values and activations as the text has them, for programs of every length.
THEOREM RunIsSound == Spec => []RunInv
<1>1. Init => RunInv
  <2> SUFFICES ASSUME Init PROVE RunInv
    OBVIOUS
  <2>1. ResolverInv
    BY ResolverStarts DEF Init
  <2> QED BY <2>1 DEF Init, RunInv, Outside
<1>2. RunInv /\ [Next]_vars => RunInv'
  BY StepKeeps, RestKeeps
<1> QED BY <1>1, <1>2, PTL DEF Spec

\* Whenever a node runs.
LEMMA RunningNow ==
  ASSUME RunInv, Running
  PROVE  /\ pc # 0 /\ pc \in 1..Len(code) /\ raised = None
         /\ Stands(envs, code, env, pc) /\ Sound(code, locals, pc)
<1>1. pc \in DOMAIN code /\ raised = None
  BY DEF Running
<1>2. pc # 0
  <2>1. ASSUME pc = 0 PROVE FALSE
    <3>1. code \in Seq(NodeType)
      BY DEF RunInv, ResolverInv, WellFormed
    <3> QED BY <1>1, <2>1, <3>1
  <2> QED BY <2>1
<1>3. RunOK /\ DOMAIN code = 1..Len(code) /\ \A p \in 1..Len(code) : Sound(code, locals, p)
  BY <1>2, RunNow
<1>4. Stands(envs, code, env, pc)
  BY <1>1, <1>3 DEF RunOK
<1> QED BY <1>1, <1>2, <1>3, <1>4

\* The environments nest as the blocks, functions and classes of the text do,
\* whichever closure, method or turn of a loop runs.
THEOREM NestsAsTheText == Spec => []EnvironmentsNest
<1>1. RunInv => EnvironmentsNest
  <2> SUFFICES ASSUME RunInv PROVE EnvironmentsNest
    OBVIOUS
  <2>1. Running => envs[env].at = ScopeOf(pc)
    <3> SUFFICES ASSUME Running PROVE envs[env].at = ScopeOf(pc)
      OBVIOUS
    <3>1. pc # 0 /\ Stands(envs, code, env, pc)
      BY RunningNow
    <3>2. Complete(code)
      BY <3>1, RunNow
    <3>3. envs[env].at = Scope(code, pc) /\ pc \in 1..Len(code) + 1
      BY <3>1 DEF Stands
    <3>4. ScopeOf(pc) = Scope(code, pc)
      BY <3>2, <3>3, TextScopes
    <3> QED BY <3>3, <3>4
  <2>2. ASSUME NEW e \in DOMAIN envs \ {Globals}
        PROVE  envs[envs[e].enclosing].at = OuterScope(envs[e].at)
    <3>1. CASE pc = 0
      <4>1. envs = <<Environment(0, <<>>, Outside)>>
        BY <3>1 DEF RunInv
      <4>2. DOMAIN envs = {1}
        BY <4>1
      <4> QED BY <4>2 DEF Globals
    <3>2. CASE pc # 0
      <4>1. Complete(code) /\ EnvironmentsOK(envs, code) /\ DOMAIN code = 1..Len(code) /\ Len(code) \in Nat
        BY <3>2, RunNow
      <4> DEFINE s == envs[e].at
      <4>2. s[2] \in DOMAIN code /\ envs[envs[e].enclosing].at = Outer(code, s)
        BY <4>1 DEF EnvironmentsOK, EnvironmentOK
      <4> HIDE DEF s
      <4>3. s[2] \in 1..Len(code) + 1
        BY <4>1, <4>2
      <4>4. ScopeOf(s[2]) = Scope(code, s[2])
        BY <4>1, <4>3, TextScopes
      <4>5. OuterScope(s) = Outer(code, s)
        BY <4>4 DEF OuterScope, Outer
      <4> QED BY <4>2, <4>5 DEF s
    <3> QED BY <3>1, <3>2
  <2> QED BY <2>1, <2>2 DEF EnvironmentsNest
<1> QED BY <1>1, RunIsSound, PTL

\* Every name that a node looks up leads to the environment of the scope that
\* declares it in the text.
THEOREM ScopingIsLexical == Spec => []LookupsAreLexical
<1>1. RunInv => LookupsAreLexical
  <2> SUFFICES ASSUME RunInv, Running, NEW n \in Uses(pc)
               PROVE  Target # 0 /\ envs[Target].at = LexicalScope(n, pc)
    BY DEF LookupsAreLexical
  <2>1. pc # 0 /\ Stands(envs, code, env, pc) /\ Sound(code, locals, pc)
    BY RunningNow
  <2>2. /\ Complete(code) /\ WellFormed(code) /\ EnvironmentsOK(envs, code) /\ ResolverTypes
        /\ DOMAIN envs = 1..Len(envs) /\ Len(envs) \in Nat
    BY <2>1, RunNow
  <2>3. pc \in 1..Len(code) + 1
    BY <2>1 DEF Stands
  <2>4. Uses(pc) = UsesOf(code, pc) /\ LexicalScope(n, pc) = Lexical(code, n, pc)
    BY <2>2, <2>3, TextScopes
  <2>5. ResolvedAt(code, locals, pc, n)
    BY <2>1, <2>4 DEF Sound
  <2>6. Target \in DOMAIN envs /\ envs[Target].at = Lexical(code, n, pc)
    BY <2>1, <2>2, <2>5, Reached
  <2> QED BY <2>2, <2>4, <2>6
<1> QED BY <1>1, RunIsSound, PTL

\* The only name that Python misses is one used in its own initializer.
THEOREM OnlyInitializersMiss == Spec => []MissesInInitializer
<1>1. RunInv => MissesInInitializer
  <2> SUFFICES ASSUME RunInv, raised = "PythonError"
               PROVE  \E n \in Uses(pc), i, j \in DOMAIN code :
                        /\ code[i].op = "var" /\ code[i].name = n /\ i < pc /\ pc < j
                        /\ code[j].op = "define" /\ code[j].at = i /\ ScopeOf(i) = LexicalScope(n, pc)
    BY DEF MissesInInitializer
  <2>1. pc # 0
    BY DEF RunInv, None
  <2>2. RunOK /\ Complete(code) /\ DOMAIN code = 1..Len(code) /\ Len(code) \in Nat
    BY <2>1, RunNow
  <2>3. pc \in 1..Len(code) + 1 /\ Misses(pc)
    BY <2>2 DEF RunOK
  <2>4. PICK n \in UsesOf(code, pc), i \in DOMAIN code, j \in DOMAIN code :
          /\ code[i].op = "var" /\ code[i].name = n /\ i < pc /\ pc < j
          /\ code[j].op = "define" /\ code[j].at = i /\ Scope(code, i) = Lexical(code, n, pc)
    BY <2>3 DEF Misses
  <2>5. Uses(pc) = UsesOf(code, pc) /\ LexicalScope(n, pc) = Lexical(code, n, pc)
    BY <2>2, <2>3, TextScopes
  <2>6. ScopeOf(i) = Scope(code, i)
    <3>1. i \in 1..Len(code) + 1
      BY <2>2, <2>4
    <3> QED BY <2>2, <3>1, TextScopes
  <2> QED BY <2>4, <2>5, <2>6
<1> QED BY <1>1, RunIsSound, PTL

\* What the resolver says never runs does not, and what it calls unused is not used.
THEOREM WarningsAreTrue == Spec => []WarningsTrue
<1>1. RunInv => WarningsTrue
  <2> SUFFICES ASSUME RunInv, Running, NEW w \in warnings
               PROVE  /\ w.about = "unreachable" => w.at # pc
                      /\ w.about = "unused" => ~(w.name \in Uses(pc) /\ Target # 0
                                                 /\ envs[Target].at = <<"body", w.at>>)
    BY DEF WarningsTrue
  <2>1. pc # 0 /\ pc \in 1..Len(code) /\ Stands(envs, code, env, pc) /\ Sound(code, locals, pc)
    BY RunningNow
  <2>2. /\ Complete(code) /\ WellFormed(code) /\ EnvironmentsOK(envs, code) /\ ResolverTypes
        /\ DOMAIN code = 1..Len(code) /\ Len(code) \in Nat /\ Accepted
    BY <2>1, RunNow
  <2>3. Warned(code, w)
    BY <2>2 DEF Accepted
  <2>4. ASSUME w.about = "unreachable" PROVE w.at # pc
    <3>1. w.at \in 2..Len(code) /\ code[w.at - 1].op = "return"
      BY <2>3, <2>4 DEF Warned
    <3>2. pc > 1 => code[pc - 1].op # "return"
      BY <2>1 DEF Stands, Live
    <3>3. w.at > 1
      BY <3>1
    <3> QED BY <3>1, <3>2, <3>3
  <2>5. ASSUME w.about = "unused", w.name \in Uses(pc)
        PROVE  envs[Target].at # <<"body", w.at>>
    <3> DEFINE n == w.name
    <3>1. pc \in 1..Len(code) + 1
      BY <2>1 DEF Stands
    <3>2. n \in UsesOf(code, pc)
      BY <2>2, <2>5, <3>1, TextScopes
    <3>3. ResolvedAt(code, locals, pc, n)
      BY <2>1, <3>2 DEF Sound
    <3>4. envs[Target].at = Lexical(code, n, pc)
      BY <2>1, <2>2, <3>3, Reached
    <3>5. Lexical(code, n, pc) # <<"body", w.at>>
      BY <2>1, <2>2, <2>3, <2>5, <3>2 DEF Warned
    <3> QED BY <3>4, <3>5
  <2> QED BY <2>4, <2>5
<1> QED BY <1>1, RunIsSound, PTL

\* super is found where the text has it, however far down the receiver inherits.
THEOREM SuperIsLexical == Spec => []SuperIsStatic
<1>1. RunInv => SuperIsStatic
  <2> SUFFICES ASSUME RunInv, Running, node.op = "super"
               PROVE  /\ pc \in DOMAIN locals /\ locals[pc] > 0
                      /\ Holding("super", SuperAt) /\ Holding("this", ThisAt)
                      /\ LET chain == envs[ThisAt].values["this"].klass.chain
                         IN \E i \in DOMAIN chain :
                              /\ \E k \in DOMAIN chain[i].methods : chain[i].methods[k].closure = SuperAt
                              /\ SubSeq(chain, i + 1, Len(chain)) = envs[SuperAt].values["super"].chain
    BY DEF SuperIsStatic
  <2>1. /\ pc # 0 /\ pc \in 1..Len(code) /\ Stands(envs, code, env, pc) /\ Sound(code, locals, pc)
    BY RunningNow
  <2>2. /\ Complete(code) /\ EnvironmentsOK(envs, code) /\ ResolverTypes /\ DOMAIN code = 1..Len(code)
    BY <2>1, RunNow
  <2>3. Lexical(code, "super", pc) # Outside /\ ResolvedAt(code, locals, pc, "super")
    <3>1. "super" \in UsesOf(code, pc) /\ code[pc].op = "super"
      BY DEF UsesOf, node
    <3> QED BY <2>1, <3>1 DEF Sound
  <2>4. pc \in DOMAIN code
    BY <2>1, <2>2
  <2> QED BY <2>1, <2>2, <2>3, <2>4, SupersMeet
<1> QED BY <1>1, RunIsSound, PTL

\* Every way out of a block or a call restores the environment, and a return
\* always finds the call that it leaves.
THEOREM UnwindsToGlobals == Spec => []Unwound
<1>1. RunInv => Unwound
  <2> SUFFICES ASSUME RunInv PROVE Unwound
    OBVIOUS
  <2>1. CASE pc = 0
    BY <2>1 DEF RunInv, Unwound, None
  <2>2. CASE pc # 0
    <3>1. RunOK
      BY <2>2 DEF RunInv
    <3>2. stack = <<>> => env = Globals
      <4> SUFFICES ASSUME stack = <<>> PROVE env = Globals
        OBVIOUS
      <4>1. Len(stack) = 0
        OBVIOUS
      <4>2. Level(stack, env, 0) = Globals
        BY <3>1 DEF RunOK, StackOK
      <4> QED BY <4>1, <4>2 DEF Level
    <3> QED BY <3>1, <3>2 DEF RunOK, Unwound
  <2> QED BY <2>1, <2>2
<1> QED BY <1>1, RunIsSound, PTL

\* The shapes of what the interpreter and the resolver keep.
THEOREM RunTypes == Spec => []TypeOK
<1>1. RunInv => TypeOK
  <2> SUFFICES ASSUME RunInv PROVE TypeOK
    OBVIOUS
  <2>1. ResolverTypes /\ Counts /\ WellFormed(code)
    BY DEF RunInv, ResolverInv
  <2>2. Len(code) \in Nat
    BY <2>1, TextIs
  <2>3. \A p \in DOMAIN locals : p \in DOMAIN code /\ locals[p] \in 0..2 * p
    BY <2>1 DEF ResolverTypes
  <2>4. /\ env \in DOMAIN envs /\ pc \in 0..Len(code) + 1
        /\ \A e \in DOMAIN envs : envs[e].enclosing \in 0..e - 1
        /\ \A i \in DOMAIN stack : /\ stack[i].kind \in {"block", "loop", "call"}
                                  /\ stack[i].previous \in DOMAIN envs /\ stack[i].this \in 0..Len(envs)
    <3>1. CASE pc = 0
      <4>1. envs = <<Environment(0, <<>>, Outside)>> /\ env = Globals /\ stack = <<>>
        BY <3>1 DEF RunInv
      <4>2. DOMAIN envs = {1} /\ envs[1].enclosing = 0 /\ DOMAIN stack = {}
        BY <4>1 DEF Environment
      <4> QED BY <2>2, <3>1, <4>1, <4>2 DEF Globals
    <3>2. CASE pc # 0
      <4>1. /\ RunOK /\ EnvironmentsOK(envs, code) /\ StackOK(envs, code, stack, env)
            /\ stack \in Seq(FrameType) /\ DOMAIN envs = 1..Len(envs) /\ Len(envs) \in Nat
            /\ env \in DOMAIN envs
        BY <3>2, RunNow
      <4>2. pc \in 0..Len(code) + 1
        <5>1. pc \in 1..Len(code) + 1
          BY <4>1 DEF RunOK
        <5> QED BY <2>2, <5>1
      <4>3. ASSUME NEW e \in DOMAIN envs PROVE envs[e].enclosing \in 0..e - 1
        <5>1. e = Globals => envs[e].enclosing = 0
          BY <4>1 DEF EnvironmentsOK, EnvironmentOK
        <5>2. e # Globals => envs[e].enclosing \in 1..e - 1
          BY <4>1 DEF EnvironmentsOK, EnvironmentOK
        <5> QED BY <4>1, <5>1, <5>2 DEF Globals
      <4>4. ASSUME NEW i \in DOMAIN stack
            PROVE  /\ stack[i].kind \in {"block", "loop", "call"}
                   /\ stack[i].previous \in DOMAIN envs /\ stack[i].this \in 0..Len(envs)
        <5>1. i \in 1..Len(stack) /\ Len(stack) \in Nat /\ stack[i] \in FrameType
          <6>1. i \in 1..Len(stack) /\ Len(stack) \in Nat
            BY <4>1, LenProperties
          <6> QED BY <4>1, <6>1, ElementOfSeq
        <5>2. FrameOK(envs, code, stack, env, i)
          BY <4>1 DEF StackOK
        <5>3. Level(stack, env, i - 1) = stack[i].previous
          <6>1. i - 1 # Len(stack) /\ (i - 1) + 1 = i
            BY <5>1
          <6> QED BY <6>1 DEF Level
        <5>4. stack[i].previous \in DOMAIN envs /\ (stack[i].this # 0 => stack[i].this \in DOMAIN envs)
          BY <5>2, <5>3 DEF FrameOK
        <5> QED BY <4>1, <5>1, <5>4 DEF FrameType
      <4> QED BY <4>1, <4>2, <4>3, <4>4
    <3> QED BY <3>1, <3>2
  <2> QED BY <2>1, <2>3, <2>4 DEF TypeOK, Counts, Nesting
<1> QED BY <1>1, RunIsSound, PTL

=============================================================================
