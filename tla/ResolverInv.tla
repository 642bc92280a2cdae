---------------------------- MODULE ResolverInv ----------------------------
(***************************************************************************)
(* The inductive invariant of Resolver.tla, in named parts: what holds of  *)
(* the text while it is walked, of the stacks, and of the distances and    *)
(* warnings that come of them.  ResolverProofs.tla proves it.              *)
(*                                                                         *)
(* What depends on the text takes it as an argument, c, with the place p   *)
(* that is asked about, and looks at no node from there on: it stays true  *)
(* as nodes follow.  Environments.tla's Around, ScopeOf and so on agree    *)
(* with it on a whole program.                                             *)
(***************************************************************************)
EXTENDS Resolver

Nesting == Bodies \cup {"block", "if", "while", "class"}
Outside == <<"globals", 0>>

Closed(c, j, p) == \E e \in 1..p - 1 : c[e].op = "end" /\ c[e].at = j

\* The nodes that place p is inside of, the innermost, and the scope p is in.
Encl(c, p)   == {j \in 1..p - 1 : c[j].op \in Nesting /\ ~Closed(c, j, p)}
Inmost(c, p) == Max(Encl(c, p))
ScopeAt(c, j) == <<IF c[j].op = "class" THEN "this" ELSE "body", j>>
Scope(c, p)  == IF Encl(c, p) = {} THEN Outside ELSE ScopeAt(c, Inmost(c, p))

Outer(c, s) == IF s[1] = "this" /\ c[s[2]].arg # {} THEN <<"super", s[2]>> ELSE Scope(c, s[2])

\* A declaration of n directly in scope s, before p.
DeclaredIn(c, s, n, p) ==
  IF s[1] = "body"
  THEN \/ c[s[2]].op \in Bodies /\ n \in c[s[2]].arg
       \/ \E j \in s[2] + 1..p - 1 : /\ c[j].op \in {"var", "fun", "class"} /\ c[j].name = n
                                     /\ Inmost(c, j) = s[2]
  ELSE n = s[1]

Binds(c, i, n, p) ==
  \/ n = "this" /\ c[i].op = "class"
  \/ n = "super" /\ c[i].op = "class" /\ c[i].arg # {}
  \/ c[i].op # "class" /\ DeclaredIn(c, <<"body", i>>, n, p)

Lexical(c, n, p) ==
  LET holders == {i \in Encl(c, p) : Binds(c, i, n, p)}
  IN IF holders = {} THEN Outside ELSE <<IF n \in Special THEN n ELSE "body", Max(holders)>>

UsesOf(c, p) ==
  CASE c[p].op \in {"variable", "assign", "this"} -> {c[p].name}
    [] c[p].op = "super" -> {"super"}
    [] c[p].op = "class" -> c[p].arg
    [] OTHER -> {}

-----------------------------------------------------------------------------
(* The resolver *)

Leaves == {"break", "return", "define", "variable", "this", "super", "call", "get", "assign"}

NodeType == [op : Nesting \cup Leaves \cup {"var", "end"},
             name : Name \cup Member \cup {None, "this"},
             arg : SUBSET (Name \cup {"value", "argument"}), at : Nat]

OpenType == [op : Nesting \cup {"var"}, name : Name \cup Member \cup {None, "this"},
             at : Nat, warned : BOOLEAN]

ScopeTypes == UNION {[D -> [defined : BOOLEAN, accessed : BOOLEAN]] : D \in SUBSET (Name \cup Special)}

ResolverTypes ==
  /\ open \in Seq(OpenType)
  /\ scopes \in Seq(ScopeTypes)
  /\ return_scopes \in Seq(BOOLEAN) /\ return_scopes # <<>>
  /\ loop_scopes \in Seq({"NONE", "WHILE"}) /\ loop_scopes # <<>>
  /\ class_scopes \in Seq({"NONE", "CLASS", "SUBCLASS"}) /\ class_scopes # <<>>
  /\ class_scopes[1] = "NONE"
  /\ function_scopes \in Seq({"NONE", "FUNCTION", "METHOD", "GETTER", "INITIALIZER"})
  /\ function_scopes # <<>> /\ function_scopes[1] = "NONE"
  /\ mid \in BOOLEAN /\ had_error \in BOOLEAN
  /\ mid => Inner # "class"
  /\ \A p \in DOMAIN locals : p \in DOMAIN code /\ locals[p] \in 0..2 * p

\* Every end closes the node around it, only classes hold methods, and only those.
Fits(c, p) ==
  /\ c[p].op = "end" => Encl(c, p) # {} /\ c[p].at = Inmost(c, p)
  /\ c[p].op \notin {"end", "method", "getter"} /\ Encl(c, p) # {} => c[Inmost(c, p)].op # "class"
  /\ c[p].op \in {"method", "getter"} => Encl(c, p) # {} /\ c[Inmost(c, p)].op = "class"
  /\ c[p].op \in {"var", "define", "fun", "class", "variable", "assign"} => c[p].name \in Name
  /\ c[p].op = "this" => c[p].name = "this"
  /\ c[p].op \in Bodies \cup {"class"} => c[p].arg \subseteq Name

WellFormed(c) == c \in Seq(NodeType) /\ \A p \in DOMAIN c : Fits(c, p)

\* What is open is around the next node, variables in their initializers apart.
OpenHolds(o, k) == {o[i].at : i \in {j \in 1..k : o[j].op # "var"}}

Linked(c, o) ==
  /\ \A i \in DOMAIN o :
       /\ o[i].at \in DOMAIN c /\ c[o[i].at].op = o[i].op /\ c[o[i].at].name = o[i].name
       /\ Encl(c, o[i].at) = OpenHolds(o, i - 1)
       /\ o[i].op = "var" /\ i > 1 => o[i - 1].op \notin {"var", "class"}
       /\ \A k \in 1..i - 1 : o[k].at < o[i].at
  /\ Encl(c, Len(c) + 1) = OpenHolds(o, Len(o))
  /\ \A v \in DOMAIN c : c[v].op = "var" =>
       \/ \E i \in DOMAIN o : o[i].at = v
       \/ \E d \in v + 1..Len(c) : /\ c[d].op = "define" /\ c[d].at = v
                                   /\ c[d].name = c[v].name /\ Encl(c, d) = Encl(c, v)

\* The stacks are as high as the nodes that pushed them.
Counts ==
  /\ Len(scopes) = OpenNodes(Nesting) + OpenSubclasses /\ Len(scopes) <= 2 * Len(code)
  /\ Len(return_scopes) = 1 + Len(scopes) + OpenNodes({"if", "while"})
  /\ Len(loop_scopes) = 1 + OpenNodes({"while"})
  /\ Len(function_scopes) = 1 + OpenNodes(Bodies)
  /\ Len(class_scopes) = 1 + OpenNodes({"class"})

\* ids names the scopes around p, each inside the one below it.
Shaped(c, p, ids) ==
  /\ ids \in Seq({"body", "this", "super"} \X Nat)
  /\ Scope(c, p) = IF ids = <<>> THEN Outside ELSE ids[Len(ids)]
  /\ \A k \in DOMAIN ids :
       /\ Outer(c, ids[k]) = IF k = 1 THEN Outside ELSE ids[k - 1]
       /\ ids[k][2] \in Encl(c, p)
       /\ (ids[k][1] = "body" <=> c[ids[k][2]].op # "class")
       /\ ids[k][1] = "super" => c[ids[k][2]].arg # {}
  /\ \A k, l \in DOMAIN ids : k < l => ids[k] # ids[l] /\ ids[k][2] <= ids[l][2]
  /\ \A i \in Encl(c, p) :
       /\ \E k \in DOMAIN ids : ids[k] = ScopeAt(c, i)
       /\ c[i].op = "class" /\ c[i].arg # {} => \E k \in DOMAIN ids : ids[k] = <<"super", i>>

\* Each scope holds what the text declares in it before p, and a name that is not
\* accessed is one that no node before p leads to.
Named(c, p, ss, ids) ==
  /\ Len(ss) = Len(ids)
  /\ \A k \in DOMAIN ids :
       /\ DOMAIN ss[k] = {n \in Name \cup Special : DeclaredIn(c, ids[k], n, p)}
       /\ \A n \in DOMAIN ss[k], q \in 1..p - 1 :
            ~ss[k][n].accessed /\ n \in UsesOf(c, q) => Lexical(c, n, q) # ids[k]

\* The scopes from that of p outward, the last at the distance d.
Path(c, p, d, path) ==
  /\ path[0] = Scope(c, p)
  /\ \A k \in 1..d : /\ path[k - 1] # Outside /\ path[k - 1][2] \in Encl(c, p)
                     /\ path[k] = Outer(c, path[k - 1])

ResolvedAt(c, ls, p, n) ==
  IF p \in DOMAIN ls
  THEN \E path : Path(c, p, ls[p], path) /\ path[ls[p]] = Lexical(c, n, p) /\ path[ls[p]] # Outside
  ELSE Lexical(c, n, p) = Outside

\* classes are the ones around p, whose kinds class_scopes tells.
Classed(c, p, cs, classes) ==
  /\ classes \in Seq(Nat) /\ Len(cs) = 1 + Len(classes)
  /\ \A k \in DOMAIN classes : (cs[k + 1] = "SUBCLASS" <=> c[classes[k]].arg # {})
  /\ \A k, l \in DOMAIN classes : k < l => classes[k] < classes[l]
  /\ {classes[k] : k \in DOMAIN classes} = {j \in Encl(c, p) : c[j].op = "class"}

\* The return scopes of node j, and the one in which the nodes at p return.
Width(c, j) == IF c[j].op \in {"if", "while"} \/ (c[j].op = "class" /\ c[j].arg # {}) THEN 2 ELSE 1
TopReturn(c, p) == IF Encl(c, p) = {} THEN <<0, 0>> ELSE <<Width(c, Inmost(c, p)), Inmost(c, p)>>

\* rets names the return scopes around p.
Returning(c, p, rets) ==
  /\ rets \in Seq((0..2) \X Nat) /\ rets # <<>>
  /\ rets[Len(rets)] = TopReturn(c, p) /\ rets[1] = <<0, 0>>
  /\ \A k \in 2..Len(rets) :
       /\ rets[k][2] \in Encl(c, p) /\ rets[k][1] \in 1..Width(c, rets[k][2])
       /\ rets[k - 1] = IF rets[k][1] = 2 THEN <<1, rets[k][2]>> ELSE TopReturn(c, rets[k][2])
  /\ \A k, l \in DOMAIN rets : k < l => rets[k] # rets[l]

\* A scope with a return in it has been warned about, unless that is the last node.
Watched(c, o, m, rs, rets) ==
  /\ Len(rets) = Len(rs)
  /\ \A k \in DOMAIN rets : rs[k] =>
       /\ rets[k][1] = Width(c, rets[k][2])
       /\ \E i \in DOMAIN o : /\ o[i].at = rets[k][2]
                              /\ o[i].warned \/ (i = Len(o) /\ c[Len(c)].op = "return" /\ ~m)

\* An unreachable node follows a return; an unused name is one that no node leads to.
Warned(c, w) ==
  /\ w.about = "unreachable" => w.at \in 2..Len(c) /\ c[w.at - 1].op = "return"
  /\ w.about = "unused" =>
       /\ w.at \in 1..Len(c) /\ w.at \notin Encl(c, Len(c) + 1)
       /\ \A p \in DOMAIN c : w.name \in UsesOf(c, p) => Lexical(c, w.name, p) # <<"body", w.at>>

\* What the resolver has accepted of node p.
Sound(c, ls, p) ==
  /\ c[p].op = "return" => \E j \in Encl(c, p) : c[j].op \in Bodies
  /\ c[p].op = "super" => Lexical(c, "super", p) # Outside
  /\ \A n \in UsesOf(c, p) : ResolvedAt(c, ls, p, n)

Accepted ==
  /\ \A p \in DOMAIN code : Sound(code, locals, p)
  /\ \E ids : Shaped(code, Here, ids) /\ Named(code, Here, scopes, ids)
  /\ \E classes : Classed(code, Here, class_scopes, classes)
  /\ \E rets : Returning(code, Here, rets) /\ Watched(code, open, mid, return_scopes, rets)
  /\ \A w \in warnings : Warned(code, w)

ResolverInv ==
  /\ ResolverTypes /\ Counts
  /\ WellFormed(code)
  /\ Linked(code, open)
  /\ ~had_error => Accepted
=============================================================================
