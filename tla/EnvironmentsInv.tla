-------------------------- MODULE EnvironmentsInv --------------------------
(***************************************************************************)
(* The inductive invariant of Environments.tla, in named parts: what holds *)
(* of the environments, the values and the activations when a program runs *)
(* that the resolver accepted.  EnvironmentsProofs.tla proves it.          *)
(***************************************************************************)
EXTENDS Environments, ResolverInv

IsSeq(s) == s \in Seq({s[i] : i \in DOMAIN s})

\* Every declaration of e's scope before q has given e its name.
Upto(E, c, e, q) ==
  \A d \in 1..q - 1 :
    c[d].op \in {"fun", "class", "define"} /\ E[e].at = Scope(c, d) => c[d].name \in DOMAIN E[e].values

\* Neither p nor what it is in comes right after a return.
Live(c, p) == \A j \in Encl(c, p) \cup {p} : j > 1 => c[j - 1].op # "return"

\* e is an environment in which node p may run.
Stands(E, c, e, p) ==
  /\ p \in 1..Len(c) + 1 /\ e \in DOMAIN E
  /\ E[e].at = Scope(c, p) /\ Upto(E, c, e, p) /\ Live(c, p)

FunctionOK(E, c, f) ==
  /\ f.at \in DOMAIN c /\ c[f.at].op \in Bodies
  /\ Stands(E, c, f.closure, f.at) /\ Upto(E, c, f.closure, f.at + 1)

\* A method of a class, before it is bound.
MethodOK(E, c, f) ==
  /\ f.kind = "function" /\ f.at \in DOMAIN c /\ c[f.at].op \in {"method", "getter"}
  /\ f.closure \in DOMAIN E /\ E[f.closure].at = Outer(c, Scope(c, f.at))
  /\ Upto(E, c, f.closure, Inmost(c, f.at) + 1) /\ Live(c, f.at)

\* A method that closes over a superclass closes over the rest of the chain.
ChainOK(E, c, chain) ==
  /\ IsSeq(chain)
  /\ \A i \in DOMAIN chain : \A k \in DOMAIN chain[i].methods :
       LET f == chain[i].methods[k] IN
       /\ MethodOK(E, c, f)
       /\ E[f.closure].at[1] = "super" =>
            SubSeq(chain, i + 1, Len(chain)) = E[f.closure].values["super"].chain

ValueOK(E, c, v) ==
  \/ v.kind = "nil"
  \/ v.kind = "function" /\ FunctionOK(E, c, v)
  \/ v.kind = "class" /\ ChainOK(E, c, v.chain)
  \/ v.kind = "instance" /\ v.klass.kind = "class" /\ ChainOK(E, c, v.klass.chain)

EnvironmentOK(E, c, e) ==
  LET s == E[e].at IN
  /\ E[e] = Environment(E[e].enclosing, E[e].values, E[e].at)
  /\ \A n \in DOMAIN E[e].values : n \in Name \cup Special /\ ValueOK(E, c, E[e].values[n])
  /\ IF e = Globals THEN E[e].enclosing = 0 /\ s = Outside
     ELSE /\ E[e].enclosing \in 1..e - 1
          /\ s[2] \in DOMAIN c /\ c[s[2]].op \in Nesting
          /\ IF c[s[2]].op = "class" THEN s \in {<<"this", s[2]>>, <<"super", s[2]>>}
                                     ELSE s = <<"body", s[2]>>
          /\ E[E[e].enclosing].at = Outer(c, s) /\ Upto(E, c, E[e].enclosing, s[2] + 1)
          /\ c[s[2]].op \in Bodies => c[s[2]].arg \subseteq DOMAIN E[e].values
  /\ s[1] = "super" => "super" \in DOMAIN E[e].values /\ E[e].values["super"].kind = "class"
  /\ s[1] = "this" =>
       /\ "this" \in DOMAIN E[e].values /\ E[e].values["this"].kind = "instance"
       /\ LET chain == E[e].values["this"].klass.chain
          IN \E i \in DOMAIN chain : \E k \in DOMAIN chain[i].methods :
               chain[i].methods[k].closure = E[e].enclosing

\* Where a node that holds others has been passed.
Past(c, j) == 1 + CHOOSE i \in DOMAIN c : c[i].op = "end" /\ c[i].at = j

\* The environment above k of the activations st, e being the one above all of them.
Level(st, e, k) == IF k = Len(st) THEN e ELSE st[k + 1].previous

FrameType == [kind : {"block", "loop", "call"}, previous : Nat, resume : Nat, this : Nat]

BlockOK(E, c, st, e, k) ==
  LET s == E[Level(st, e, k)].at IN
  /\ s = <<"body", s[2]>> /\ s[2] \in DOMAIN c /\ c[s[2]].op \in {"block", "if", "while"}
  /\ Stands(E, c, Level(st, e, k - 1), s[2])
  /\ (c[s[2]].op = "while" <=> k > 1 /\ st[k - 1].kind = "loop")

LoopOK(E, c, st, e, k) ==
  /\ Level(st, e, k) = Level(st, e, k - 1)
  /\ \E j \in DOMAIN c :
       /\ c[j].op = "while" /\ st[k].resume = Past(c, j)
       /\ Stands(E, c, Level(st, e, k - 1), j)
       /\ k < Len(st) => st[k + 1].kind = "block" /\ E[Level(st, e, k + 1)].at = <<"body", j>>

CallOK(E, c, st, e, k) ==
  LET s == E[Level(st, e, k)].at IN
  /\ s = <<"body", s[2]>> /\ s[2] \in DOMAIN c /\ c[s[2]].op \in Bodies
  /\ st[k].resume - 1 \in DOMAIN c /\ c[st[k].resume - 1].op \in {"call", "get"}
  /\ Stands(E, c, Level(st, e, k - 1), st[k].resume - 1)

FrameOK(E, c, st, e, k) ==
  /\ Level(st, e, k) \in DOMAIN E /\ Level(st, e, k - 1) \in DOMAIN E
  /\ st[k].kind = "block" => BlockOK(E, c, st, e, k)
  /\ st[k].kind = "loop" => LoopOK(E, c, st, e, k)
  /\ st[k].kind = "call" => CallOK(E, c, st, e, k)
  /\ st[k].this # 0 => st[k].this \in DOMAIN E /\ E[st[k].this].at[1] = "this"

StackOK(E, c, st, e) ==
  /\ st \in Seq(FrameType)
  /\ Level(st, e, 0) = Globals
  /\ \A k \in DOMAIN st : FrameOK(E, c, st, e, k)

Misses(p) ==
  \E n \in UsesOf(code, p), i, j \in DOMAIN code :
    /\ code[i].op = "var" /\ code[i].name = n /\ i < p /\ p < j
    /\ code[j].op = "define" /\ code[j].at = i /\ Scope(code, i) = Lexical(code, n, p)

\* A program that the resolver is done with.
Whole == open = <<>> /\ ~had_error

EnvironmentsOK(E, c) == IsSeq(E) /\ E # <<>> /\ \A e \in DOMAIN E : EnvironmentOK(E, c, e)

RunOK ==
  /\ EnvironmentsOK(envs, code)
  /\ StackOK(envs, code, stack, env) /\ env \in DOMAIN envs
  /\ ValueOK(envs, code, value)
  /\ raised \in {None, "break", "return", "PythonError", "PloxRuntimeError", "reported"}
  /\ pc \in 1..Len(code) + 1
  /\ raised = None => /\ Stands(envs, code, env, pc)
                      /\ stack # <<>> => Last(stack).kind # "loop"
  /\ raised = "return" => \E k \in DOMAIN stack : stack[k].kind = "call"
  /\ raised = "PythonError" => Misses(pc)

RunInv ==
  /\ ResolverInv
  /\ pc = 0 => /\ envs = <<Environment(0, <<>>, Outside)>> /\ env = Globals
               /\ stack = <<>> /\ value = Nil /\ raised = None
  /\ pc # 0 => Whole /\ RunOK
=============================================================================
