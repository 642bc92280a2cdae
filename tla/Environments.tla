---------------------------- MODULE Environments ----------------------------
(***************************************************************************)
(* How plox runs what Resolver.tla let through: interpreter.py walks the   *)
(* same nodes again, makes an Environment for each block, call and bound   *)
(* method, follows enclosing as many times as the resolver counted, and    *)
(* leaves blocks, calls and loops by Python's exceptions.                  *)
(*                                                                         *)
(* pc is the node being visited, 0 while the resolver is at work; stack    *)
(* holds the activations of Python's methods that have something to        *)
(* restore or to catch, and value what the last expression came to.        *)
(* Conditions are true or false as they like.                              *)
(*                                                                         *)
(* Abstracted: operators, literals and printing; fields of instances.      *)
(***************************************************************************)
EXTENDS Resolver

CONSTANTS MaxEnvironments, MaxFrames    \* bound the run

ASSUME EnvironmentsAssumption == MaxEnvironments \in Nat \ {0} /\ MaxFrames \in Nat \ {0}

VARIABLES
  envs,     \* the Environments made: [enclosing, values, at], at being the node that made it
  env,      \* self.env
  stack,    \* [kind, previous, resume, this]
  pc,
  value,
  raised    \* the exception on its way up, or none

runVars == <<envs, env, stack, pc, value, raised>>
vars    == <<resolverVars, runVars>>

Globals == 1     \* self.globals
Nil     == [kind |-> "nil"]

Environment(parent, values, at) == [enclosing |-> parent, values |-> values, at |-> at]

Init == /\ ResolverInit
        /\ envs = <<Environment(0, <<>>, <<"globals", 0>>)>> /\ env = Globals
        /\ stack = <<>> /\ pc = 0 /\ value = Nil /\ raised = None

-----------------------------------------------------------------------------
(* Values.  A LoxFunction is its declaration and its closure; a LoxClass is *)
(* the chain of its methods and its superclasses', its own first.          *)

LoxFunction(at, closure) == [kind |-> "function", at |-> at, closure |-> closure]
LoxClass(chain)          == [kind |-> "class", chain |-> chain]
LoxInstance(klass)       == [kind |-> "instance", klass |-> klass]

node == code[pc]

After(i) == 1 + CHOOSE j \in DOMAIN code : code[j].op = "end" /\ code[j].at = i

IsGetter(f)      == code[f.at].op = "getter"
IsInitializer(f) == code[f.at].op \in {"method", "getter"} /\ code[f.at].name = "init"
Arity(f)         == Cardinality(code[f.at].arg)

\* The nodes that hold node i, and the class that holds it last.
Around(i)  == {j \in 1..i - 1 : code[j].op \in Bodies \cup {"block", "if", "while", "class"}
                               /\ i < After(j)}
ClassOf(i) == Max({j \in Around(i) : code[j].op = "class"})

Methods(c) == {m \in DOMAIN code : code[m].op \in {"method", "getter"} /\ ClassOf(m) = c}

Finders(chain, k) == {i \in DOMAIN chain : k \in DOMAIN chain[i].methods}
FindMethod(chain, k) == chain[Min(Finders(chain, k))].methods[k]

-----------------------------------------------------------------------------
(* Environments *)

Ancestor(e, distance) ==
  LET up[d \in 0..distance] ==
        IF d = 0 THEN e ELSE IF up[d - 1] = 0 THEN 0 ELSE envs[up[d - 1]].enclosing
  IN up[distance]

Holding(n, e) == e # 0 /\ n \in DOMAIN envs[e].values

\* Where the name of the node visited now leads; 0 past the last environment.
Target == IF pc \in DOMAIN locals THEN Ancestor(env, locals[pc]) ELSE Globals

\* A name that is not there: globals.get raises PloxRuntimeError, get_at a KeyError of Python.
Missing == IF pc \in DOMAIN locals THEN "PythonError" ELSE "PloxRuntimeError"

DefineIn(e, n, v) == [envs EXCEPT ![e].values = Updated(@, n, v)]

-----------------------------------------------------------------------------
(* The visitors *)

Running == pc \in DOMAIN code /\ raised = None

Visiting(op) == Running /\ node.op = op /\ UNCHANGED resolverVars

Raise(e) == raised' = e /\ UNCHANGED <<envs, env, stack, pc, value>>

Answer(v) ==
  /\ value' = v /\ pc' = pc + 1
  /\ UNCHANGED <<envs, env, stack, raised>>

Frame(kind, resume, this) == [kind |-> kind, previous |-> env, resume |-> resume, this |-> this]

Room(n) == Len(envs) + n <= MaxEnvironments /\ Len(stack) + n <= MaxFrames

\* _execute_block with a new environment.
EnterBlock(frames) ==
  /\ Room(1)
  /\ envs' = Append(envs, Environment(env, <<>>, <<"body", pc>>)) /\ env' = Len(envs) + 1
  /\ stack' = stack \o frames
  /\ pc' = pc + 1 /\ UNCHANGED <<value, raised>>

SkipTo(i) == pc' = i /\ UNCHANGED <<envs, env, stack, value, raised>>

RunBlock == Visiting("block") /\ EnterBlock(<<Frame("block", 0, 0)>>)

RunIf == /\ Visiting("if")
         /\ EnterBlock(<<Frame("block", 0, 0)>>) \/ SkipTo(After(pc))

RunWhile ==
  /\ Visiting("while")
  /\ \/ EnterBlock(<<Frame("loop", After(pc), 0), Frame("block", 0, 0)>>)
     \/ SkipTo(After(pc))

RunBreak == Visiting("break") /\ Raise("break")

RunReturn ==
  /\ Visiting("return")
  /\ value' = IF node.arg = {} THEN Nil ELSE value
  /\ raised' = "return" /\ UNCHANGED <<envs, env, stack, pc>>

RunVar    == Visiting("var") /\ Answer(Nil)
RunDefine == /\ Visiting("define")
             /\ envs' = DefineIn(env, node.name, value)
             /\ pc' = pc + 1 /\ UNCHANGED <<env, stack, value, raised>>

RunFunction ==
  /\ Visiting("fun")
  /\ envs' = DefineIn(env, node.name, LoxFunction(pc, env))
  /\ pc' = After(pc) /\ UNCHANGED <<env, stack, value, raised>>

RunAnonymous ==
  /\ Visiting("anonymous")
  /\ value' = LoxFunction(pc, env)
  /\ pc' = After(pc) /\ UNCHANGED <<envs, env, stack, raised>>

LookUp(n) == IF Holding(n, Target) THEN Answer(envs[Target].values[n]) ELSE Raise(Missing)

RunVariable == \E op \in {"variable", "this"} : Visiting(op) /\ LookUp(node.name)

\* assign_at does not look whether the name is there; globals.assign does.
RunAssign ==
  /\ Visiting("assign")
  /\ IF Target # 0 /\ (pc \in DOMAIN locals \/ Holding(node.name, Globals))
     THEN /\ envs' = DefineIn(Target, node.name, value)
          /\ pc' = pc + 1 /\ UNCHANGED <<env, stack, value, raised>>
     ELSE Raise(Missing)

-----------------------------------------------------------------------------
(* Classes and calls *)

\* The methods close over the environment outside that of super.
DeclareClassOutside(superclass, closure, es) ==
  LET named(k) == {m \in Methods(pc) : code[m].name = k}
      methods  == [k \in {code[m].name : m \in Methods(pc)} |-> LoxFunction(Max(named(k)), env)]
  IN /\ envs' = [es EXCEPT ![env].values =
                   Updated(@, node.name, LoxClass(<<[methods |-> methods]>> \o superclass))]
     /\ pc' = After(pc) /\ UNCHANGED <<env, stack, value, raised>>

DeclareClass(superclass, closure, es) ==
  LET named(k) == {m \in Methods(pc) : code[m].name = k}
      methods  == [k \in {code[m].name : m \in Methods(pc)} |-> LoxFunction(Max(named(k)), closure)]
  IN /\ envs' = [es EXCEPT ![env].values =
                   Updated(@, node.name, LoxClass(<<[methods |-> methods]>> \o superclass))]
     /\ pc' = After(pc) /\ UNCHANGED <<env, stack, value, raised>>

RunClass ==
  /\ Visiting("class")
  /\ IF node.arg = {} THEN DeclareClass(<<>>, env, envs)
     ELSE LET s == CHOOSE n \in node.arg : TRUE
              v == envs[Target].values[s]
          IN IF ~Holding(s, Target) THEN Raise(Missing)
             ELSE IF v.kind # "class" THEN Raise("PloxRuntimeError")
             ELSE Room(1) /\ DeclareClass(v.chain, Len(envs) + 1,
                    Append(envs, Environment(env, Entry("super", v), <<"super", pc>>)))

\* LoxFunction.bind: the environments with one more, and the method with it as closure.
Bound(f, instance) ==
  Append(envs, Environment(f.closure, Entry("this", instance), <<"this", ClassOf(f.at)>>))
BoundMethod(f) == LoxFunction(f.at, Len(envs) + 1)

\* The environment of a call inside that of the caller.
InvokeInCaller(f, es) ==
  /\ envs' = Append(es, Environment(env, [n \in code[f.at].arg |-> Nil], <<"body", f.at>>))
  /\ env' = Len(es) + 1
  /\ stack' = Append(stack, Frame("call", pc + 1, IF IsInitializer(f) THEN f.closure ELSE 0))
  /\ pc' = f.at + 1 /\ UNCHANGED <<value, raised>>

\* LoxFunction.call, with the environments es.
Invoke(f, es) ==
  /\ envs' = Append(es, Environment(f.closure, [n \in code[f.at].arg |-> Nil], <<"body", f.at>>))
  /\ env' = Len(es) + 1
  /\ stack' = Append(stack, Frame("call", pc + 1, IF IsInitializer(f) THEN f.closure ELSE 0))
  /\ pc' = f.at + 1 /\ UNCHANGED <<value, raised>>

Initializer(klass) == FindMethod(klass.chain, "init")

ArityOf(callee) ==
  IF callee.kind = "function" THEN Arity(callee)
  ELSE IF Finders(callee.chain, "init") = {} THEN 0 ELSE Arity(Initializer(callee))

RunCall ==
  /\ Visiting("call")
  /\ IF value.kind \notin {"function", "class"} THEN Raise("PloxRuntimeError")
     ELSE IF Cardinality(node.arg) # ArityOf(value) THEN Raise("PloxRuntimeError")
     ELSE IF value.kind = "function" THEN Room(1) /\ Invoke(value, envs)
     ELSE IF Finders(value.chain, "init") = {} THEN Answer(LoxInstance(value))
     ELSE LET f == Initializer(value)
          IN Room(2) /\ Invoke(BoundMethod(f), Bound(f, LoxInstance(value)))

Bind(f, instance) ==
  /\ Room(1)
  /\ envs' = Bound(f, instance) /\ value' = BoundMethod(f)
  /\ pc' = pc + 1 /\ UNCHANGED <<env, stack, raised>>

RunGet ==
  /\ Visiting("get")
  /\ IF value.kind # "instance" THEN Raise("PloxRuntimeError")
     ELSE IF Finders(value.klass.chain, node.name) = {} THEN Raise("PloxRuntimeError")
     ELSE LET f == FindMethod(value.klass.chain, node.name)
          IN IF IsGetter(f) THEN Room(2) /\ Invoke(BoundMethod(f), Bound(f, value))
             ELSE Bind(f, value)

\* "this" is always one level nearer than the environment of "super".
SuperAt == Ancestor(env, locals[pc])
ThisAtSame == SuperAt
ThisAt     == Ancestor(env, locals[pc] - 1)

RunSuper ==
  /\ Visiting("super")
  /\ IF pc \notin DOMAIN locals THEN Raise("PythonError")
     ELSE IF locals[pc] = 0 \/ ~Holding("super", SuperAt) \/ ~Holding("this", ThisAt)
     THEN Raise("PythonError")
     ELSE LET chain == envs[SuperAt].values["super"].chain
          IN IF Finders(chain, node.name) = {} THEN Raise("PloxRuntimeError")
             ELSE Bind(FindMethod(chain, node.name), envs[ThisAt].values["this"])

-----------------------------------------------------------------------------
(* Leaving blocks, calls and loops *)

\* What a call answers: an initializer its instance, whatever it returned.
Answered(frame, v) == IF frame.this = 0 THEN v ELSE envs[frame.this].values["this"]

RestoredWithoutFinally == env' = IF raised # None THEN env ELSE Last(stack).previous

Restored == env' = IF Last(stack).kind = "loop" THEN env ELSE Last(stack).previous

EndOfBlock ==
  /\ Visiting("end") /\ code[node.at].op \in {"block", "if", "while"}
  /\ Restored
  /\ IF code[node.at].op = "while" THEN stack' = Front(Front(stack)) /\ pc' = node.at
                                   ELSE stack' = Front(stack) /\ pc' = pc + 1
  /\ UNCHANGED <<envs, value, raised>>

EndOfBody ==
  /\ Visiting("end") /\ code[node.at].op \in Bodies
  /\ Restored /\ stack' = Front(stack)
  /\ value' = Answered(Last(stack), Nil) /\ pc' = Last(stack).resume
  /\ UNCHANGED <<envs, raised>>

Catches(frame) ==
  (frame.kind = "loop" /\ raised = "break") \/ (frame.kind = "call" /\ raised = "return")

\* An exception passes one activation, whose finally restores the environment.
Unwind ==
  /\ raised # None /\ stack # <<>> /\ UNCHANGED <<resolverVars, envs>>
  /\ stack' = Front(stack)
  /\ Restored
  /\ IF Catches(Last(stack))
     THEN /\ raised' = None /\ pc' = Last(stack).resume
          /\ value' = IF raised = "return" THEN Answered(Last(stack), value) ELSE value
     ELSE UNCHANGED <<raised, pc, value>>

\* interpret catches nothing but a PloxRuntimeError.
ReportError ==
  /\ raised = "PloxRuntimeError" /\ stack = <<>> /\ raised' = "reported"
  /\ UNCHANGED <<resolverVars, envs, env, stack, pc, value>>

Resolve == pc = 0 /\ ResolverNext /\ UNCHANGED runVars

Interpret ==
  /\ pc = 0 /\ ~had_error /\ open = <<>> /\ code # <<>>
  /\ pc' = 1 /\ UNCHANGED <<resolverVars, envs, env, stack, value, raised>>

Next ==
  \/ Resolve \/ Interpret
  \/ RunBlock \/ RunIf \/ RunWhile \/ RunBreak \/ RunReturn \/ RunVar \/ RunDefine
  \/ RunFunction \/ RunAnonymous \/ RunVariable \/ RunAssign
  \/ RunClass \/ RunCall \/ RunGet \/ RunSuper
  \/ EndOfBlock \/ EndOfBody \/ Unwind \/ ReportError

Spec == Init /\ [][Next]_vars

-----------------------------------------------------------------------------
(* Properties *)

\* The scope that a node lies in, and the one around each scope, by the nodes alone.
ScopeOf(i) ==
  IF Around(i) = {} THEN <<"globals", 0>>
  ELSE <<IF code[Max(Around(i))].op = "class" THEN "this" ELSE "body", Max(Around(i))>>

OuterScope(s) ==
  IF s[1] = "this" /\ code[s[2]].arg # {} THEN <<"super", s[2]>> ELSE ScopeOf(s[2])

\* Whenever plox runs a node, its environments are those of the blocks, functions
\* and classes that hold the node in the source text, each inside the next: calls
\* through closures, bound methods and every way out of a block keep it so
\* (_execute_block, LoxFunction.call and bind).
EnvironmentsNest ==
  /\ Running => envs[env].at = ScopeOf(pc)
  /\ \A e \in DOMAIN envs \ {Globals} : envs[envs[e].enclosing].at = OuterScope(envs[e].at)

\* Lexical scoping, by the text: node i declares n for the nodes after it inside it.
Declares(i, n, p) ==
  \/ n = "this" /\ code[i].op = "class"
  \/ n = "super" /\ code[i].op = "class" /\ code[i].arg # {}
  \/ code[i].op \in Bodies /\ n \in code[i].arg
  \/ /\ code[i].op # "class"
     /\ \E j \in i + 1..p - 1 : /\ code[j].op \in {"var", "fun", "class"} /\ code[j].name = n
                               /\ Max(Around(j)) = i

LexicalScope(n, p) ==
  LET holders == {i \in Around(p) : Declares(i, n, p)}
      i       == Max(holders)
  IN IF holders = {} THEN <<"globals", 0>>
     ELSE <<IF n \in Special THEN n ELSE "body", i>>

\* The name a node looks up, if it looks up any.
Uses(p) ==
  CASE code[p].op \in {"variable", "assign", "this"} -> {code[p].name}
    [] code[p].op = "super" -> {"super"}
    [] code[p].op = "class" -> code[p].arg
    [] OTHER -> {}

\* The distance that the resolver counted leads from the running environment to the
\* one of the block that declares the name in the source text, whichever closure,
\* call or turn of a loop is running (get_at, assign_at).
LookupsAreLexical ==
  Running => \A n \in Uses(pc) : Target # 0 /\ envs[Target].at = LexicalScope(n, pc)

\* A name that get_at does not find belongs to a variable whose own initializer
\* holds the node: nothing else that the resolver accepts ends in Python's KeyError.
MissesInInitializer ==
  raised = "PythonError" =>
    \E n \in Uses(pc), i, j \in DOMAIN code :
      /\ code[i].op = "var" /\ code[i].name = n /\ i < pc /\ pc < j
      /\ code[j].op = "define" /\ code[j].at = i /\ ScopeOf(i) = LexicalScope(n, pc)

\* What the resolver warns about is true: a node after a return never runs, and a
\* variable called unused is neither read nor assigned.
WarningsTrue ==
  Running => \A w \in warnings :
    /\ w.about = "unreachable" => w.at # pc
    /\ w.about = "unused" => ~(w.name \in Uses(pc) /\ Target # 0
                               /\ envs[Target].at = <<"body", w.at>>)

\* In a method, super is the superclass of the class whose text holds the method,
\* and that class is among those of the receiver, however far down it inherits.
SuperIsStatic ==
  Running /\ node.op = "super" =>
    /\ pc \in DOMAIN locals /\ locals[pc] > 0
    /\ Holding("super", SuperAt) /\ Holding("this", ThisAt)
    /\ LET chain == envs[ThisAt].values["this"].klass.chain
       IN \E i \in DOMAIN chain :
            /\ \E k \in DOMAIN chain[i].methods : chain[i].methods[k].closure = SuperAt
            /\ SubSeq(chain, i + 1, Len(chain)) = envs[SuperAt].values["super"].chain

\* Every way out of a block or a call, a break, a return and an error included,
\* leaves self.env as it was: at the top level it is the globals again.  A return
\* always meets the call it returns from.
Unwound ==
  /\ stack = <<>> => env = Globals
  /\ raised = "return" => \E i \in DOMAIN stack : stack[i].kind = "call"

\* A break ends a loop of the function it is in.
BreakEndsALoop ==
  raised = "break" =>
    \E i \in DOMAIN stack : /\ stack[i].kind = "loop"
                           /\ \A j \in i..Len(stack) : stack[j].kind # "call"

\* The shapes of what the interpreter keeps, and of the resolver's stacks: as many
\* entries as the nodes that pushed them and are still being visited.
TypeOK ==
  /\ env \in DOMAIN envs /\ pc \in 0..Len(code) + 1
  /\ \A e \in DOMAIN envs : envs[e].enclosing \in 0..e - 1
  /\ \A i \in DOMAIN stack : /\ stack[i].kind \in {"block", "loop", "call"}
                            /\ stack[i].previous \in DOMAIN envs /\ stack[i].this \in 0..Len(envs)
  /\ \A p \in DOMAIN locals : p \in DOMAIN code /\ locals[p] \in 0..2 * p
  /\ Len(scopes) = OpenNodes(Bodies \cup {"block", "if", "while", "class"}) + OpenSubclasses
  /\ Len(return_scopes) = 1 + Len(scopes) + OpenNodes({"if", "while"})
  /\ Len(loop_scopes) = 1 + OpenNodes({"while"})
  /\ Len(function_scopes) = 1 + OpenNodes(Bodies) /\ Len(class_scopes) = 1 + OpenNodes({"class"})
=============================================================================
