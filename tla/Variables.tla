----------------------------- MODULE Variables -----------------------------
(***************************************************************************)
(* What clox promises about the local variables of a Lox program, closures *)
(* or not: a variable holds the value last assigned to it, by whichever    *)
(* function assigned it, for as long as any function can still read it.    *)
(* Upvalues.tla (clox/vm.c) implements it.                                 *)
(***************************************************************************)
CONSTANTS Variable, Value

VARIABLES
  store,   \* the value of each variable there is
  reply    \* the variable just read with what was read, or <<>>

vars == <<store, reply>>

Init == store = [x \in {} |-> {}] /\ reply = <<>>

\* Several variables can come into being at once: the parameters of a call.
Enter(new) ==
  /\ DOMAIN new \cap DOMAIN store = {}
  /\ store' = [x \in DOMAIN store \cup DOMAIN new |->
                 IF x \in DOMAIN new THEN new[x] ELSE store[x]]
  /\ reply' = <<>>

Assign(x, v) ==
  /\ x \in DOMAIN store
  /\ store' = [store EXCEPT ![x] = v]
  /\ reply' = <<>>

Read(x) ==
  /\ x \in DOMAIN store
  /\ reply' = <<x, store[x]>>
  /\ UNCHANGED store

\* Variables that go are never read again: Read needs them in the store.
Leave(S) ==
  /\ store' = [x \in DOMAIN store \ S |-> store[x]]
  /\ reply' = <<>>

Next ==
  \/ \E S \in SUBSET Variable : Leave(S) \/ \E new \in [S -> Value] : Enter(new)
  \/ \E x \in Variable : Read(x) \/ \E v \in Value : Assign(x, v)

Spec == Init /\ [][Next]_vars
=============================================================================
