------------------------------ MODULE TableInv ------------------------------
(***************************************************************************)
(* The inductive invariant of Table.tla, from which its properties and the *)
(* refinement of Dict follow.                                              *)
(***************************************************************************)
EXTENDS Table

\* No key is anywhere before its slot on its way from home, and nothing there is empty.
Reachable(E, cap) ==
  \A s, d \in 0 .. cap :
    LET k == E[s].key
    IN  k # NULL /\ Slot(k, cap, d) = s =>
          \A t \in 0 .. d - 1 : LET e == E[Slot(k, cap, t)] IN e # Empty /\ e.key # k

\* An array that the loops of findEntry come to an end in.
Sound(E, cap) ==
  /\ cap \in Nat \cup {-1} /\ IsArray(E, cap)
  /\ 4 * Used(E, cap) <= 3 * (cap + 1)
  /\ Reachable(E, cap)

\* What is in the one and has a key is in the other too.
Within(E, S, F, T) == \A s \in S : E[s].key # NULL => \E t \in T : F[t] = E[s]

\* The slots of a set that have keys.
Keyed(E, S) == {s \in S : E[s].key # NULL}

NewMask == NewSize - 1

\* The growth of the array: the keys of the slots before i have been moved, and tombstones have not.
Moving ==
  /\ i <= capacity + 1
  /\ IsArray(dest, NewMask) /\ Reachable(dest, NewMask)
  /\ \A t \in 0 .. NewMask : dest[t].key = NULL => dest[t] = Empty
  /\ Within(entries, 0 .. i - 1, dest, 0 .. NewMask) /\ Within(dest, 0 .. NewMask, entries, 0 .. i - 1)
  /\ count = Cardinality(Keyed(entries, 0 .. i - 1))

\* The copy: what tableAddAll has passed is there, but for the entry that it is setting.
Inserting == pc \in {"grow", "rehash", "insert"}
Passed == 0 .. (IF Inserting THEN from.i - 2 ELSE from.i - 1)
Copying ==
  /\ ~interning /\ from.i <= from.capacity + 1 /\ (pc = "copy" \/ Inserting)
  /\ Inserting => from.i >= 1 /\ from.entries[from.i - 1] = [key |-> call.key, value |-> call.value]
  /\ Within(from.entries, Passed, entries, 0 .. capacity)
  /\ Within(entries, 0 .. capacity, from.entries, Passed)

\* The collector's pass: no unmarked key is left in the slots before i.
Clearing ==
  /\ interning /\ call.op # "copy" /\ call.key \notin white
  /\ IF resume = "idle" THEN call = NoCall ELSE call.op = "set" /\ call.key \in Key
  /\ \A s \in 0 .. capacity : s < i => entries[s].key \notin white

Typed ==
  /\ interning \in BOOLEAN
  /\ pc \in {"idle", "grow", "rehash", "insert", "copy", "white"}
  /\ call \in [op : {"none", "set", "copy"}, key : Key \cup {NULL}, value : Value]
  /\ i \in Nat /\ white \subseteq Key /\ resume \in {"idle", "grow"}
  /\ DOMAIN from = {"capacity", "entries", "i"} /\ from.i \in Nat

IInv ==
  /\ Typed
  /\ Sound(entries, capacity) /\ Sound(from.entries, from.capacity)
  /\ capacity = -1 \/ capacity + 1 >= MinSize
  /\ pc # "rehash" => dest = NoTable /\ count = Used(entries, capacity)
  /\ pc = "rehash" => Moving /\ count = Used(dest, NewMask)
  /\ pc = "insert" => 4 * (count + 1) <= 3 * (capacity + 1)
  /\ Inserting => call.op # "none" /\ call.key \in Key
  /\ pc = "idle" => call = NoCall
  /\ pc = "copy" => call.op = "copy"
  /\ call.op = "copy" => Copying
  /\ pc = "white" => Clearing
=============================================================================
