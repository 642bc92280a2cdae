------------------------------- MODULE Table -------------------------------
(***************************************************************************)
(* The hash table of clox/table.c: open addressing with linear probing,    *)
(* tombstones that count as load, growth at three quarters, the rehash, the *)
(* copy that inheritance makes and the pass the collector runs over        *)
(* vm.strings, also in the middle of that table's own growth.              *)
(*                                                                         *)
(* One table is modelled; each turn of a loop over its slots is a step, a  *)
(* call that makes no loop is one step. Keys are interned strings, so two  *)
(* keys are the same string exactly when they are the same key.            *)
(***************************************************************************)
EXTENDS Integers, FiniteSets, FiniteSetsExt

CONSTANTS
  Key,       \* ObjString addresses
  NULL,
  Value, NIL, TRUEVAL,
  Hash,      \* the hash field of each key
  MinSize,   \* the first size GROW_CAPACITY gives, 8 in the code
  MaxSize    \* bounds the size of the array

ASSUME TableAssumption ==
  /\ NULL \notin Key
  /\ NIL \in Value /\ TRUEVAL \in Value /\ NIL # TRUEVAL
  /\ Hash \in [Key -> Nat]
  /\ MinSize \in Nat \ {0, 1} /\ MaxSize \in Nat

VARIABLES
  interning,   \* whether the table is vm.strings, or one of names and values
  count, capacity, entries,  \* the Table; capacity is the mask, size - 1
  pc,
  call,        \* the arguments of the call in progress
  i,           \* loop variable of the call
  dest,        \* array that adjustCapacity fills
  from,        \* table that tableAddAll copies, and its loop variable
  white,       \* unmarked keys while tableRemoveWhite runs
  resume,      \* where the caller of the collector goes on
  reply        \* the last call and its answer, for Dict

table == <<interning, count, capacity, entries>>
loop  == <<i, dest, from, white, resume>>
vars  == <<table, pc, call, loop, reply>>

Entry     == [key : Key \cup {NULL}, value : Value]
Empty     == [key |-> NULL, value |-> NIL]
Tombstone == [key |-> NULL, value |-> TRUEVAL]

NoTable  == [x \in {} |-> Empty]
NoSource == [capacity |-> -1, entries |-> NoTable, i |-> 0]

-----------------------------------------------------------------------------
(* findEntry *)

\* hash & capacity, which is the remainder because the size is a power of two
Home(k, cap) == Hash[k] % (cap + 1)

\* the slot d turns after the home of k
Slot(k, cap, d) ==
  IF Home(k, cap) + d <= cap THEN Home(k, cap) + d ELSE Home(k, cap) + d - (cap + 1)

\* the turns at which the loop can end
Stops(E, cap, k) ==
  {d \in 0..cap : LET e == E[Slot(k, cap, d)] IN e.key = k \/ e = Empty}

Tombs(E, cap, k) ==
  {d \in 0..cap : LET e == E[Slot(k, cap, d)] IN e.key = NULL /\ e # Empty}

(* Operators whose names say what they get wrong are seeded faults: each      *)
(* replaces the definition after it in one run, which must then fail.        *)

FindEntryFirstHole(E, cap, k) ==
  LET holes == {d \in 0..cap : E[Slot(k, cap, d)].key \in {NULL, k}}
  IN Slot(k, cap, Min(holes))

FindEntry(E, cap, k) ==
  LET stop  == Min(Stops(E, cap, k))
      tombs == {d \in Tombs(E, cap, k) : d < stop}
  IN IF E[Slot(k, cap, stop)].key = k \/ tombs = {} THEN Slot(k, cap, stop)
     ELSE Slot(k, cap, Min(tombs))

-----------------------------------------------------------------------------
(* The operations *)

NoCall == [op |-> "none", key |-> NULL, value |-> NIL]

Answer(op, k, result) == reply' = [op |-> op, key |-> k, result |-> result]

Init == /\ interning \in BOOLEAN
        /\ count = 0 /\ capacity = -1 /\ entries = NoTable
        /\ pc = "idle" /\ call = NoCall
        /\ i = 0 /\ dest = NoTable /\ white = {} /\ resume = "idle"
        /\ from = NoSource
        /\ reply = [op |-> "none", key |-> NULL, result |-> <<>>]

\* The test that tableGet and tableDelete begin with, and its first guard.
Held(k) == count # 0 /\ entries[FindEntry(entries, capacity, k)].key = k

TableGet(k) ==
  /\ pc = "idle" /\ ~interning
  /\ Answer("get", k, IF ~Held(k) THEN <<FALSE>>
                      ELSE <<TRUE, entries[FindEntry(entries, capacity, k)].value>>)
  /\ UNCHANGED <<table, pc, call, loop>>

\* tableFindString looks for the characters of k and passes over tombstones.
TableFindString(k) ==
  /\ pc = "idle" /\ interning
  /\ LET stop == Slot(k, capacity, Min(Stops(entries, capacity, k)))
     IN Answer("find", k, <<IF count = 0 THEN NULL ELSE entries[stop].key>>)
  /\ UNCHANGED <<table, pc, call, loop>>

DeletedEmpty(k) ==
  IF ~Held(k) THEN entries
  ELSE [entries EXCEPT ![FindEntry(entries, capacity, k)] = Empty]

\* The array after tableDelete(k), which leaves count alone.
Deleted(k) ==
  IF ~Held(k) THEN entries
  ELSE [entries EXCEPT ![FindEntry(entries, capacity, k)] = Tombstone]

TableDelete(k) ==
  /\ pc = "idle" /\ ~interning
  /\ entries' = Deleted(k)
  /\ Answer("delete", k, <<Held(k)>>)
  /\ UNCHANGED <<interning, count, capacity, pc, call, loop>>

FullWhenNoneLeft == count + 1 > capacity + 1

\* count + 1 > (capacity + 1) * TABLE_MAX_LOAD
Full == 4 * (count + 1) > 3 * (capacity + 1)

NewSize == IF capacity + 1 < MinSize THEN MinSize ELSE 2 * (capacity + 1)

\* allocateString sets a key only when tableFindString has not found it, to nil.
TableSet(k, v) ==
  /\ pc = "idle"
  /\ interning => v = NIL /\ ~Held(k)
  /\ Full => NewSize <= MaxSize
  /\ pc' = IF Full THEN "grow" ELSE "insert"
  /\ call' = [op |-> "set", key |-> k, value |-> v]
  /\ UNCHANGED <<table, loop, reply>>

\* adjustCapacity: the new array is there, filled with empty entries.
Allocated ==
  /\ pc = "grow"
  /\ dest' = [s \in 0..(NewSize - 1) |-> Empty]
  /\ count' = 0
  /\ i' = 0
  /\ pc' = "rehash"
  /\ UNCHANGED <<interning, capacity, entries, call, from, white, resume, reply>>

\* One turn of adjustCapacity's second loop.
Rehash ==
  LET e == entries[i] IN
  /\ pc = "rehash" /\ i <= capacity
  /\ IF e.key = NULL THEN UNCHANGED <<dest, count>>
     ELSE /\ dest' = [dest EXCEPT ![FindEntry(dest, NewSize - 1, e.key)] = e]
          /\ count' = count + 1
  /\ i' = i + 1
  /\ UNCHANGED <<interning, capacity, entries, pc, call, from, white, resume, reply>>

Rehashed ==
  /\ pc = "rehash" /\ i > capacity
  /\ entries' = dest
  /\ capacity' = NewSize - 1
  /\ dest' = NoTable /\ i' = 0
  /\ pc' = "insert"
  /\ UNCHANGED <<interning, count, call, from, white, resume, reply>>

InsertCountsTombstones ==
  LET s == FindEntry(entries, capacity, call.key) IN
  /\ pc = "insert"
  /\ entries' = [entries EXCEPT ![s] = [key |-> call.key, value |-> call.value]]
  /\ count' = IF entries[s].key = NULL THEN count + 1 ELSE count
  /\ IF call.op = "copy"
     THEN pc' = "copy" /\ UNCHANGED <<call, reply>>
     ELSE /\ pc' = "idle" /\ call' = NoCall
          /\ Answer("set", call.key, <<entries[s].key = NULL>>)
  /\ UNCHANGED <<interning, capacity, loop>>

\* The rest of tableSet. A copy goes on with its next slot.
Insert ==
  LET s == FindEntry(entries, capacity, call.key) IN
  /\ pc = "insert"
  /\ entries' = [entries EXCEPT ![s] = [key |-> call.key, value |-> call.value]]
  /\ count' = IF entries[s] = Empty THEN count + 1 ELSE count
  /\ IF call.op = "copy"
     THEN pc' = "copy" /\ UNCHANGED <<call, reply>>
     ELSE /\ pc' = "idle" /\ call' = NoCall
          /\ Answer("set", call.key, <<entries[s].key = NULL>>)
  /\ UNCHANGED <<interning, capacity, loop>>

\* OP_INHERIT: the methods of the class that is there, added to those of a class
\* just made; the model follows the new one from here on.
StartCopy ==
  /\ pc = "idle" /\ ~interning
  /\ from' = [capacity |-> capacity, entries |-> entries, i |-> 0]
  /\ count' = 0 /\ capacity' = -1 /\ entries' = NoTable
  /\ pc' = "copy" /\ call' = [NoCall EXCEPT !.op = "copy"]
  /\ UNCHANGED <<interning, i, dest, white, resume, reply>>

\* One turn of tableAddAll, up to the growth or the insertion of its tableSet.
CopyNext ==
  LET e == from.entries[from.i] IN
  /\ pc = "copy" /\ from.i <= from.capacity
  /\ from' = [from EXCEPT !.i = @ + 1]
  /\ IF e.key = NULL THEN UNCHANGED <<pc, call>>
     ELSE /\ call' = [op |-> "copy", key |-> e.key, value |-> e.value]
          /\ pc' = IF Full THEN "grow" ELSE "insert"
  /\ UNCHANGED <<table, i, dest, white, resume, reply>>

CopyDone ==
  /\ pc = "copy" /\ from.i > from.capacity
  /\ from' = NoSource
  /\ pc' = "idle" /\ call' = NoCall
  /\ UNCHANGED <<table, i, dest, white, resume, reply>>

\* The collector reaches tableRemoveWhite(&vm.strings), between two calls or in
\* the ALLOCATE of adjustCapacity; the string being interned is on the stack.
StartWhite(W) ==
  /\ pc \in {"idle", "grow"} /\ interning
  /\ call.key \notin W
  /\ white' = W /\ i' = 0 /\ resume' = pc
  /\ pc' = "white"
  /\ UNCHANGED <<table, call, dest, from, reply>>

\* One turn of tableRemoveWhite, which never looks at the last slot.
WhiteNext ==
  LET k == entries[i].key IN
  /\ pc = "white" /\ i < capacity
  /\ entries' = IF k \in white THEN Deleted(k) ELSE entries
  /\ i' = i + 1
  /\ UNCHANGED <<interning, count, capacity, pc, call, dest, from, white, resume, reply>>

WhiteDone ==
  /\ pc = "white" /\ i >= capacity
  /\ white' = {} /\ i' = 0 /\ resume' = "idle"
  /\ pc' = resume
  /\ UNCHANGED <<table, call, dest, from, reply>>

Next ==
  \/ \E k \in Key : TableGet(k) \/ TableFindString(k) \/ TableDelete(k)
  \/ \E k \in Key, v \in Value : TableSet(k, v)
  \/ Allocated \/ Rehash \/ Rehashed \/ Insert
  \/ StartCopy \/ CopyNext \/ CopyDone
  \/ \E W \in SUBSET Key : StartWhite(W)
  \/ WhiteNext \/ WhiteDone

Spec == Init /\ [][Next]_vars

-----------------------------------------------------------------------------
(* Properties *)

IsArray(E, cap) == E \in [0..cap -> Entry]

Used(E, cap) == Cardinality({s \in 0..cap : E[s] # Empty})

\* The arrays have the size their masks say. count is the number of slots that
\* are not empty, tombstones among them, or of the keys moved so far, and never
\* more than three quarters of the slots (table.c:53-61, table.c:78-86).
TypeOK ==
  /\ count = IF pc = "rehash" THEN Used(dest, NewSize - 1) ELSE Used(entries, capacity)
  /\ 4 * count <= 3 * (capacity + 1) /\ capacity \in Nat \cup {-1}
  /\ IsArray(entries, capacity)
  /\ pc \in {"idle", "grow", "rehash", "insert", "copy", "white"}
  /\ call \in [op : {"none", "set", "copy"}, key : Key \cup {NULL}, value : Value]
  /\ i \in Nat
  /\ dest = NoTable \/ IsArray(dest, NewSize - 1)
  /\ from.capacity \in Nat \cup {-1} /\ from.i \in Nat
  /\ IsArray(from.entries, from.capacity)
  /\ white \subseteq Key
  /\ resume \in {"idle", "grow"}

\* The arrays there are, with their masks.
Arrays == {<<entries, capacity>>, <<from.entries, from.capacity>>}
          \cup (IF pc = "rehash" THEN {<<dest, NewSize - 1>>} ELSE {})

\* Every array has an empty slot, tombstones not counted, so the loops of
\* findEntry and tableFindString, which have no other way out for a key that
\* is not there, come to an end (table.c:25, table.c:122).
ProbesEnd == \A a \in Arrays : a[2] >= 0 => \E s \in 0..a[2] : a[1][s] = Empty

\* A key that is in an array is found where it is, whatever was deleted or
\* moved before; so it is in it once (table.c:22-43).
KeysFindable ==
  \A a \in Arrays : \A s \in 0..a[2] :
    a[1][s].key # NULL => FindEntry(a[1], a[2], a[1][s].key) = s

Contents(E, cap) ==
  [k \in {E[s].key : s \in 0..cap} \ {NULL} |->
     E[CHOOSE s \in 0..cap : E[s].key = k].value]

\* The keys tableRemoveWhite is still going to delete.
Doomed == IF pc = "white" THEN white \ {entries[s].key : s \in {capacity} \cap Nat} ELSE {}

\* The map the table stands for: that of the source while a copy is under way.
Meant == IF call.op = "copy" THEN Contents(from.entries, from.capacity)
         ELSE LET c == Contents(entries, capacity)
              IN [k \in DOMAIN c \ Doomed |-> c[k]]

\* Every answer, and every change that later answers show, is that of a map;
\* a copy has all the entries of its source; growing changes nothing.
Map == INSTANCE Dict WITH dict <- Meant
KeepsMap == Map!Spec
=============================================================================
