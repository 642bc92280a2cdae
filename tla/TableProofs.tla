---------------------------- MODULE TableProofs ----------------------------
(***************************************************************************)
(* The hash table's arrays are always sound: probes end, keys are found    *)
(* where they are, and the load is what count says; and the table is a     *)
(* map.                                                                    *)
(***************************************************************************)
EXTENDS TableInv, FiniteSetTheorems, WellFoundedInduction, TLAPS

-----------------------------------------------------------------------------
(* Probes.                                                                 *)

\* A set of numbers that is not empty has a least one.
LEMMA LeastNat ==
  ASSUME NEW T \in SUBSET Nat, T # {}
  PROVE  \E x \in T : \A y \in T : x <= y
<1>1. \E x \in T : \A y \in T : ~ (<<y, x>> \in OpToRel(<, Nat))
  BY WFMin, NatLessThanWellFounded
<1>2. PICK x \in T : \A y \in T : ~ (<<y, x>> \in OpToRel(<, Nat))
  BY <1>1
<1>3. \A y \in T : y \in Nat /\ x \in Nat
  OBVIOUS
<1>4. \A y \in T : ~ (y < x)
  BY <1>2, <1>3 DEF OpToRel
<1> QED BY <1>3, <1>4

\* So Min is one of them, and below the others.
LEMMA MinIs ==
  ASSUME NEW T \in SUBSET Nat, T # {}
  PROVE  Min(T) \in T /\ \A y \in T : Min(T) <= y
BY LeastNat DEF Min

\* findEntry's index stays within the array.
LEMMA HomeIs ==
  ASSUME NEW k \in Key, NEW cap \in Nat
  PROVE  Home(k, cap) \in 0 .. cap
<1>1. Hash[k] \in Nat
  BY TableAssumption
<1> QED BY <1>1 DEF Home

\* The loop of findEntry passes every slot once.
LEMMA SlotIs ==
  ASSUME NEW k \in Key, NEW cap \in Nat
  PROVE  /\ \A d \in 0 .. cap : Slot(k, cap, d) \in 0 .. cap
         /\ \A s \in 0 .. cap : \E d \in 0 .. cap : Slot(k, cap, d) = s
         /\ \A d, t \in 0 .. cap : Slot(k, cap, d) = Slot(k, cap, t) => d = t
<1> DEFINE h == Home(k, cap)
<1>1. h \in 0 .. cap
  BY HomeIs
<1>2. \A d : Slot(k, cap, d) = IF h + d <= cap THEN h + d ELSE h + d - (cap + 1)
  BY DEF Slot
<1> HIDE DEF h
<1>3. \A d \in 0 .. cap : Slot(k, cap, d) \in 0 .. cap
  BY <1>1, <1>2
<1>4. ASSUME NEW s \in 0 .. cap
      PROVE  \E d \in 0 .. cap : Slot(k, cap, d) = s
  <2>1. CASE s >= h
    <3>1. s - h \in 0 .. cap /\ Slot(k, cap, s - h) = s
      BY <1>1, <1>2, <2>1
    <3> QED BY <3>1
  <2>2. CASE s < h
    <3>1. s - h + (cap + 1) \in 0 .. cap /\ Slot(k, cap, s - h + (cap + 1)) = s
      BY <1>1, <1>2, <2>2
    <3> QED BY <3>1
  <2> QED BY <1>1, <2>1, <2>2
<1>5. \A d, t \in 0 .. cap : Slot(k, cap, d) = Slot(k, cap, t) => d = t
  BY <1>1, <1>2
<1> QED BY <1>3, <1>4, <1>5

\* An array's entries, and what the code tells apart by NULL and nil.
LEMMA EntryIs ==
  /\ Empty \in Entry /\ Tombstone \in Entry /\ Empty # Tombstone
  /\ Empty.key = NULL /\ Tombstone.key = NULL
  /\ \A e \in Entry : e.key \in Key \cup {NULL} /\ e.value \in Value
  /\ \A e \in Entry : e.key # NULL => e.key \in Key /\ e # Empty
BY TableAssumption DEF Entry, Empty, Tombstone

\* findEntry, where it can end: at the first slot on the way that has the key, else at the first
\* tombstone or empty one.
LEMMA FindEntryIs ==
  ASSUME NEW k \in Key, NEW cap \in Nat, NEW E, IsArray(E, cap), \E s \in 0 .. cap : E[s] = Empty
  PROVE  LET stop == Min(Stops(E, cap, k)) IN
         /\ stop \in 0 .. cap /\ stop \in Stops(E, cap, k)
         /\ \A t \in 0 .. stop - 1 : E[Slot(k, cap, t)].key # k /\ E[Slot(k, cap, t)] # Empty
         /\ \E d \in 0 .. stop :
              /\ FindEntry(E, cap, k) = Slot(k, cap, d)
              /\ \/ E[Slot(k, cap, d)].key = k /\ d = stop
                 \/ E[Slot(k, cap, d)].key = NULL /\ E[Slot(k, cap, stop)] = Empty
<1> DEFINE stop == Min(Stops(E, cap, k))
           tombs == {d \in Tombs(E, cap, k) : d < stop}
<1>1. Stops(E, cap, k) \in SUBSET Nat /\ Stops(E, cap, k) # {}
  <2>1. PICK s \in 0 .. cap : E[s] = Empty
    OBVIOUS
  <2>2. PICK d \in 0 .. cap : Slot(k, cap, d) = s
    BY SlotIs
  <2>3. d \in Stops(E, cap, k)
    BY <2>1, <2>2 DEF Stops
  <2> QED BY <2>3 DEF Stops
<1>2. stop \in Stops(E, cap, k) /\ \A t \in Stops(E, cap, k) : stop <= t
  BY <1>1, MinIs
<1> HIDE DEF stop
<1>3. stop \in 0 .. cap /\ (E[Slot(k, cap, stop)].key = k \/ E[Slot(k, cap, stop)] = Empty)
  BY <1>2 DEF Stops
<1>4. \A t \in 0 .. stop - 1 : E[Slot(k, cap, t)].key # k /\ E[Slot(k, cap, t)] # Empty
  <2> SUFFICES ASSUME NEW t \in 0 .. stop - 1 PROVE t \notin Stops(E, cap, k) /\ t \in 0 .. cap
    BY DEF Stops
  <2> QED BY <1>2, <1>3
<1>5. CASE E[Slot(k, cap, stop)].key = k
  <2>1. FindEntry(E, cap, k) = Slot(k, cap, stop) /\ stop \in 0 .. stop
    BY <1>3, <1>5 DEF FindEntry, stop
  <2> QED BY <1>2, <1>3, <1>4, <1>5, <2>1 DEF stop
<1>6. CASE E[Slot(k, cap, stop)].key # k
  <2>1. E[Slot(k, cap, stop)] = Empty /\ E[Slot(k, cap, stop)].key = NULL
    BY <1>3, <1>6, EntryIs
  <2>2. CASE tombs = {}
    <3>1. FindEntry(E, cap, k) = Slot(k, cap, stop) /\ stop \in 0 .. stop
      BY <1>3, <2>2 DEF FindEntry, stop
    <3> QED BY <1>2, <1>3, <1>4, <2>1, <3>1 DEF stop
  <2>3. CASE tombs # {}
    <3>1. tombs \in SUBSET Nat
      BY DEF Tombs
    <3>2. Min(tombs) \in tombs
      BY <2>3, <3>1, MinIs
    <3>3. FindEntry(E, cap, k) = Slot(k, cap, Min(tombs))
      BY <1>6, <2>3 DEF FindEntry, stop
    <3> DEFINE d == Min(tombs)
    <3>4. d \in 0 .. cap /\ d < stop /\ E[Slot(k, cap, d)].key = NULL
      BY <3>2 DEF Tombs
    <3> HIDE DEF d
    <3>5. d \in 0 .. stop
      BY <1>3, <3>4
    <3>6. FindEntry(E, cap, k) = Slot(k, cap, d)
      BY <3>3 DEF d
    <3> QED BY <1>2, <1>3, <1>4, <2>1, <3>4, <3>5, <3>6 DEF stop
  <2> QED BY <2>2, <2>3
<1> QED BY <1>5, <1>6

-----------------------------------------------------------------------------
(* Arrays.                                                                 *)

\* Used counts slots of the array.
LEMMA UsedIs ==
  ASSUME NEW cap \in Nat \cup {-1}, NEW E
  PROVE  /\ Used(E, cap) \in Nat /\ Used(E, cap) <= cap + 1
         /\ IsFiniteSet({s \in 0 .. cap : E[s] # Empty})
         /\ Used(E, cap) = cap + 1 => \A s \in 0 .. cap : E[s] # Empty
         /\ Used(E, cap) = 0 => \A s \in 0 .. cap : E[s] = Empty
         /\ Used(E, cap) # cap + 1 => \E s \in 0 .. cap : E[s] = Empty
<1> DEFINE U == {s \in 0 .. cap : E[s] # Empty}
<1>1. IsFiniteSet(0 .. cap) /\ Cardinality(0 .. cap) = cap + 1
  BY FS_Interval
<1>2. /\ IsFiniteSet(U) /\ Cardinality(U) <= cap + 1
      /\ (Cardinality(0 .. cap) = Cardinality(U) => 0 .. cap = U)
  <2>1. U \in SUBSET (0 .. cap)
    OBVIOUS
  <2> HIDE DEF U
  <2> QED BY <1>1, <2>1, FS_Subset
<1>3. Cardinality(U) \in Nat /\ (Cardinality(U) = 0 <=> U = {})
  <2>1. IsFiniteSet(U)
    BY <1>2
  <2> HIDE DEF U
  <2>2. Cardinality(U) \in Nat
    BY <2>1, FS_CardinalityType
  <2>3. Cardinality(U) = 0 <=> U = {}
    BY <2>1, FS_EmptySet
  <2> QED BY <2>2, <2>3
<1>4. Used(E, cap) = Cardinality(U)
  BY DEF Used
<1>5. (\A s \in 0 .. cap : E[s] # Empty) => U = 0 .. cap
  OBVIOUS
<1>6. U = {} => \A s \in 0 .. cap : E[s] = Empty
  OBVIOUS
<1>7. U = 0 .. cap => \A s \in 0 .. cap : E[s] # Empty
  OBVIOUS
<1>8. IsFiniteSet({s \in 0 .. cap : E[s] # Empty})
  BY <1>2
<1> HIDE DEF U
<1>9. Cardinality(U) = cap + 1 => U = 0 .. cap
  BY <1>1, <1>2
<1>10. Cardinality(U) # cap + 1 => \E s \in 0 .. cap : E[s] = Empty
  BY <1>1, <1>5
<1> QED BY <1>2, <1>3, <1>4, <1>6, <1>7, <1>8, <1>9, <1>10

\* A slot that is filled, or had something in it, is one more or as many.
LEMMA UsedAfter ==
  ASSUME NEW cap \in Nat, NEW E, IsArray(E, cap), NEW s \in 0 .. cap, NEW e \in Entry, e # Empty
  PROVE  LET F == [E EXCEPT ![s] = e] IN
         IsArray(F, cap) /\ Used(F, cap) = IF E[s] = Empty THEN Used(E, cap) + 1 ELSE Used(E, cap)
<1> DEFINE F == [E EXCEPT ![s] = e]
           U == {t \in 0 .. cap : E[t] # Empty}
           V == {t \in 0 .. cap : F[t] # Empty}
<1>1. E \in [0 .. cap -> Entry]
  BY DEF IsArray
<1>2. IsArray(F, cap) /\ \A t \in 0 .. cap : F[t] = IF t = s THEN e ELSE E[t]
  BY <1>1 DEF IsArray
<1> HIDE DEF F
<1>3. V = U \cup {s}
  BY <1>2
<1>4. s \in U <=> E[s] # Empty
  OBVIOUS
<1>5. IsFiniteSet(U)
  BY UsedIs
<1> HIDE DEF U, V
<1>6. Cardinality(V) = IF s \in U THEN Cardinality(U) ELSE Cardinality(U) + 1
  BY <1>3, <1>5, FS_AddElement
<1> QED BY <1>2, <1>4, <1>6 DEF Used, F, U, V

\* An array at three quarters of its load has an empty slot.
LEMMA HasEmpty ==
  ASSUME NEW cap \in Nat, NEW E, 4 * Used(E, cap) <= 3 * (cap + 1)
  PROVE  \E s \in 0 .. cap : E[s] = Empty
<1>1. Used(E, cap) \in Nat
  BY UsedIs
<1>2. Used(E, cap) # cap + 1
  BY <1>1
<1> QED BY <1>2, UsedIs

\* A key that is in an array is where findEntry, and tableFindString, look for it.
LEMMA FoundWhere ==
  ASSUME NEW cap \in Nat, NEW E, IsArray(E, cap), Reachable(E, cap), \E x \in 0 .. cap : E[x] = Empty,
         NEW s \in 0 .. cap, E[s].key # NULL
  PROVE  /\ E[s].key \in Key /\ FindEntry(E, cap, E[s].key) = s
         /\ Slot(E[s].key, cap, Min(Stops(E, cap, E[s].key))) = s
<1> DEFINE k == E[s].key
           stop == Min(Stops(E, cap, k))
<1>1. k \in Key
  BY EntryIs DEF IsArray
<1>2. PICK d \in 0 .. cap : Slot(k, cap, d) = s
  BY <1>1, SlotIs
<1>3. \A t \in 0 .. d - 1 : E[Slot(k, cap, t)] # Empty /\ E[Slot(k, cap, t)].key # k
  BY <1>2 DEF Reachable
<1>4. /\ stop \in 0 .. cap /\ stop \in Stops(E, cap, k)
      /\ \A t \in 0 .. stop - 1 : E[Slot(k, cap, t)].key # k /\ E[Slot(k, cap, t)] # Empty
  BY <1>1, FindEntryIs
<1>5. stop = d
  <2>1. ~(stop < d)
    <3> SUFFICES ASSUME stop < d PROVE FALSE
      OBVIOUS
    <3> HIDE DEF stop, k
    <3>1. stop \in 0 .. d - 1
      BY <1>4
    <3> QED BY <1>3, <1>4, <3>1 DEF Stops
  <2>2. ~(d < stop)
    <3> SUFFICES ASSUME d < stop PROVE FALSE
      OBVIOUS
    <3> HIDE DEF stop
    <3>1. d \in 0 .. stop - 1
      BY <1>4
    <3> QED BY <1>2, <1>4, <3>1
  <2> HIDE DEF stop
  <2> QED BY <1>4, <2>1, <2>2
<1>6. FindEntry(E, cap, k) = Slot(k, cap, stop)
  BY <1>2, <1>5 DEF FindEntry
<1> QED BY <1>1, <1>2, <1>5, <1>6

\* A key that is in no slot gets one that has no key, on the way from its home.
LEMMA FoundNowhere ==
  ASSUME NEW cap \in Nat, NEW E, IsArray(E, cap), \E x \in 0 .. cap : E[x] = Empty,
         NEW k \in Key, \A s \in 0 .. cap : E[s].key # k
  PROVE  /\ FindEntry(E, cap, k) \in 0 .. cap /\ E[FindEntry(E, cap, k)].key = NULL
         /\ E[Slot(k, cap, Min(Stops(E, cap, k)))].key = NULL
<1> DEFINE stop == Min(Stops(E, cap, k))
<1>1. /\ stop \in 0 .. cap /\ stop \in Stops(E, cap, k)
      /\ \E d \in 0 .. stop : /\ FindEntry(E, cap, k) = Slot(k, cap, d)
                              /\ E[Slot(k, cap, d)].key \in {k, NULL}
  BY FindEntryIs
<1> HIDE DEF stop
<1>2. PICK d \in 0 .. stop : /\ FindEntry(E, cap, k) = Slot(k, cap, d)
                             /\ E[Slot(k, cap, d)].key \in {k, NULL}
  BY <1>1
<1>3. d \in 0 .. cap
  BY <1>1
<1>4. Slot(k, cap, d) \in 0 .. cap /\ Slot(k, cap, stop) \in 0 .. cap
  BY <1>1, <1>3, SlotIs
<1>5. E[Slot(k, cap, stop)].key = NULL
  BY <1>1, <1>4, EntryIs DEF Stops
<1> QED BY <1>2, <1>4, <1>5 DEF stop

\* An array in which a key was set is as good as before: what findEntry passes on the way to the
\* slot is not empty.
LEMMA ReachableAfterSet ==
  ASSUME NEW cap \in Nat, NEW E, IsArray(E, cap), Reachable(E, cap), \E x \in 0 .. cap : E[x] = Empty,
         NEW k \in Key, NEW e \in Entry, e.key = k
  PROVE  LET s == FindEntry(E, cap, k)
             F == [E EXCEPT ![s] = e]
         IN  /\ s \in 0 .. cap /\ E[s].key \in {k, NULL} /\ Reachable(F, cap)
             /\ \A t \in 0 .. cap : t # s => E[t].key # k
<1> DEFINE s == FindEntry(E, cap, k)
           F == [E EXCEPT ![s] = e]
           stop == Min(Stops(E, cap, k))
<1>1. /\ stop \in 0 .. cap
      /\ \A t \in 0 .. stop - 1 : E[Slot(k, cap, t)].key # k /\ E[Slot(k, cap, t)] # Empty
  BY FindEntryIs
<1>2. PICK d \in 0 .. stop : /\ s = Slot(k, cap, d) /\ E[Slot(k, cap, d)].key \in {k, NULL}
  BY FindEntryIs
<1> HIDE DEF s, stop
<1>3. d \in 0 .. cap /\ \A t \in 0 .. d - 1 : E[Slot(k, cap, t)].key # k /\ E[Slot(k, cap, t)] # Empty
  <2>1. d \in 0 .. cap /\ \A t \in 0 .. d - 1 : t \in 0 .. stop - 1
    BY <1>1
  <2> QED BY <1>1, <2>1
<1>4. s \in 0 .. cap /\ E[s].key \in {k, NULL}
  BY <1>2, <1>3, SlotIs
<1>5. \A t \in 0 .. cap : t # s => E[t].key # k
  <2> SUFFICES ASSUME NEW t \in 0 .. cap, E[t].key = k PROVE t = s
    OBVIOUS
  <2>1. E[t].key # NULL
    BY TableAssumption
  <2>2. FindEntry(E, cap, E[t].key) = t
    BY <2>1, FoundWhere
  <2> QED BY <2>2 DEF s
<1>6. \A t \in 0 .. cap : F[t] = IF t = s THEN e ELSE E[t]
  BY <1>4 DEF IsArray
<1> HIDE DEF F
<1>7. Reachable(F, cap)
  <2> SUFFICES ASSUME NEW x \in 0 .. cap, NEW y \in 0 .. cap, F[x].key # NULL, Slot(F[x].key, cap, y) = x,
                      NEW t \in 0 .. y - 1
               PROVE  F[Slot(F[x].key, cap, t)] # Empty /\ F[Slot(F[x].key, cap, t)].key # F[x].key
    BY DEF Reachable
  <2> DEFINE j == F[x].key
             z == Slot(j, cap, t)
  <2>1. j \in Key /\ e # Empty
    <3>1. F[x] \in Entry
      BY <1>6 DEF IsArray
    <3>2. k # NULL
      BY TableAssumption
    <3> QED BY <3>1, <3>2, EntryIs
  <2>2. t \in 0 .. cap /\ t # y
    OBVIOUS
  <2>3. z \in 0 .. cap /\ z # x
    <3>1. Slot(j, cap, y) = x
      OBVIOUS
    <3> HIDE DEF j
    <3>2. z \in 0 .. cap
      BY <2>1, <2>2, SlotIs
    <3>3. z = Slot(j, cap, y) => t = y
      BY <2>1, <2>2, SlotIs
    <3> QED BY <2>2, <3>1, <3>2, <3>3
  <2>4. CASE x = s
    <3>1. j = k /\ y = d
      <4>1. j = k
        BY <1>6, <2>4
      <4> QED BY <1>2, <1>3, <2>4, <4>1, SlotIs
    <3>2. E[z].key # k /\ E[z] # Empty
      BY <1>3, <3>1
    <3>3. F[z] = E[z]
      BY <1>6, <2>3, <2>4
    <3> QED BY <3>1, <3>2, <3>3
  <2>5. CASE x # s
    <3>1. F[x] = E[x]
      BY <1>6, <2>5
    <3>2. E[z] # Empty /\ E[z].key # j
      BY <3>1 DEF Reachable
    <3>3. CASE z = s
      <4>1. j # k
        BY <1>5, <2>5, <3>1
      <4> QED BY <1>6, <2>1, <2>3, <3>3, <4>1
    <3>4. CASE z # s
      BY <1>6, <2>3, <3>2, <3>4
    <3> QED BY <3>3, <3>4
  <2> QED BY <2>4, <2>5
<1> QED BY <1>4, <1>5, <1>7 DEF s, F

\* An array from which a key was deleted: the tombstone keeps those behind it within reach.
LEMMA ReachableAfterDelete ==
  ASSUME NEW cap \in Nat, NEW E, IsArray(E, cap), Reachable(E, cap), NEW s \in 0 .. cap
  PROVE  Reachable([E EXCEPT ![s] = Tombstone], cap)
<1> DEFINE F == [E EXCEPT ![s] = Tombstone]
<1>1. \A t \in 0 .. cap : F[t] = IF t = s THEN Tombstone ELSE E[t]
  BY DEF IsArray
<1> HIDE DEF F
<1> SUFFICES ASSUME NEW x \in 0 .. cap, NEW y \in 0 .. cap, F[x].key # NULL, Slot(F[x].key, cap, y) = x,
                    NEW t \in 0 .. y - 1
             PROVE  F[Slot(F[x].key, cap, t)] # Empty /\ F[Slot(F[x].key, cap, t)].key # F[x].key
  BY DEF Reachable, F
<1>2. x # s /\ F[x] = E[x]
  BY <1>1, EntryIs
<1> DEFINE j == E[x].key
           z == Slot(j, cap, t)
<1>3. E[z] # Empty /\ E[z].key # j
  BY <1>2 DEF Reachable
<1>4. j \in Key
  BY <1>2, EntryIs DEF IsArray
<1>5. z \in 0 .. cap
  <2>1. t \in 0 .. cap
    OBVIOUS
  <2> QED BY <1>4, <2>1, SlotIs
<1> QED BY <1>1, <1>2, <1>3, <1>4, <1>5, EntryIs

\* What is known of every sound array.
LEMMA SoundIs ==
  ASSUME NEW cap, NEW E, Sound(E, cap)
  PROVE  /\ cap \in Nat \cup {-1} /\ IsArray(E, cap) /\ E \in [0 .. cap -> Entry] /\ Reachable(E, cap)
         /\ Used(E, cap) \in Nat /\ 4 * Used(E, cap) <= 3 * (cap + 1)
         /\ \A s \in 0 .. cap : E[s] \in Entry
         /\ cap \in Nat => \E s \in 0 .. cap : E[s] = Empty
<1>1. /\ cap \in Nat \cup {-1} /\ IsArray(E, cap) /\ 4 * Used(E, cap) <= 3 * (cap + 1)
      /\ Reachable(E, cap)
  BY DEF Sound
<1>2. Used(E, cap) \in Nat
  BY <1>1, UsedIs
<1>3. cap \in Nat => \E s \in 0 .. cap : E[s] = Empty
  BY <1>1, HasEmpty
<1>4. E \in [0 .. cap -> Entry]
  BY <1>1 DEF IsArray
<1> QED BY <1>1, <1>2, <1>3, <1>4

\* The table without an array.
LEMMA SoundNone ==
  Sound(NoTable, -1) /\ Used(NoTable, -1) = 0
<1>1. 0 .. -1 = {}
  OBVIOUS
<1>2. IsArray(NoTable, -1)
  BY <1>1 DEF IsArray, NoTable
<1>3. {s \in 0 .. -1 : NoTable[s] # Empty} = {}
  BY <1>1
<1>4. Used(NoTable, -1) = 0
  BY <1>3, FS_EmptySet DEF Used
<1>5. Reachable(NoTable, -1)
  BY <1>1 DEF Reachable
<1> QED BY <1>2, <1>4, <1>5 DEF Sound

\* An array as ALLOCATE and the loop after it leave it.
LEMMA AllEmpty ==
  ASSUME NEW cap \in Nat
  PROVE  LET E == [s \in 0 .. cap |-> Empty] IN
         IsArray(E, cap) /\ Used(E, cap) = 0 /\ Reachable(E, cap) /\ \A s \in 0 .. cap : E[s] = Empty
<1> DEFINE E == [s \in 0 .. cap |-> Empty]
<1>1. IsArray(E, cap) /\ \A s \in 0 .. cap : E[s] = Empty
  BY EntryIs DEF IsArray
<1> HIDE DEF E
<1>2. {s \in 0 .. cap : E[s] # Empty} = {}
  BY <1>1
<1>3. Used(E, cap) = 0
  BY <1>2, FS_EmptySet DEF Used
<1>4. \A s \in 0 .. cap : E[s].key = NULL
  BY <1>1, EntryIs
<1>5. Reachable(E, cap)
  BY <1>4 DEF Reachable
<1> QED BY <1>1, <1>3, <1>5 DEF E

\* No two slots have the same key.
LEMMA KeysDistinct ==
  ASSUME NEW cap, NEW E, Sound(E, cap), NEW s \in 0 .. cap, NEW t \in 0 .. cap,
         E[s].key # NULL, E[s].key = E[t].key
  PROVE  s = t
<1>1. cap \in Nat
  BY SoundIs
<1>2. FindEntry(E, cap, E[s].key) = s /\ FindEntry(E, cap, E[t].key) = t
  BY <1>1, SoundIs, FoundWhere
<1> QED BY <1>2

\* An array with one more key, or another value.
LEMMA SoundSet ==
  ASSUME NEW cap \in Nat, NEW E, IsArray(E, cap), Reachable(E, cap), \E x \in 0 .. cap : E[x] = Empty,
         NEW k \in Key, NEW e \in Entry, e.key = k
  PROVE  LET s == FindEntry(E, cap, k)
             F == [E EXCEPT ![s] = e]
         IN  /\ s \in 0 .. cap /\ E[s].key \in {k, NULL}
             /\ \A t \in 0 .. cap : t # s => E[t].key # k
             /\ IsArray(F, cap) /\ Reachable(F, cap)
             /\ \A t \in 0 .. cap : F[t] = IF t = s THEN e ELSE E[t]
             /\ Used(F, cap) = IF E[s] = Empty THEN Used(E, cap) + 1 ELSE Used(E, cap)
<1> DEFINE s == FindEntry(E, cap, k)
           F == [E EXCEPT ![s] = e]
<1>1. /\ s \in 0 .. cap /\ E[s].key \in {k, NULL} /\ Reachable(F, cap)
      /\ \A t \in 0 .. cap : t # s => E[t].key # k
  BY ReachableAfterSet
<1>2. e # Empty
  BY TableAssumption, EntryIs
<1> HIDE DEF s
<1>3. IsArray(F, cap) /\ Used(F, cap) = IF E[s] = Empty THEN Used(E, cap) + 1 ELSE Used(E, cap)
  BY <1>1, <1>2, UsedAfter
<1>4. \A t \in 0 .. cap : F[t] = IF t = s THEN e ELSE E[t]
  BY <1>1 DEF IsArray
<1> QED BY <1>1, <1>3, <1>4 DEF s

\* The test of tableGet and tableDelete tells whether the key is in the table.
LEMMA HeldIs ==
  ASSUME Sound(entries, capacity), count = Used(entries, capacity), NEW k \in Key
  PROVE  /\ Held(k) <=> \E s \in 0 .. capacity : entries[s].key = k
         /\ \A s \in 0 .. capacity : entries[s].key = k => FindEntry(entries, capacity, k) = s
<1>1. k # NULL
  BY TableAssumption
<1>2. ASSUME NEW s \in 0 .. capacity, entries[s].key = k
      PROVE  Held(k) /\ FindEntry(entries, capacity, k) = s
  <2>1. capacity \in Nat
    BY SoundIs
  <2>2. FindEntry(entries, capacity, k) = s
    BY <1>1, <1>2, <2>1, SoundIs, FoundWhere
  <2>3. count # 0
    <3>1. entries[s] # Empty
      BY <1>1, <1>2, EntryIs
    <3> QED BY <2>1, <3>1, UsedIs
  <2> QED BY <1>2, <2>2, <2>3 DEF Held
<1>3. ASSUME Held(k)
      PROVE  \E s \in 0 .. capacity : entries[s].key = k
  <2>1. capacity \in Nat
    BY <1>3, SoundNone, SoundIs, UsedIs DEF Held
  <2>2. SUFFICES ASSUME \A s \in 0 .. capacity : entries[s].key # k PROVE FALSE
    OBVIOUS
  <2>3. entries[FindEntry(entries, capacity, k)].key = NULL
    BY <2>1, <2>2, SoundIs, FoundNowhere
  <2> QED BY <1>1, <1>3, <2>3 DEF Held
<1> QED BY <1>2, <1>3

\* tableDelete leaves a tombstone, and the load as it is.
LEMMA DeletedIs ==
  ASSUME Sound(entries, capacity), count = Used(entries, capacity), NEW k \in Key
  PROVE  /\ Sound(Deleted(k), capacity) /\ Used(Deleted(k), capacity) = Used(entries, capacity)
         /\ \A t \in 0 .. capacity : Deleted(k)[t] = IF entries[t].key = k THEN Tombstone ELSE entries[t]
<1>1. CASE ~Held(k)
  <2>1. Deleted(k) = entries
    BY <1>1 DEF Deleted
  <2> QED BY <1>1, <2>1, HeldIs
<1>2. CASE Held(k)
  <2>1. PICK s \in 0 .. capacity : entries[s].key = k /\ FindEntry(entries, capacity, k) = s
    BY <1>2, HeldIs
  <2> DEFINE F == [entries EXCEPT ![s] = Tombstone]
  <2>2. Deleted(k) = F
    BY <1>2, <2>1 DEF Deleted
  <2>3. capacity \in Nat /\ IsArray(entries, capacity) /\ Reachable(entries, capacity)
    BY SoundIs
  <2>4. Reachable(F, capacity)
    BY <2>3, ReachableAfterDelete
  <2>5. entries[s] # Empty
    BY <2>1, EntryIs, TableAssumption
  <2>6. IsArray(F, capacity) /\ Used(F, capacity) = Used(entries, capacity)
    BY <2>3, <2>5, EntryIs, UsedAfter
  <2>7. \A t \in 0 .. capacity : entries[t].key = k => t = s
    BY <2>1, HeldIs
  <2>8. \A t \in 0 .. capacity : F[t] = IF t = s THEN Tombstone ELSE entries[t]
    BY <2>3 DEF IsArray
  <2> HIDE DEF F
  <2>9. Sound(F, capacity)
    BY <2>4, <2>6, SoundIs DEF Sound
  <2> QED BY <2>1, <2>2, <2>6, <2>7, <2>8, <2>9
<1> QED BY <1>1, <1>2

-----------------------------------------------------------------------------
(* The steps.                                                              *)

\* What a call that changes nothing but its answer leaves as it is.
LEMMA SameStep ==
  ASSUME IInv, UNCHANGED <<table, pc, call, loop>>
  PROVE  IInv'
<1>1. /\ interning' = interning /\ count' = count /\ capacity' = capacity /\ entries' = entries
      /\ pc' = pc /\ call' = call /\ i' = i /\ dest' = dest /\ from' = from /\ white' = white
      /\ resume' = resume
  BY DEF table, loop
<1>2. Typed'
  BY <1>1 DEF IInv, Typed
<1>3. Moving' = Moving /\ Copying' = Copying /\ Clearing' = Clearing
  BY <1>1 DEF Moving, Copying, Clearing, NewMask, NewSize, Inserting, Passed
<1>4. NewMask' = NewMask /\ Inserting' = Inserting
  BY <1>1 DEF NewMask, NewSize, Inserting
<1> QED BY <1>1, <1>2, <1>3, <1>4 DEF IInv

\* The table without an array, and without a call.
LEMMA InitStep ==
  ASSUME Init
  PROVE  IInv
<1>1. /\ interning \in BOOLEAN /\ count = 0 /\ capacity = -1 /\ entries = NoTable /\ pc = "idle"
      /\ call = NoCall /\ i = 0 /\ dest = NoTable /\ white = {} /\ resume = "idle" /\ from = NoSource
  BY DEF Init
<1>2. /\ NoCall \in [op : {"none", "set", "copy"}, key : Key \cup {NULL}, value : Value]
      /\ NoCall.op = "none" /\ NoCall.key = NULL
  BY TableAssumption DEF NoCall
<1>3. /\ NoSource.capacity = -1 /\ NoSource.entries = NoTable /\ NoSource.i = 0
      /\ DOMAIN NoSource = {"capacity", "entries", "i"}
  BY DEF NoSource
<1>4. Typed
  BY <1>1, <1>2, <1>3 DEF Typed
<1>5. ~Inserting
  BY <1>1 DEF Inserting
<1> QED BY <1>1, <1>2, <1>3, <1>4, <1>5, SoundNone DEF IInv

\* tableDelete, between two other calls.
LEMMA DeleteStep ==
  ASSUME IInv, NEW k \in Key, TableDelete(k)
  PROVE  IInv'
<1>1. /\ pc = "idle" /\ pc' = "idle" /\ entries' = Deleted(k) /\ call' = NoCall
      /\ interning' = interning /\ count' = count /\ capacity' = capacity /\ call' = call
      /\ i' = i /\ dest' = dest /\ from' = from /\ white' = white /\ resume' = resume
  BY DEF IInv, TableDelete, loop
<1>2. Typed'
  BY <1>1 DEF IInv, Typed
<1>3. /\ Sound(entries, capacity) /\ Sound(from.entries, from.capacity) /\ dest = NoTable
      /\ count = Used(entries, capacity) /\ (capacity = -1 \/ capacity + 1 >= MinSize)
  BY <1>1 DEF IInv
<1>4. Sound(entries', capacity) /\ Used(entries', capacity) = count
  BY <1>1, <1>3, DeletedIs
<1>5. ~Inserting' /\ NoCall.op = "none"
  BY <1>1 DEF Inserting, NoCall
<1> QED BY <1>1, <1>2, <1>3, <1>4, <1>5 DEF IInv

\* tableSet, up to the growth.
LEMMA SetStep ==
  ASSUME IInv, NEW k \in Key, NEW v \in Value, TableSet(k, v)
  PROVE  IInv'
<1>1. /\ pc = "idle" /\ pc' = (IF Full THEN "grow" ELSE "insert") /\ entries' = entries
      /\ call' = [op |-> "set", key |-> k, value |-> v]
      /\ interning' = interning /\ count' = count /\ capacity' = capacity
      /\ i' = i /\ dest' = dest /\ from' = from /\ white' = white /\ resume' = resume
  BY DEF TableSet, loop, table
<1>2. Typed'
  BY <1>1 DEF IInv, Typed
<1>3. /\ Sound(entries, capacity) /\ Sound(from.entries, from.capacity) /\ dest = NoTable
      /\ count = Used(entries, capacity) /\ (capacity = -1 \/ capacity + 1 >= MinSize)
  BY <1>1 DEF IInv
<1>4. call'.op = "set" /\ call'.key \in Key
  BY <1>1
<1>5. pc' = "insert" => 4 * (count + 1) <= 3 * (capacity + 1)
  BY <1>1, <1>3, SoundIs DEF Full
<1>6. pc' \in {"grow", "insert"}
  BY <1>1
<1>7. /\ entries' = entries /\ interning' = interning /\ count' = count /\ capacity' = capacity
      /\ dest' = dest /\ from' = from
  BY <1>1
<1> QED BY <1>2, <1>3, <1>4, <1>5, <1>6, <1>7 DEF IInv

\* The size that GROW_CAPACITY gives holds what there is, and one more.
LEMMA NewMaskIs ==
  ASSUME IInv
  PROVE  /\ NewMask \in Nat /\ NewMask + 1 >= MinSize /\ NewMask >= capacity
         /\ NewMask = NewSize - 1 /\ capacity \in Nat \cup {-1} /\ Used(entries, capacity) \in Nat
         /\ \A n \in Nat : n <= Used(entries, capacity) => 4 * (n + 1) <= 3 * (NewMask + 1)
<1> DEFINE u == Used(entries, capacity)
<1>1. /\ capacity \in Nat \cup {-1} /\ (capacity = -1 \/ capacity + 1 >= MinSize)
      /\ u \in Nat /\ 4 * u <= 3 * (capacity + 1)
  BY SoundIs DEF IInv
<1>2. MinSize \in Nat /\ MinSize >= 2
  BY TableAssumption
<1> HIDE DEF u
<1>3. NewMask = IF capacity + 1 < MinSize THEN MinSize - 1 ELSE 2 * (capacity + 1) - 1
  BY DEF NewMask, NewSize
<1>4. NewMask \in Nat /\ NewMask + 1 >= MinSize /\ NewMask >= capacity
  BY <1>1, <1>2, <1>3
<1>5. ASSUME NEW n \in Nat, n <= u
      PROVE  4 * (n + 1) <= 3 * (NewMask + 1)
  <2>1. 4 * n <= 3 * (capacity + 1)
    BY <1>1, <1>5
  <2>2. CASE capacity = -1
    BY <1>1, <1>2, <1>3, <1>5, <2>1, <2>2
  <2>3. CASE capacity # -1
    <3>1. NewMask + 1 = 2 * (capacity + 1) /\ capacity + 1 >= 2
      BY <1>1, <1>2, <1>3, <2>3
    <3> QED BY <1>1, <1>5, <2>1, <3>1
  <2> QED BY <2>2, <2>3
<1>6. NewMask = NewSize - 1
  BY DEF NewMask
<1> QED BY <1>1, <1>4, <1>5, <1>6 DEF u

\* adjustCapacity has its new array.
LEMMA AllocatedStep ==
  ASSUME IInv, Allocated
  PROVE  IInv'
<1>1. /\ pc = "grow" /\ pc' = "rehash" /\ dest' = [s \in 0 .. NewMask |-> Empty] /\ count' = 0 /\ i' = 0
      /\ interning' = interning /\ capacity' = capacity /\ entries' = entries /\ call' = call
      /\ from' = from /\ white' = white /\ resume' = resume
  BY DEF Allocated, NewMask
<1>2. Typed'
  BY <1>1 DEF IInv, Typed
<1>3. /\ Sound(entries, capacity) /\ Sound(from.entries, from.capacity)
      /\ (capacity = -1 \/ capacity + 1 >= MinSize)
      /\ call.op # "none" /\ call.key \in Key /\ (call.op = "copy" => Copying)
  BY <1>1 DEF IInv, Inserting
<1>4. NewMask' = NewMask /\ Inserting' /\ Inserting /\ Passed' = Passed
  BY <1>1 DEF NewMask, NewSize, Inserting, Passed
<1>5. /\ IsArray(dest', NewMask) /\ Used(dest', NewMask) = 0 /\ Reachable(dest', NewMask)
      /\ \A s \in 0 .. NewMask : dest'[s] = Empty
  BY <1>1, NewMaskIs, AllEmpty
<1>6. Moving'
  <2>1. 0 .. 0 - 1 = {} /\ i' <= capacity + 1
    BY <1>1, NewMaskIs
  <2>2. Keyed(entries, {}) = {} /\ Cardinality({}) = 0
    BY FS_EmptySet DEF Keyed
  <2>3. Within(entries, {}, dest', 0 .. NewMask) /\ Within(dest', 0 .. NewMask, entries, {})
    BY <1>5, EntryIs DEF Within
  <2> QED BY <1>1, <1>4, <1>5, <2>1, <2>2, <2>3 DEF Moving
<1>7. Copying => Copying'
  BY <1>1, <1>4 DEF Copying
<1> QED BY <1>1, <1>2, <1>3, <1>4, <1>5, <1>6, <1>7 DEF IInv

\* The entries that are with one set of slots, then with another.
LEMMA WithinTrans ==
  ASSUME NEW E, NEW S, NEW F, NEW T, NEW G, NEW U, Within(E, S, F, T), Within(F, T, G, U)
  PROVE  Within(E, S, G, U)
BY DEF Within

\* Keys moved so far are keys of the old array, and as many as the new one has slots in use.
LEMMA MovingIs ==
  ASSUME IInv, pc = "rehash"
  PROVE  /\ Moving /\ count \in Nat /\ count = Used(dest, NewMask) /\ count <= Used(entries, capacity)
         /\ 4 * (count + 1) <= 3 * (NewMask + 1) /\ IsFiniteSet(Keyed(entries, 0 .. i - 1))
         /\ \E x \in 0 .. NewMask : dest[x] = Empty
<1> DEFINE K == Keyed(entries, 0 .. i - 1)
           U == {s \in 0 .. capacity : entries[s] # Empty}
<1>1. Moving /\ count = Used(dest, NewMask) /\ Sound(entries, capacity) /\ count = Cardinality(K)
  BY DEF IInv, Moving
<1>2. capacity \in Nat \cup {-1} /\ i <= capacity + 1 /\ i \in Nat
  BY SoundIs DEF IInv, Typed, Moving
<1>3. K \in SUBSET U
  BY <1>2, EntryIs DEF Keyed
<1>4. IsFiniteSet(U) /\ Cardinality(U) = Used(entries, capacity)
  BY <1>2, UsedIs DEF Used
<1> HIDE DEF K, U
<1>5. IsFiniteSet(K) /\ Cardinality(K) <= Cardinality(U) /\ Cardinality(K) \in Nat
  BY <1>3, <1>4, FS_Subset, FS_CardinalityType
<1>6. 4 * (count + 1) <= 3 * (NewMask + 1) /\ NewMask \in Nat
  BY <1>1, <1>4, <1>5, NewMaskIs
<1>7. \E x \in 0 .. NewMask : dest[x] = Empty
  <2>1. 4 * Used(dest, NewMask) <= 3 * (NewMask + 1)
    BY <1>1, <1>5, <1>6
  <2> QED BY <1>6, <2>1, HasEmpty
<1> QED BY <1>1, <1>4, <1>5, <1>6, <1>7 DEF K

\* A slot of the old array that has no key is passed over, tombstone or not.
LEMMA RehashSkips ==
  ASSUME IInv, Rehash, entries[i].key = NULL
  PROVE  IInv'
<1>1. /\ pc = "rehash" /\ pc' = "rehash" /\ i <= capacity /\ i' = i + 1 /\ dest' = dest /\ count' = count
      /\ interning' = interning /\ capacity' = capacity /\ entries' = entries /\ call' = call
      /\ from' = from /\ white' = white /\ resume' = resume
  BY DEF Rehash, IInv
<1>2. i \in Nat /\ Typed'
  BY <1>1 DEF IInv, Typed
<1>3. NewMask' = NewMask /\ Inserting' = Inserting /\ Passed' = Passed
  BY <1>1 DEF NewMask, NewSize, Inserting, Passed
<1>4. Moving /\ capacity \in Nat \cup {-1}
  BY <1>1, MovingIs, NewMaskIs
<1>5. Moving'
  <2>1. 0 .. (i + 1) - 1 = (0 .. i - 1) \cup {i} /\ i + 1 <= capacity + 1
    BY <1>1, <1>2, <1>4
  <2>2. Keyed(entries, (0 .. i - 1) \cup {i}) = Keyed(entries, 0 .. i - 1)
    BY DEF Keyed
  <2>3. Within(entries, (0 .. i - 1) \cup {i}, dest, 0 .. NewMask)
    BY <1>4 DEF Within, Moving
  <2>4. Within(dest, 0 .. NewMask, entries, (0 .. i - 1) \cup {i})
    BY <1>4 DEF Within, Moving
  <2> QED BY <1>1, <1>3, <1>4, <2>1, <2>2, <2>3, <2>4 DEF Moving
<1>6. Copying => Copying'
  BY <1>1, <1>3 DEF Copying
<1> QED BY <1>1, <1>2, <1>3, <1>5, <1>6 DEF IInv

\* A key of the old array is not in the new one yet; it gets an empty slot there.
LEMMA RehashMoves ==
  ASSUME IInv, Rehash, entries[i].key # NULL
  PROVE  IInv'
<1> DEFINE e == entries[i]
           s == FindEntry(dest, NewMask, e.key)
           F == [dest EXCEPT ![s] = e]
<1>1. /\ pc = "rehash" /\ pc' = "rehash" /\ i <= capacity /\ i' = i + 1 /\ dest' = F /\ count' = count + 1
      /\ interning' = interning /\ capacity' = capacity /\ entries' = entries /\ call' = call
      /\ from' = from /\ white' = white /\ resume' = resume
  BY DEF Rehash, IInv, NewMask
<1>2. i \in Nat /\ Typed'
  BY <1>1 DEF IInv, Typed
<1>3. NewMask' = NewMask /\ Inserting' = Inserting /\ Passed' = Passed
  BY <1>1 DEF NewMask, NewSize, Inserting, Passed
<1>4. /\ Moving /\ count \in Nat /\ count = Used(dest, NewMask) /\ IsFiniteSet(Keyed(entries, 0 .. i - 1))
      /\ \E x \in 0 .. NewMask : dest[x] = Empty
  BY <1>1, MovingIs
<1>5. capacity \in Nat \cup {-1} /\ NewMask \in Nat /\ Sound(entries, capacity)
  BY NewMaskIs DEF IInv
<1>6. i \in 0 .. capacity /\ e \in Entry /\ e.key \in Key
  BY <1>1, <1>2, <1>5, SoundIs, EntryIs
<1>7. \A t \in 0 .. NewMask : dest[t].key # e.key
  <2> SUFFICES ASSUME NEW t \in 0 .. NewMask, dest[t].key = e.key PROVE FALSE
    OBVIOUS
  <2>1. PICK x \in 0 .. i - 1 : entries[x] = dest[t]
    BY <1>4 DEF Moving, Within
  <2>2. x \in 0 .. capacity /\ x # i
    BY <1>1, <1>2, <1>5
  <2> QED BY <1>5, <1>6, <2>1, <2>2, KeysDistinct
<1> HIDE DEF e
<1>8. /\ s \in 0 .. NewMask /\ dest[s].key \in {e.key, NULL}
      /\ IsArray(F, NewMask) /\ Reachable(F, NewMask)
      /\ \A t \in 0 .. NewMask : F[t] = IF t = s THEN e ELSE dest[t]
      /\ Used(F, NewMask) = IF dest[s] = Empty THEN Used(dest, NewMask) + 1 ELSE Used(dest, NewMask)
  BY <1>4, <1>5, <1>6, SoundSet DEF Moving
<1> HIDE DEF s, F
<1>9. dest[s] = Empty /\ dest[s].key = NULL
  BY <1>4, <1>7, <1>8 DEF Moving
<1>10. Moving'
  <2> DEFINE S == 0 .. i - 1
  <2>1. 0 .. (i + 1) - 1 = S \cup {i} /\ i + 1 <= capacity + 1 /\ i \notin S
    BY <1>1, <1>2, <1>5
  <2>2. /\ Within(entries, S, dest, 0 .. NewMask) /\ Within(dest, 0 .. NewMask, entries, S)
        /\ \A t \in 0 .. NewMask : dest[t].key = NULL => dest[t] = Empty
        /\ count = Cardinality(Keyed(entries, S)) /\ IsFiniteSet(Keyed(entries, S))
    BY <1>4 DEF Moving
  <2> HIDE DEF S
  <2>3. Keyed(entries, S \cup {i}) = Keyed(entries, S) \cup {i} /\ i \notin Keyed(entries, S)
    BY <2>1 DEF Keyed
  <2>4. Cardinality(Keyed(entries, S \cup {i})) = count + 1
    BY <2>2, <2>3, FS_AddElement
  <2>5. Within(entries, S \cup {i}, F, 0 .. NewMask)
    BY <1>8, <1>9, <2>2 DEF Within, e
  <2>6. Within(F, 0 .. NewMask, entries, S \cup {i})
    BY <1>8, <2>2 DEF Within, e
  <2>7. \A t \in 0 .. NewMask : F[t].key = NULL => F[t] = Empty
    BY <1>6, <1>8, <2>2, TableAssumption
  <2> QED BY <1>1, <1>3, <1>8, <2>1, <2>4, <2>5, <2>6, <2>7 DEF Moving, S
<1>11. Copying => Copying'
  BY <1>1, <1>3 DEF Copying
<1>12. count' = Used(dest', NewMask)
  BY <1>1, <1>4, <1>8, <1>9
<1>13. /\ (call.op # "none" /\ call.key \in Key) /\ Inserting
       /\ (call.op = "copy" => Copying) /\ Sound(from.entries, from.capacity)
       /\ (capacity = -1 \/ capacity + 1 >= MinSize)
  BY <1>1 DEF IInv, Inserting
<1> QED BY <1>1, <1>2, <1>3, <1>5, <1>10, <1>11, <1>12, <1>13 DEF IInv

\* The new array takes the place of the old: the same keys and values, and room for one more.
LEMMA RehashedStep ==
  ASSUME IInv, Rehashed
  PROVE  IInv'
<1>1. /\ pc = "rehash" /\ pc' = "insert" /\ i > capacity /\ i' = 0 /\ dest' = NoTable /\ count' = count
      /\ interning' = interning /\ capacity' = NewMask /\ entries' = dest /\ call' = call
      /\ from' = from /\ white' = white /\ resume' = resume
  BY DEF Rehashed, NewMask
<1>2. i \in Nat /\ Typed'
  BY <1>1 DEF IInv, Typed
<1>3. Inserting' /\ Inserting /\ Passed' = Passed
  BY <1>1 DEF Inserting, Passed
<1>4. /\ Moving /\ count \in Nat /\ count = Used(dest, NewMask) /\ 4 * (count + 1) <= 3 * (NewMask + 1)
  BY <1>1, MovingIs
<1>5. capacity \in Nat \cup {-1} /\ NewMask \in Nat /\ NewMask + 1 >= MinSize
  BY NewMaskIs
<1>6. Sound(dest, NewMask)
  <2>1. 4 * count <= 3 * (NewMask + 1)
    BY <1>4, <1>5
  <2> QED BY <1>4, <1>5, <2>1 DEF Sound, Moving
<1>7. Within(entries, 0 .. capacity, dest, 0 .. NewMask) /\ Within(dest, 0 .. NewMask, entries, 0 .. capacity)
  <2>1. i - 1 = capacity
    BY <1>1, <1>2, <1>4, <1>5 DEF Moving
  <2> QED BY <1>4, <2>1 DEF Moving
<1>8. Copying => Copying'
  <2> SUFFICES ASSUME Copying PROVE Copying'
    OBVIOUS
  <2>1. /\ Within(from.entries, Passed, dest, 0 .. NewMask)
        /\ Within(dest, 0 .. NewMask, from.entries, Passed)
    BY <1>7, WithinTrans DEF Copying
  <2> QED BY <1>1, <1>3, <2>1 DEF Copying
<1>9. /\ call.op # "none" /\ call.key \in Key
      /\ (call.op = "copy" => Copying) /\ Sound(from.entries, from.capacity)
  BY <1>3 DEF IInv
<1> QED BY <1>1, <1>2, <1>3, <1>4, <1>5, <1>6, <1>8, <1>9 DEF IInv

\* What the rest of tableSet does to the array.
LEMMA InsertIs ==
  ASSUME IInv, Insert
  PROVE  LET s == FindEntry(entries, capacity, call.key)
             e == [key |-> call.key, value |-> call.value]
         IN  /\ pc = "insert" /\ capacity \in Nat /\ capacity' = capacity /\ interning' = interning
             /\ i' = i /\ dest' = dest /\ from' = from /\ white' = white /\ resume' = resume
             /\ call.key \in Key /\ e \in Entry /\ dest = NoTable /\ count = Used(entries, capacity)
             /\ s \in 0 .. capacity /\ entries[s].key \in {call.key, NULL}
             /\ \A t \in 0 .. capacity : t # s => entries[t].key # call.key
             /\ \A t \in 0 .. capacity : entries'[t] = IF t = s THEN e ELSE entries[t]
             /\ Sound(entries', capacity) /\ count' = Used(entries', capacity)
<1> DEFINE s == FindEntry(entries, capacity, call.key)
           e == [key |-> call.key, value |-> call.value]
           F == [entries EXCEPT ![s] = e]
<1>1. /\ pc = "insert" /\ capacity' = capacity /\ interning' = interning /\ entries' = F
      /\ count' = IF entries[s] = Empty THEN count + 1 ELSE count
      /\ i' = i /\ dest' = dest /\ from' = from /\ white' = white /\ resume' = resume
  BY DEF Insert, loop
<1>2. /\ Sound(entries, capacity) /\ count = Used(entries, capacity) /\ dest = NoTable
      /\ 4 * (count + 1) <= 3 * (capacity + 1) /\ call.key \in Key
  BY <1>1 DEF IInv, Inserting
<1>3. /\ count \in Nat /\ IsArray(entries, capacity) /\ Reachable(entries, capacity) /\ capacity \in Nat
      /\ \E x \in 0 .. capacity : entries[x] = Empty
  BY <1>2, SoundIs
<1>4. e \in Entry /\ e.key = call.key
  BY <1>2 DEF Entry, IInv, Typed
<1> HIDE DEF e
<1>5. /\ s \in 0 .. capacity /\ entries[s].key \in {call.key, NULL}
      /\ \A t \in 0 .. capacity : t # s => entries[t].key # call.key
      /\ IsArray(F, capacity) /\ Reachable(F, capacity)
      /\ \A t \in 0 .. capacity : F[t] = IF t = s THEN e ELSE entries[t]
      /\ Used(F, capacity) = IF entries[s] = Empty THEN Used(entries, capacity) + 1 ELSE Used(entries, capacity)
  BY <1>2, <1>3, <1>4, SoundSet
<1> HIDE DEF s, F
<1>6. count' = Used(F, capacity) /\ 4 * Used(F, capacity) <= 3 * (capacity + 1)
  BY <1>1, <1>2, <1>3, <1>5
<1>7. Sound(F, capacity)
  BY <1>3, <1>5, <1>6 DEF Sound
<1> QED BY <1>1, <1>2, <1>3, <1>4, <1>5, <1>6, <1>7 DEF s, e

\* The call of tableSet that the copy makes ends: one more entry of the source is there.
LEMMA InsertCopies ==
  ASSUME IInv, Insert, call.op = "copy"
  PROVE  IInv'
<1> DEFINE s == FindEntry(entries, capacity, call.key)
           e == [key |-> call.key, value |-> call.value]
<1>1. /\ pc = "insert" /\ capacity \in Nat /\ capacity' = capacity /\ interning' = interning
      /\ i' = i /\ dest' = dest /\ from' = from /\ white' = white /\ resume' = resume
      /\ call.key \in Key /\ dest = NoTable
      /\ s \in 0 .. capacity /\ entries[s].key \in {call.key, NULL}
      /\ \A t \in 0 .. capacity : t # s => entries[t].key # call.key
      /\ \A t \in 0 .. capacity : entries'[t] = IF t = s THEN e ELSE entries[t]
      /\ Sound(entries', capacity) /\ count' = Used(entries', capacity)
  BY InsertIs
<1>2. pc' = "copy" /\ call' = call
  BY DEF Insert
<1> HIDE DEF s
<1>3. Typed'
  BY <1>1, <1>2 DEF IInv, Typed
<1>4. ~Inserting' /\ Inserting
  BY <1>1, <1>2 DEF Inserting
<1>5. /\ Copying /\ from.i \in Nat /\ Sound(from.entries, from.capacity)
      /\ (capacity = -1 \/ capacity + 1 >= MinSize)
  BY DEF IInv, Typed
<1>6. from.i >= 1 /\ from.i - 1 \in 0 .. from.capacity /\ from.entries[from.i - 1] = e /\ e.key = call.key
  BY <1>4, <1>5, SoundIs DEF Copying
<1> HIDE DEF e
<1>7. Copying'
  <2> DEFINE x == from.i - 1
  <2>1. Passed = 0 .. x - 1 /\ Passed' = 0 .. x /\ 0 .. x = (0 .. x - 1) \cup {x}
    BY <1>1, <1>4, <1>5, <1>6 DEF Passed
  <2>2. /\ Within(from.entries, 0 .. x - 1, entries, 0 .. capacity)
        /\ Within(entries, 0 .. capacity, from.entries, 0 .. x - 1)
    BY <1>5, <2>1 DEF Copying
  <2>3. ASSUME NEW y \in (0 .. x - 1) \cup {x}, from.entries[y].key # NULL
        PROVE  \E t \in 0 .. capacity : entries'[t] = from.entries[y]
    <3>1. CASE y = x
      BY <1>1, <1>6, <3>1
    <3>2. CASE y # x
      <4>1. PICK t \in 0 .. capacity : entries[t] = from.entries[y]
        BY <2>2, <2>3, <3>2 DEF Within
      <4>2. y \in 0 .. from.capacity /\ x \in 0 .. from.capacity
        <5>1. x \in 0 .. from.capacity /\ y \in 0 .. x /\ from.capacity \in Nat \cup {-1}
          BY <1>5, <1>6, <2>3, SoundIs
        <5> QED BY <5>1
      <4>3. entries[t].key # call.key
        BY <1>5, <1>6, <2>3, <3>2, <4>1, <4>2, KeysDistinct
      <4>4. t # s
        BY <1>1, <2>3, <4>1, <4>3
      <4> QED BY <1>1, <4>1, <4>4
    <3> QED BY <3>1, <3>2
  <2>4. Within(from.entries, (0 .. x - 1) \cup {x}, entries', 0 .. capacity)
    BY <2>3 DEF Within
  <2>5. Within(entries', 0 .. capacity, from.entries, (0 .. x - 1) \cup {x})
    BY <1>1, <1>6, <2>2 DEF Within
  <2>6. interning' = interning /\ from'.i <= from'.capacity + 1 /\ ~interning
    BY <1>1, <1>5 DEF Copying
  <2>7. /\ Within(from.entries, Passed', entries', 0 .. capacity)
        /\ Within(entries', 0 .. capacity, from.entries, Passed')
    BY <2>1, <2>4, <2>5
  <2>8. from' = from /\ capacity' = capacity /\ pc' = "copy"
    BY <1>1, <1>2
  <2> HIDE DEF x
  <2> QED BY <1>4, <2>6, <2>7, <2>8 DEF Copying
<1>8. call.op = "copy"
  OBVIOUS
<1> QED BY <1>1, <1>2, <1>3, <1>4, <1>5, <1>7, <1>8 DEF IInv

\* A call of tableSet from outside ends.
LEMMA InsertEnds ==
  ASSUME IInv, Insert, call.op # "copy"
  PROVE  IInv'
<1>1. /\ pc = "insert" /\ capacity \in Nat /\ capacity' = capacity /\ interning' = interning
      /\ i' = i /\ dest' = dest /\ from' = from /\ white' = white /\ resume' = resume
      /\ dest = NoTable /\ Sound(entries', capacity) /\ count' = Used(entries', capacity)
  BY InsertIs
<1>2. pc' = "idle" /\ call' = NoCall
  BY DEF Insert
<1>3. NoCall \in [op : {"none", "set", "copy"}, key : Key \cup {NULL}, value : Value] /\ NoCall.op = "none"
  BY TableAssumption DEF NoCall
<1>4. Typed'
  BY <1>1, <1>2, <1>3 DEF IInv, Typed
<1>5. ~Inserting'
  BY <1>2 DEF Inserting
<1>6. Sound(from.entries, from.capacity) /\ (capacity = -1 \/ capacity + 1 >= MinSize)
  BY DEF IInv
<1> QED BY <1>1, <1>2, <1>3, <1>4, <1>5, <1>6 DEF IInv

\* OP_INHERIT begins: the new table has nothing, and nothing of the source has been passed.
LEMMA StartCopyStep ==
  ASSUME IInv, StartCopy
  PROVE  IInv'
<1>1. /\ pc = "idle" /\ ~interning /\ pc' = "copy" /\ count' = 0 /\ capacity' = -1 /\ entries' = NoTable
      /\ from' = [capacity |-> capacity, entries |-> entries, i |-> 0]
      /\ call' = [NoCall EXCEPT !.op = "copy"]
      /\ interning' = interning /\ i' = i /\ dest' = dest /\ white' = white /\ resume' = resume
  BY DEF StartCopy
<1>2. /\ NoCall \in [op : {"none", "set", "copy"}, key : Key \cup {NULL}, value : Value]
  BY TableAssumption DEF NoCall
<1>3. /\ call' \in [op : {"none", "set", "copy"}, key : Key \cup {NULL}, value : Value] /\ call'.op = "copy"
  BY <1>1, <1>2
<1>4. from'.capacity = capacity /\ from'.entries = entries /\ from'.i = 0
  BY <1>1
<1>5. Typed'
  BY <1>1, <1>3, <1>4 DEF IInv, Typed
<1>6. Sound(entries, capacity) /\ dest = NoTable
  BY <1>1 DEF IInv
<1>7. ~Inserting'
  BY <1>1 DEF Inserting
<1>8. Copying'
  <2>1. Passed' = {} /\ 0 .. capacity' = {}
    BY <1>1, <1>4, <1>7 DEF Passed
  <2>2. from'.i <= from'.capacity + 1
    BY <1>4, <1>6, SoundIs
  <2>3. Within(from'.entries, {}, entries', {}) /\ Within(entries', {}, from'.entries, {})
    BY DEF Within
  <2> QED BY <1>1, <1>7, <2>1, <2>2, <2>3 DEF Copying
<1> QED BY <1>1, <1>3, <1>4, <1>5, <1>6, <1>7, <1>8, SoundNone DEF IInv

\* A turn of tableAddAll: a slot without a key is passed over, another starts a call of tableSet.
LEMMA CopyNextStep ==
  ASSUME IInv, CopyNext
  PROVE  IInv'
<1> DEFINE e == from.entries[from.i]
<1>1. /\ pc = "copy" /\ from.i <= from.capacity /\ from' = [from EXCEPT !.i = @ + 1]
      /\ count' = count /\ capacity' = capacity /\ entries' = entries /\ interning' = interning
      /\ i' = i /\ dest' = dest /\ white' = white /\ resume' = resume
      /\ IF e.key = NULL THEN pc' = pc /\ call' = call
         ELSE /\ call' = [op |-> "copy", key |-> e.key, value |-> e.value]
              /\ pc' = IF Full THEN "grow" ELSE "insert"
  BY DEF CopyNext, table
<1>2. /\ Sound(entries, capacity) /\ Sound(from.entries, from.capacity) /\ dest = NoTable
      /\ count = Used(entries, capacity) /\ (capacity = -1 \/ capacity + 1 >= MinSize)
      /\ call.op = "copy" /\ Copying /\ from.i \in Nat
  BY <1>1 DEF IInv, Typed
<1>3. from'.i = from.i + 1 /\ from'.capacity = from.capacity /\ from'.entries = from.entries
  <2>1. "i" \in DOMAIN from /\ "capacity" \in DOMAIN from /\ "entries" \in DOMAIN from
    BY DEF IInv, Typed
  <2> QED BY <1>1, <2>1
<1>4. from.i \in 0 .. from.capacity /\ e \in Entry /\ from.capacity \in Nat
  BY <1>1, <1>2, SoundIs
<1> HIDE DEF e
<1>5. Passed = 0 .. from.i - 1
  BY <1>1 DEF Passed, Inserting
<1>6. CASE e.key = NULL
  <2>1. ~Inserting' /\ Passed' = (0 .. from.i - 1) \cup {from.i} /\ pc' = "copy" /\ call' = call
    BY <1>1, <1>2, <1>3, <1>6 DEF Passed, Inserting
  <2>2. Typed'
    BY <1>1, <1>2, <1>3, <2>1 DEF IInv, Typed
  <2>3. Copying'
    <3>1. Within(from.entries, Passed', entries, 0 .. capacity)
      BY <1>2, <1>5, <1>6, <2>1 DEF Copying, Within, e
    <3>2. Within(entries, 0 .. capacity, from.entries, Passed')
      BY <1>2, <1>5, <2>1 DEF Copying, Within
    <3>3. from'.i <= from'.capacity + 1
      BY <1>1, <1>2, <1>3, <1>4
    <3> QED BY <1>1, <1>2, <1>3, <2>1, <3>1, <3>2, <3>3 DEF Copying
  <2> QED BY <1>1, <1>2, <1>3, <2>1, <2>2, <2>3 DEF IInv
<1>7. CASE e.key # NULL
  <2>1. /\ pc' \in {"grow", "insert"} /\ call'.op = "copy" /\ call'.key = e.key /\ call'.value = e.value
        /\ call' \in [op : {"none", "set", "copy"}, key : Key \cup {NULL}, value : Value]
        /\ call'.key \in Key /\ e = [key |-> call'.key, value |-> call'.value]
    BY <1>1, <1>4, <1>7, EntryIs DEF Entry
  <2>2. Inserting' /\ Passed' = 0 .. from.i - 1
    BY <1>2, <1>3, <2>1 DEF Passed, Inserting
  <2>3. Typed'
    BY <1>1, <1>2, <1>3, <2>1 DEF IInv, Typed
  <2>4. Copying'
    <3>1. from'.i <= from'.capacity + 1 /\ from'.i >= 1 /\ from'.i - 1 = from.i
      BY <1>1, <1>2, <1>3, <1>4
    <3>2. from'.entries[from'.i - 1] = [key |-> call'.key, value |-> call'.value]
      BY <1>3, <2>1, <3>1 DEF e
    <3>3. /\ Within(from'.entries, Passed', entries', 0 .. capacity')
          /\ Within(entries', 0 .. capacity', from'.entries, Passed')
      BY <1>1, <1>2, <1>3, <1>5, <2>2 DEF Copying
    <3> QED BY <1>1, <1>2, <2>2, <3>1, <3>2, <3>3 DEF Copying
  <2>5. pc' = "insert" => 4 * (count + 1) <= 3 * (capacity + 1)
    BY <1>1, <1>2, <1>7, SoundIs DEF Full
  <2>6. /\ count' = count /\ capacity' = capacity /\ entries' = entries /\ dest' = dest
    BY <1>1
  <2> QED BY <1>2, <1>3, <2>1, <2>2, <2>3, <2>4, <2>5, <2>6 DEF IInv
<1> QED BY <1>6, <1>7

\* OP_INHERIT ends.
LEMMA CopyDoneStep ==
  ASSUME IInv, CopyDone
  PROVE  IInv'
<1>1. /\ pc = "copy" /\ pc' = "idle" /\ from' = NoSource /\ call' = NoCall
      /\ count' = count /\ capacity' = capacity /\ entries' = entries /\ interning' = interning
      /\ i' = i /\ dest' = dest /\ white' = white /\ resume' = resume
  BY DEF CopyDone, table
<1>2. NoCall \in [op : {"none", "set", "copy"}, key : Key \cup {NULL}, value : Value] /\ NoCall.op = "none"
  BY TableAssumption DEF NoCall
<1>3. /\ NoSource.capacity = -1 /\ NoSource.entries = NoTable /\ NoSource.i = 0
      /\ DOMAIN NoSource = {"capacity", "entries", "i"}
  BY DEF NoSource
<1>4. Typed'
  BY <1>1, <1>2, <1>3 DEF IInv, Typed
<1>5. ~Inserting'
  BY <1>1 DEF Inserting
<1> QED BY <1>1, <1>2, <1>3, <1>4, <1>5, SoundNone DEF IInv

\* The collector comes to vm.strings, no call in progress or one that grows the table.
LEMMA StartWhiteStep ==
  ASSUME IInv, NEW W \in SUBSET Key, StartWhite(W)
  PROVE  IInv'
<1>1. /\ pc \in {"idle", "grow"} /\ interning /\ call.key \notin W /\ white' = W /\ i' = 0
      /\ resume' = pc /\ pc' = "white"
      /\ count' = count /\ capacity' = capacity /\ entries' = entries /\ interning' = interning
      /\ call' = call /\ dest' = dest /\ from' = from
  BY DEF StartWhite, table
<1>2. Typed'
  BY <1>1 DEF IInv, Typed
<1>3. ~Inserting' /\ (pc = "grow" => Inserting)
  BY <1>1 DEF Inserting
<1>4. call.op # "copy"
  BY <1>1 DEF IInv, Copying
<1>5. IF resume' = "idle" THEN call = NoCall ELSE call.op = "set" /\ call.key \in Key
  <2>1. CASE pc = "idle"
    BY <1>1, <2>1 DEF IInv
  <2>2. CASE pc = "grow"
    BY <1>1, <1>3, <1>4, <2>2 DEF IInv, Typed
  <2> QED BY <1>1, <2>1, <2>2
<1>6. \A s \in 0 .. capacity' : s < i' => entries'[s].key \notin white'
  BY <1>1
<1>7. Clearing'
  BY <1>1, <1>4, <1>5, <1>6 DEF Clearing
<1> QED BY <1>1, <1>2, <1>3, <1>4, <1>7 DEF IInv

\* A turn of tableRemoveWhite.
LEMMA WhiteNextStep ==
  ASSUME IInv, WhiteNext
  PROVE  IInv'
<1> DEFINE k == entries[i].key
<1>1. /\ pc = "white" /\ pc' = "white" /\ i < capacity /\ i' = i + 1
      /\ entries' = (IF k \in white THEN Deleted(k) ELSE entries)
      /\ count' = count /\ capacity' = capacity /\ interning' = interning
      /\ call' = call /\ dest' = dest /\ from' = from /\ white' = white /\ resume' = resume
  BY DEF WhiteNext, IInv
<1>2. Typed' /\ i \in Nat /\ white \in SUBSET Key
  BY <1>1 DEF IInv, Typed
<1>3. ~Inserting' /\ Clearing
  BY <1>1 DEF Inserting, IInv
<1>4. /\ Sound(entries, capacity) /\ Sound(from.entries, from.capacity) /\ dest = NoTable
      /\ count = Used(entries, capacity) /\ (capacity = -1 \/ capacity + 1 >= MinSize)
  BY <1>1 DEF IInv
<1> HIDE DEF k
<1>5. /\ Sound(entries', capacity) /\ Used(entries', capacity) = count
      /\ \A t \in 0 .. capacity : entries'[t] = IF k \in white /\ entries[t].key = k THEN Tombstone ELSE entries[t]
  <2>1. CASE k \in white
    <3>1. k \in Key
      BY <1>2, <2>1
    <3> QED BY <1>1, <1>4, <2>1, <3>1, DeletedIs
  <2>2. CASE k \notin white
    BY <1>1, <1>4, <2>2
  <2> QED BY <2>1, <2>2
<1>6. \A s \in 0 .. capacity : s < i + 1 => entries'[s].key \notin white
  <2> SUFFICES ASSUME NEW s \in 0 .. capacity, s < i + 1 PROVE entries'[s].key \notin white
    OBVIOUS
  <2>1. Tombstone.key \notin white
    BY <1>2, EntryIs, TableAssumption
  <2>2. s < i => entries[s].key \notin white
    BY <1>3 DEF Clearing
  <2>3. s = i \/ s < i
    BY <1>2
  <2> QED BY <1>5, <2>1, <2>2, <2>3 DEF k
<1>7. Clearing'
  BY <1>1, <1>3, <1>6 DEF Clearing
<1>8. call.op # "copy"
  BY <1>3 DEF Clearing
<1> QED BY <1>1, <1>2, <1>3, <1>4, <1>5, <1>7, <1>8 DEF IInv

\* The collector goes back to where it was called from.
LEMMA WhiteDoneStep ==
  ASSUME IInv, WhiteDone
  PROVE  IInv'
<1>1. /\ pc = "white" /\ pc' = resume /\ white' = {} /\ i' = 0 /\ resume' = "idle"
      /\ count' = count /\ capacity' = capacity /\ entries' = entries /\ interning' = interning
      /\ call' = call /\ dest' = dest /\ from' = from
  BY DEF WhiteDone, table
<1>2. Typed' /\ resume \in {"idle", "grow"}
  BY <1>1 DEF IInv, Typed
<1>3. Clearing
  BY <1>1 DEF IInv
<1>4. Inserting' => pc' = "grow" /\ call.op = "set" /\ call.key \in Key
  BY <1>1, <1>2, <1>3 DEF Inserting, Clearing
<1>5. pc' = "idle" => call = NoCall
  BY <1>1, <1>3 DEF Clearing
<1>6. call.op # "copy"
  BY <1>3 DEF Clearing
<1>7. pc' \in {"idle", "grow"}
  BY <1>1, <1>2
<1>8. /\ Sound(entries, capacity) /\ Sound(from.entries, from.capacity) /\ dest = NoTable
      /\ count = Used(entries, capacity) /\ (capacity = -1 \/ capacity + 1 >= MinSize)
  BY <1>1 DEF IInv
<1>9. /\ count' = count /\ capacity' = capacity /\ entries' = entries
      /\ call' = call /\ dest' = dest /\ from' = from
  BY <1>1
<1> QED BY <1>2, <1>4, <1>5, <1>6, <1>7, <1>8, <1>9 DEF IInv

\* Every step of the table keeps the invariant.
LEMMA NextStep ==
  ASSUME IInv, [Next]_vars
  PROVE  IInv'
<1>1. ASSUME NEW k \in Key, TableGet(k) PROVE IInv'
  BY <1>1, SameStep DEF TableGet
<1>2. ASSUME NEW k \in Key, TableFindString(k) PROVE IInv'
  BY <1>2, SameStep DEF TableFindString
<1>3. ASSUME NEW k \in Key, TableDelete(k) PROVE IInv'
  BY <1>3, DeleteStep
<1>4. ASSUME NEW k \in Key, NEW v \in Value, TableSet(k, v) PROVE IInv'
  BY <1>4, SetStep
<1>5. ASSUME Rehash PROVE IInv'
  BY <1>5, RehashSkips, RehashMoves
<1>6. ASSUME Insert PROVE IInv'
  BY <1>6, InsertCopies, InsertEnds
<1>7. ASSUME NEW W \in SUBSET Key, StartWhite(W) PROVE IInv'
  BY <1>7, StartWhiteStep
<1>8. ASSUME UNCHANGED vars PROVE IInv'
  BY <1>8, SameStep DEF vars
<1> QED BY <1>1, <1>2, <1>3, <1>4, <1>5, <1>6, <1>7, <1>8, AllocatedStep, RehashedStep, StartCopyStep,
           CopyNextStep, CopyDoneStep, WhiteNextStep, WhiteDoneStep DEF Next

\* IInv holds of every state that the code reaches.
THEOREM Invariance == Spec => []IInv
<1>1. Init => IInv
  BY InitStep
<1>2. IInv /\ [Next]_vars => IInv'
  BY NextStep
<1> QED BY <1>1, <1>2, PTL DEF Spec

-----------------------------------------------------------------------------
(* The properties of the arrays.                                           *)

\* IInv is stronger than TypeOK.
LEMMA TypeFrom ==
  ASSUME IInv
  PROVE  TypeOK
<1>1. /\ Typed /\ Sound(entries, capacity) /\ Sound(from.entries, from.capacity)
      /\ (pc # "rehash" => dest = NoTable /\ count = Used(entries, capacity))
  BY DEF IInv
<1>2. pc = "rehash" => /\ count = Used(dest, NewMask) /\ IsArray(dest, NewMask)
                       /\ count <= Used(entries, capacity) /\ count \in Nat
  BY MovingIs DEF Moving
<1>3. /\ capacity \in Nat \cup {-1} /\ IsArray(entries, capacity) /\ IsArray(from.entries, from.capacity)
      /\ from.capacity \in Nat \cup {-1} /\ Used(entries, capacity) \in Nat
      /\ 4 * Used(entries, capacity) <= 3 * (capacity + 1)
  BY <1>1, SoundIs
<1>4. 4 * count <= 3 * (capacity + 1)
  <2> DEFINE u == Used(entries, capacity)
  <2>1. count \in Nat /\ count <= u /\ u \in Nat /\ 4 * u <= 3 * (capacity + 1)
    BY <1>1, <1>2, <1>3
  <2> HIDE DEF u
  <2> QED BY <1>3, <2>1
<1> QED BY <1>1, <1>2, <1>3, <1>4 DEF TypeOK, Typed, NewMask

\* Every array there is, the one that is being filled too, is in order.
LEMMA ArraysAre ==
  ASSUME IInv, NEW a \in Arrays
  PROVE  /\ a[2] \in Nat \cup {-1} /\ IsArray(a[1], a[2]) /\ Reachable(a[1], a[2])
         /\ a[2] \in Nat => \E s \in 0 .. a[2] : a[1][s] = Empty
<1>1. CASE a = <<entries, capacity>> \/ a = <<from.entries, from.capacity>>
  <2>1. Sound(a[1], a[2])
    BY <1>1 DEF IInv
  <2> QED BY <2>1, SoundIs
<1>2. CASE pc = "rehash" /\ a = <<dest, NewMask>>
  BY <1>2, MovingIs, NewMaskIs DEF Moving
<1> QED BY <1>1, <1>2 DEF Arrays, NewMask

\* TypeOK, for every set of keys, every hash function and every size of the array.
THEOREM TypeCorrect == Spec => []TypeOK
<1>1. IInv => TypeOK
  BY TypeFrom
<1> QED BY <1>1, Invariance, PTL

\* findEntry and tableFindString come to an end on every array that the code probes.
THEOREM ProbesTerminate == Spec => []ProbesEnd
<1>1. IInv => ProbesEnd
  <2> SUFFICES ASSUME IInv, NEW a \in Arrays, a[2] >= 0 PROVE \E s \in 0 .. a[2] : a[1][s] = Empty
    BY DEF ProbesEnd
  <2>1. a[2] \in Nat
    BY ArraysAre
  <2> QED BY <2>1, ArraysAre
<1> QED BY <1>1, Invariance, PTL

\* A key that is in an array is found there, and once, after any sets, deletions, growth and copies.
THEOREM KeysFound == Spec => []KeysFindable
<1>1. IInv => KeysFindable
  <2> SUFFICES ASSUME IInv, NEW a \in Arrays, NEW s \in 0 .. a[2], a[1][s].key # NULL
               PROVE  FindEntry(a[1], a[2], a[1][s].key) = s
    BY DEF KeysFindable
  <2>1. a[2] \in Nat \cup {-1} /\ s \in 0 .. a[2]
    BY ArraysAre
  <2>2. a[2] \in Nat
    BY <2>1
  <2> QED BY <2>2, ArraysAre, FoundWhere
<1> QED BY <1>1, Invariance, PTL

-----------------------------------------------------------------------------
(* The map that an array stands for.                                       *)

\* The contents are a function on the keys that slots have, to the values there.
LEMMA ContentsAre ==
  ASSUME NEW cap, NEW E, Sound(E, cap)
  PROVE  LET c == Contents(E, cap) IN
         /\ c = [k \in DOMAIN c |-> c[k]]
         /\ \A k : k \in DOMAIN c <=> k # NULL /\ \E s \in 0 .. cap : E[s].key = k
         /\ \A s \in 0 .. cap : E[s].key # NULL => c[E[s].key] = E[s].value
<1> DEFINE D == {E[s].key : s \in 0 .. cap} \ {NULL}
           c == Contents(E, cap)
<1>1. c = [k \in D |-> E[CHOOSE s \in 0 .. cap : E[s].key = k].value]
  BY DEF Contents
<1>2. \A k : k \in D <=> k # NULL /\ \E s \in 0 .. cap : E[s].key = k
  OBVIOUS
<1>3. ASSUME NEW s \in 0 .. cap, E[s].key # NULL
      PROVE  c[E[s].key] = E[s].value
  <2> DEFINE k == E[s].key
             t == CHOOSE x \in 0 .. cap : E[x].key = k
  <2>1. t \in 0 .. cap /\ E[t].key = k
    OBVIOUS
  <2>2. k \in D
    BY <1>2, <1>3
  <2>3. c[k] = E[t].value
    BY <1>1, <2>2
  <2> HIDE DEF t
  <2>4. t = s
    BY <1>3, <2>1, KeysDistinct
  <2> QED BY <2>3, <2>4
<1> HIDE DEF D, c
<1>4. DOMAIN c = D /\ c = [k \in DOMAIN c |-> c[k]]
  BY <1>1
<1> QED BY <1>2, <1>3, <1>4 DEF c

\* Whatever agrees with every slot that has a key is the contents.
LEMMA ContentsAgree ==
  ASSUME NEW cap, NEW E, Sound(E, cap), NEW f, f = [k \in DOMAIN f |-> f[k]],
         \A k : k \in DOMAIN f <=> k # NULL /\ \E s \in 0 .. cap : E[s].key = k,
         \A s \in 0 .. cap : E[s].key # NULL => f[E[s].key] = E[s].value
  PROVE  Contents(E, cap) = f
<1> DEFINE c == Contents(E, cap)
<1>1. /\ c = [k \in DOMAIN c |-> c[k]]
      /\ \A k : k \in DOMAIN c <=> k # NULL /\ \E s \in 0 .. cap : E[s].key = k
      /\ \A s \in 0 .. cap : E[s].key # NULL => c[E[s].key] = E[s].value
  BY ContentsAre
<1> HIDE DEF c
<1>2. DOMAIN c = DOMAIN f
  BY <1>1
<1>3. \A k \in DOMAIN f : c[k] = f[k]
  BY <1>1
<1>4. c = f
  BY <1>1, <1>2, <1>3
<1> QED BY <1>4 DEF c

\* Two arrays with the same entries stand for the same map, wherever their slots are.
LEMMA SameContents ==
  ASSUME NEW cap, NEW E, Sound(E, cap), NEW m, NEW F, Sound(F, m),
         Within(E, 0 .. cap, F, 0 .. m), Within(F, 0 .. m, E, 0 .. cap)
  PROVE  Contents(E, cap) = Contents(F, m)
<1> DEFINE f == Contents(F, m)
<1>1. /\ f = [k \in DOMAIN f |-> f[k]]
      /\ \A k : k \in DOMAIN f <=> k # NULL /\ \E s \in 0 .. m : F[s].key = k
      /\ \A s \in 0 .. m : F[s].key # NULL => f[F[s].key] = F[s].value
  BY ContentsAre
<1> HIDE DEF f
<1>2. \A k : k \in DOMAIN f <=> k # NULL /\ \E s \in 0 .. cap : E[s].key = k
  BY <1>1 DEF Within
<1>3. \A s \in 0 .. cap : E[s].key # NULL => f[E[s].key] = E[s].value
  BY <1>1 DEF Within
<1>4. Contents(E, cap) = f
  BY <1>1, <1>2, <1>3, ContentsAgree
<1> QED BY <1>4 DEF f

-----------------------------------------------------------------------------
(* The table as a map.                                                     *)

\* Outside the collector's pass the map is what is in the array, or in the one that is copied.
LEMMA MeantIs ==
  ASSUME IInv, pc # "white"
  PROVE  Meant = IF call.op = "copy" THEN Contents(from.entries, from.capacity)
                 ELSE Contents(entries, capacity)
<1> DEFINE c == Contents(entries, capacity)
<1>1. c = [k \in DOMAIN c |-> c[k]]
  BY ContentsAre DEF IInv
<1> HIDE DEF c
<1>2. DOMAIN c \ Doomed = DOMAIN c
  BY DEF Doomed
<1>3. [k \in DOMAIN c \ Doomed |-> c[k]] = c
  BY <1>1, <1>2
<1> QED BY <1>3 DEF Meant, c

\* So it is after a step.
LEMMA MeantNext ==
  (IInv /\ pc # "white" =>
     Meant = IF call.op = "copy" THEN Contents(from.entries, from.capacity) ELSE Contents(entries, capacity))'
<1>1. IInv /\ pc # "white" =>
        Meant = IF call.op = "copy" THEN Contents(from.entries, from.capacity) ELSE Contents(entries, capacity)
  BY MeantIs
<1> QED BY <1>1, PTL

\* A new table is an empty map.
LEMMA InitMap ==
  ASSUME Init
  PROVE  Map!Init
<1> DEFINE f == [k \in {} |-> NULL]
<1>1. IInv /\ pc = "idle" /\ call.op = "none" /\ entries = NoTable /\ capacity = -1
  BY InitStep DEF Init, NoCall
<1>2. Meant = Contents(NoTable, -1)
  BY <1>1, MeantIs
<1>3. f = [k \in DOMAIN f |-> f[k]] /\ 0 .. -1 = {} /\ DOMAIN f = {}
  OBVIOUS
<1> HIDE DEF f
<1>4. Contents(NoTable, -1) = f
  BY <1>3, SoundNone, ContentsAgree
<1> QED BY <1>2, <1>4 DEF Init, Map!Init, f

\* Between two calls the map is what is in the array, and a key is held if the map has it.
LEMMA IdleIs ==
  ASSUME IInv, pc = "idle"
  PROVE  /\ Meant = Contents(entries, capacity) /\ Sound(entries, capacity)
         /\ count = Used(entries, capacity)
         /\ \A k \in Key : Held(k) <=> k \in DOMAIN Meant
         /\ \A k \in Key : Held(k) => entries[FindEntry(entries, capacity, k)].value = Meant[k]
<1>1. /\ Meant = Contents(entries, capacity) /\ Sound(entries, capacity)
      /\ count = Used(entries, capacity)
  BY MeantIs DEF IInv, NoCall
<1> SUFFICES ASSUME NEW k \in Key
             PROVE  /\ Held(k) <=> k \in DOMAIN Meant
                    /\ Held(k) => entries[FindEntry(entries, capacity, k)].value = Meant[k]
  BY <1>1
<1>2. k # NULL
  BY TableAssumption
<1>3. Held(k) <=> k \in DOMAIN Meant
  BY <1>1, <1>2, HeldIs, ContentsAre
<1>4. ASSUME Held(k)
      PROVE  entries[FindEntry(entries, capacity, k)].value = Meant[k]
  <2>1. PICK s \in 0 .. capacity : entries[s].key = k /\ FindEntry(entries, capacity, k) = s
    BY <1>1, <1>4, HeldIs
  <2> QED BY <1>1, <1>2, <2>1, ContentsAre
<1> QED BY <1>3, <1>4

\* What leaves the table alone leaves the map alone.
LEMMA MeantSame ==
  ASSUME UNCHANGED <<table, pc, call, loop>>
  PROVE  Meant' = Meant
BY DEF Meant, Doomed, Contents, table, loop

\* tableGet answers from the map.
LEMMA GetMap ==
  ASSUME IInv, NEW k \in Key, TableGet(k)
  PROVE  Map!Get(k)
<1>1. /\ pc = "idle" /\ Meant' = Meant
      /\ reply' = [op |-> "get", key |-> k,
                   result |-> IF ~Held(k) THEN <<FALSE>>
                              ELSE <<TRUE, entries[FindEntry(entries, capacity, k)].value>>]
  BY MeantSame DEF TableGet, Answer
<1>2. Held(k) <=> k \in Map!Holding
  BY <1>1, IdleIs DEF Map!Holding
<1>3. Held(k) => entries[FindEntry(entries, capacity, k)].value = Meant[k]
  BY <1>1, IdleIs
<1> QED BY <1>1, <1>2, <1>3 DEF Map!Get, Map!Answer

\* tableFindString answers from the map.
LEMMA FindMap ==
  ASSUME IInv, NEW k \in Key, TableFindString(k)
  PROVE  Map!Find(k)
<1> DEFINE stop == Slot(k, capacity, Min(Stops(entries, capacity, k)))
<1>1. /\ pc = "idle" /\ Meant' = Meant
      /\ reply' = [op |-> "find", key |-> k, result |-> <<IF count = 0 THEN NULL ELSE entries[stop].key>>]
  BY MeantSame DEF TableFindString, Answer
<1>2. /\ Sound(entries, capacity) /\ count = Used(entries, capacity) /\ (Held(k) <=> k \in Map!Holding)
  BY <1>1, IdleIs DEF Map!Holding
<1>3. k # NULL
  BY TableAssumption
<1>4. CASE Held(k)
  <2>1. PICK s \in 0 .. capacity : entries[s].key = k
    BY <1>2, <1>4, HeldIs
  <2>2. capacity \in Nat /\ count # 0
    BY <1>2, <1>4, <2>1, SoundIs DEF Held
  <2>3. stop = s
    BY <1>2, <1>3, <2>1, <2>2, SoundIs, FoundWhere
  <2> QED BY <1>1, <1>2, <1>4, <2>1, <2>2, <2>3 DEF Map!Find, Map!Answer
<1>5. CASE ~Held(k)
  <2>1. \A s \in 0 .. capacity : entries[s].key # k
    BY <1>2, <1>5, HeldIs
  <2>2. count # 0 => capacity \in Nat
    BY <1>2, SoundIs, UsedIs
  <2>3. count # 0 => entries[stop].key = NULL
    BY <1>2, <2>1, <2>2, SoundIs, FoundNowhere
  <2> QED BY <1>1, <1>2, <1>5, <2>3 DEF Map!Find, Map!Answer
<1> QED BY <1>4, <1>5

\* tableDelete takes a key out of the map.
LEMMA DeleteMap ==
  ASSUME IInv, IInv', NEW k \in Key, TableDelete(k)
  PROVE  Map!Delete(k)
<1> DEFINE f == [x \in DOMAIN Meant \ {k} |-> Meant[x]]
<1>1. /\ pc = "idle" /\ pc' = "idle" /\ capacity' = capacity /\ entries' = Deleted(k)
      /\ reply' = [op |-> "delete", key |-> k, result |-> <<Held(k)>>]
  BY DEF TableDelete, Answer
<1>2. /\ Meant = Contents(entries, capacity) /\ Sound(entries, capacity)
      /\ count = Used(entries, capacity) /\ (Held(k) <=> k \in Map!Holding)
  BY <1>1, IdleIs DEF Map!Holding
<1>3. Meant' = Contents(entries', capacity) /\ Sound(entries', capacity)
  <2>1. call'.op # "copy" /\ Sound(entries', capacity')
    BY <1>1 DEF IInv, NoCall
  <2> QED BY <1>1, <2>1, MeantNext
<1>4. \A t \in 0 .. capacity : entries'[t] = IF entries[t].key = k THEN Tombstone ELSE entries[t]
  BY <1>1, <1>2, DeletedIs
<1>5. /\ \A x : x \in DOMAIN Meant <=> x # NULL /\ \E s \in 0 .. capacity : entries[s].key = x
      /\ \A s \in 0 .. capacity : entries[s].key # NULL => Meant[entries[s].key] = entries[s].value
  BY <1>2, ContentsAre
<1>6. f = [x \in DOMAIN f |-> f[x]] /\ DOMAIN f = DOMAIN Meant \ {k} /\ \A x \in DOMAIN f : f[x] = Meant[x]
  OBVIOUS
<1> HIDE DEF f
<1>7. \A x : x \in DOMAIN f <=> x # NULL /\ \E s \in 0 .. capacity : entries'[s].key = x
  BY <1>4, <1>5, <1>6, EntryIs
<1>8. \A s \in 0 .. capacity : entries'[s].key # NULL => f[entries'[s].key] = entries'[s].value
  <2> SUFFICES ASSUME NEW s \in 0 .. capacity, entries'[s].key # NULL
               PROVE  f[entries'[s].key] = entries'[s].value
    OBVIOUS
  <2>1. entries'[s] = entries[s] /\ entries[s].key # k
    BY <1>4, EntryIs
  <2> QED BY <1>5, <1>6, <2>1
<1>9. Meant' = f
  BY <1>3, <1>6, <1>7, <1>8, ContentsAgree
<1>10. Meant' = Map!Less({k})
  BY <1>9 DEF f, Map!Less, Map!Holding
<1>11. reply' = [op |-> "delete", key |-> k, result |-> <<k \in Map!Holding>>]
  <2>1. CASE Held(k) /\ k \in Map!Holding
    <3>1. Held(k) = TRUE /\ (k \in Map!Holding) = TRUE
      BY <2>1
    <3> QED BY <1>1, <3>1
  <2>2. CASE ~Held(k) /\ k \notin Map!Holding
    <3>1. Held(k) = FALSE /\ (k \in Map!Holding) = FALSE
      BY <2>2
    <3> QED BY <1>1, <3>1
  <2> QED BY <1>2, <2>1, <2>2
<1> QED BY <1>10, <1>11 DEF Map!Delete, Map!Answer

\* Up to the moment that it writes its slot, a call of tableSet changes nothing in the map.
LEMMA QuietMap ==
  ASSUME IInv, IInv'
  PROVE  /\ \A k \in Key, v \in Value : TableSet(k, v) => UNCHANGED Map!vars
         /\ Allocated => UNCHANGED Map!vars
         /\ Rehash => UNCHANGED Map!vars
         /\ CopyNext => UNCHANGED Map!vars
<1> SUFFICES ASSUME pc # "white", pc' # "white", UNCHANGED <<reply, capacity, entries>>,
                    from'.capacity = from.capacity, from'.entries = from.entries,
                    call'.op = "copy" <=> call.op = "copy"
             PROVE  UNCHANGED Map!vars
  <2>1. ASSUME NEW k \in Key, NEW v \in Value, TableSet(k, v) PROVE UNCHANGED Map!vars
    <3>1. /\ pc = "idle" /\ pc' \in {"grow", "insert"} /\ call'.op = "set"
          /\ capacity' = capacity /\ entries' = entries /\ from' = from /\ reply' = reply
      BY <2>1 DEF TableSet, table, loop
    <3>2. call.op = "none"
      BY <3>1 DEF IInv, NoCall
    <3> QED BY <3>1, <3>2
  <2>2. ASSUME Allocated PROVE UNCHANGED Map!vars
    BY <2>2 DEF Allocated
  <2>3. ASSUME Rehash PROVE UNCHANGED Map!vars
    BY <2>3 DEF Rehash
  <2>4. ASSUME CopyNext PROVE UNCHANGED Map!vars
    <3>1. /\ pc = "copy" /\ pc' \in {"copy", "grow", "insert"} /\ from' = [from EXCEPT !.i = @ + 1]
          /\ capacity' = capacity /\ entries' = entries /\ reply' = reply
          /\ (call' = call \/ call'.op = "copy")
      BY <2>4 DEF CopyNext, table
    <3>2. call.op = "copy" /\ "capacity" \in DOMAIN from /\ "entries" \in DOMAIN from
      BY <3>1 DEF IInv, Typed
    <3>3. from'.capacity = from.capacity /\ from'.entries = from.entries
      BY <3>1, <3>2
    <3> QED BY <3>1, <3>2, <3>3
  <2> QED BY <2>1, <2>2, <2>3, <2>4
<1>1. Meant' = Meant
  BY MeantIs, MeantNext
<1> QED BY <1>1 DEF Map!vars

\* The array that grew stands for the same map; so does the copy for its source.
LEMMA GrownMap ==
  ASSUME IInv, IInv', Rehashed
  PROVE  UNCHANGED Map!vars
<1>1. /\ pc = "rehash" /\ pc' = "insert" /\ i > capacity /\ capacity' = NewMask /\ entries' = dest
      /\ call' = call /\ from' = from /\ reply' = reply
  BY DEF Rehashed, NewMask
<1>2. Moving /\ i \in Nat /\ capacity \in Nat \cup {-1}
  BY <1>1, MovingIs, NewMaskIs DEF IInv, Typed
<1>3. i - 1 = capacity
  BY <1>1, <1>2 DEF Moving
<1>4. Within(entries, 0 .. capacity, entries', 0 .. capacity') /\ Within(entries', 0 .. capacity', entries, 0 .. capacity)
  BY <1>1, <1>2, <1>3 DEF Moving
<1>5. Sound(entries, capacity) /\ Sound(entries', capacity')
  BY DEF IInv
<1>6. Contents(entries', capacity') = Contents(entries, capacity)
  BY <1>4, <1>5, SameContents
<1>7. Meant' = Meant
  BY <1>1, <1>6, MeantIs, MeantNext
<1> QED BY <1>1, <1>7 DEF Map!vars

\* OP_INHERIT begins with the map of the superclass, and ends with it in the new table.
LEMMA CopyMap ==
  ASSUME IInv, IInv'
  PROVE  (StartCopy => UNCHANGED Map!vars) /\ (CopyDone => UNCHANGED Map!vars)
<1>1. ASSUME StartCopy PROVE UNCHANGED Map!vars
  <2>1. /\ pc = "idle" /\ pc' = "copy" /\ call' = [NoCall EXCEPT !.op = "copy"] /\ reply' = reply
        /\ from' = [capacity |-> capacity, entries |-> entries, i |-> 0]
    BY <1>1 DEF StartCopy
  <2>2. call'.op = "copy" /\ from'.capacity = capacity /\ from'.entries = entries
    BY <2>1 DEF NoCall
  <2>3. Meant' = Contents(entries, capacity)
    BY <2>1, <2>2, MeantNext
  <2>4. Meant' = Meant
    BY <2>1, <2>3, IdleIs
  <2> QED BY <2>1, <2>4 DEF Map!vars
<1>2. ASSUME CopyDone PROVE UNCHANGED Map!vars
  <2>1. /\ pc = "copy" /\ pc' = "idle" /\ call' = NoCall /\ from.i > from.capacity /\ reply' = reply
        /\ entries' = entries /\ capacity' = capacity
    BY <1>2 DEF CopyDone, table
  <2>2. call.op = "copy" /\ Copying /\ Sound(entries, capacity) /\ Sound(from.entries, from.capacity)
    BY <2>1 DEF IInv
  <2>3. from.i \in Nat /\ from.capacity \in Nat \cup {-1} /\ from.i <= from.capacity + 1
    BY <2>2, SoundIs DEF IInv, Typed, Copying
  <2>4. Passed = 0 .. from.capacity
    <3>1. from.i - 1 = from.capacity
      BY <2>1, <2>3
    <3> QED BY <2>1, <3>1 DEF Passed, Inserting
  <2>5. Contents(from.entries, from.capacity) = Contents(entries, capacity)
    BY <2>2, <2>4, SameContents DEF Copying
  <2>6. call'.op # "copy"
    BY <2>1 DEF NoCall
  <2>7. Meant' = Meant
    BY <2>1, <2>2, <2>5, <2>6, MeantIs, MeantNext
  <2> QED BY <2>1, <2>7 DEF Map!vars
<1> QED BY <1>1, <1>2

\* When a call of tableSet writes its slot, the map has the key, and says whether it had it.
LEMMA InsertMap ==
  ASSUME IInv, IInv', Insert
  PROVE  UNCHANGED Map!vars \/ \E k \in Key, v \in Value : Map!Set(k, v)
<1> DEFINE k == call.key
           v == call.value
           s == FindEntry(entries, capacity, k)
           e == [key |-> k, value |-> v]
           f == [x \in DOMAIN Meant \cup {k} |-> IF x = k THEN v ELSE Meant[x]]
<1>1. /\ pc = "insert" /\ capacity \in Nat /\ capacity' = capacity /\ from' = from
      /\ k \in Key /\ e \in Entry
      /\ s \in 0 .. capacity /\ entries[s].key \in {k, NULL}
      /\ \A t \in 0 .. capacity : t # s => entries[t].key # k
      /\ \A t \in 0 .. capacity : entries'[t] = IF t = s THEN e ELSE entries[t]
      /\ Sound(entries', capacity)
  BY InsertIs
<1>2. CASE call.op = "copy"
  <2>1. pc' = "copy" /\ call' = call /\ reply' = reply
    BY <1>2 DEF Insert
  <2>2. Meant' = Meant
    BY <1>1, <1>2, <2>1, MeantIs, MeantNext
  <2> QED BY <2>1, <2>2 DEF Map!vars
<1>3. CASE call.op # "copy"
  <2>1. /\ pc' = "idle" /\ call' = NoCall
        /\ reply' = [op |-> "set", key |-> k, result |-> <<entries[s].key = NULL>>]
    BY <1>3 DEF Insert, Answer
  <2>2. Meant = Contents(entries, capacity) /\ Sound(entries, capacity)
    BY <1>1, <1>3, MeantIs DEF IInv
  <2>3. Meant' = Contents(entries', capacity)
    BY <1>1, <2>1, MeantNext DEF NoCall
  <2>4. /\ \A x : x \in DOMAIN Meant <=> x # NULL /\ \E t \in 0 .. capacity : entries[t].key = x
        /\ \A t \in 0 .. capacity : entries[t].key # NULL => Meant[entries[t].key] = entries[t].value
    BY <2>2, ContentsAre
  <2>5. f = [x \in DOMAIN f |-> f[x]] /\ DOMAIN f = DOMAIN Meant \cup {k} /\ f[k] = v
        /\ \A x \in DOMAIN Meant : x # k => f[x] = Meant[x]
    OBVIOUS
  <2>6. v \in Value /\ k # NULL /\ e.key = k /\ e.value = v
    BY <1>1, TableAssumption DEF IInv, Typed
  <2> HIDE DEF f, s, e, k, v
  <2>7. \A x : x \in DOMAIN f <=> x # NULL /\ \E t \in 0 .. capacity : entries'[t].key = x
    <3>1. ASSUME NEW x \in DOMAIN f PROVE x # NULL /\ \E t \in 0 .. capacity : entries'[t].key = x
      <4>1. CASE x = k
        BY <1>1, <2>6, <4>1
      <4>2. CASE x # k
        <5>1. PICK t \in 0 .. capacity : entries[t].key = x /\ x # NULL
          BY <2>4, <2>5, <3>1, <4>2
        <5>2. t # s
          BY <1>1, <4>2, <5>1
        <5> QED BY <1>1, <5>1, <5>2
      <4> QED BY <4>1, <4>2
    <3>2. ASSUME NEW t \in 0 .. capacity, entries'[t].key # NULL PROVE entries'[t].key \in DOMAIN f
      BY <1>1, <2>4, <2>5, <2>6, <3>2
    <3> QED BY <3>1, <3>2
  <2>8. \A t \in 0 .. capacity : entries'[t].key # NULL => f[entries'[t].key] = entries'[t].value
    <3> SUFFICES ASSUME NEW t \in 0 .. capacity, entries'[t].key # NULL
                 PROVE  f[entries'[t].key] = entries'[t].value
      OBVIOUS
    <3>1. CASE t = s
      BY <1>1, <2>5, <2>6, <3>1
    <3>2. CASE t # s
      <4>1. entries'[t] = entries[t] /\ entries[t].key # k
        BY <1>1, <3>2
      <4> QED BY <2>4, <2>5, <4>1
    <3> QED BY <3>1, <3>2
  <2>9. Meant' = f
    BY <1>1, <2>3, <2>5, <2>7, <2>8, ContentsAgree
  <2>10. reply' = [op |-> "set", key |-> k, result |-> <<k \notin DOMAIN Meant>>]
    <3>1. entries[s].key = NULL <=> k \notin DOMAIN Meant
      BY <1>1, <2>4, <2>6
    <3>2. CASE entries[s].key = NULL /\ k \notin DOMAIN Meant
      <4>1. (entries[s].key = NULL) = TRUE /\ (k \notin DOMAIN Meant) = TRUE
        BY <3>2
      <4> QED BY <2>1, <4>1
    <3>3. CASE entries[s].key # NULL /\ k \in DOMAIN Meant
      <4>1. (entries[s].key = NULL) = FALSE /\ (k \notin DOMAIN Meant) = FALSE
        BY <3>3
      <4> QED BY <2>1, <4>1
    <3> QED BY <3>1, <3>2, <3>3
  <2>11. Map!Set(k, v)
    BY <2>9, <2>10 DEF f, Map!Set, Map!Answer, Map!Holding
  <2> QED BY <1>1, <2>6, <2>11
<1> QED BY <1>2, <1>3

\* During the collector's pass the map has lost the unmarked keys, but for one in the last slot.
LEMMA WhiteIs ==
  ASSUME IInv, pc = "white"
  PROVE  LET c == Contents(entries, capacity) IN
         /\ call.op # "copy" /\ Sound(entries, capacity) /\ count = Used(entries, capacity) /\ Clearing
         /\ capacity \in Nat \cup {-1} /\ i \in Nat /\ white \in SUBSET Key
         /\ Meant = [k \in DOMAIN c \ Doomed |-> c[k]]
         /\ \A k : k \in Doomed <=> k \in white /\ (capacity \in Nat => entries[capacity].key # k)
<1>1. Clearing /\ Sound(entries, capacity) /\ count = Used(entries, capacity)
  BY DEF IInv
<1>2. call.op # "copy"
  BY <1>1 DEF Clearing
<1>3. capacity \in Nat \cup {-1}
  BY <1>1, SoundIs
<1>4. \A k : k \in Doomed <=> k \in white /\ (capacity \in Nat => entries[capacity].key # k)
  <2>1. CASE capacity \in Nat
    <3>1. {capacity} \cap Nat = {capacity}
      BY <2>1
    <3> QED BY <2>1, <3>1 DEF Doomed
  <2>2. CASE capacity \notin Nat
    <3>1. {capacity} \cap Nat = {}
      BY <2>2
    <3> QED BY <2>2, <3>1 DEF Doomed
  <2> QED BY <2>1, <2>2
<1>5. Meant = [k \in DOMAIN Contents(entries, capacity) \ Doomed |-> Contents(entries, capacity)[k]]
  BY <1>2 DEF Meant
<1> QED BY <1>1, <1>2, <1>3, <1>4, <1>5 DEF IInv, Typed

\* So it has after a step of the pass.
LEMMA WhiteNextIs ==
  (IInv /\ pc = "white" =>
     /\ Meant = [k \in DOMAIN Contents(entries, capacity) \ Doomed |-> Contents(entries, capacity)[k]]
     /\ \A k : k \in Doomed <=> k \in white /\ (capacity \in Nat => entries[capacity].key # k))'
<1>1. IInv /\ pc = "white" =>
        /\ Meant = [k \in DOMAIN Contents(entries, capacity) \ Doomed |-> Contents(entries, capacity)[k]]
        /\ \A k : k \in Doomed <=> k \in white /\ (capacity \in Nat => entries[capacity].key # k)
  BY WhiteIs
<1> QED BY <1>1, PTL

\* The pass takes the unmarked keys out of the map; one may stay, the key of the last slot.
LEMMA RemoveWhiteMap ==
  ASSUME IInv, IInv', NEW W \in SUBSET Key, StartWhite(W)
  PROVE  Map!RemoveWhite(W)
<1> DEFINE c == Contents(entries, capacity)
           K == (W \cap DOMAIN c) \cap Doomed'
<1>1. /\ pc \in {"idle", "grow"} /\ interning /\ pc' = "white" /\ white' = W /\ call' = call
      /\ capacity' = capacity /\ entries' = entries /\ reply' = reply
  BY DEF StartWhite, table
<1>2. call.op # "copy" /\ capacity \in Nat \cup {-1}
  BY <1>1, SoundIs DEF IInv, Copying
<1>3. Meant = c
  BY <1>1, <1>2, MeantIs
<1>4. /\ Meant' = [k \in DOMAIN c \ Doomed' |-> c[k]]
      /\ \A k : k \in Doomed' <=> k \in W /\ (capacity \in Nat => entries[capacity].key # k)
  BY <1>1, WhiteNextIs
<1> HIDE DEF c
<1>5. K \in SUBSET (W \cap Map!Holding) /\ DOMAIN c \ K = DOMAIN c \ Doomed' /\ Map!Holding = DOMAIN c
  BY <1>3, <1>4 DEF Map!Holding
<1>6. \A x, y \in (W \cap DOMAIN c) \ K : x = y
  <2>1. \A x \in (W \cap DOMAIN c) \ K : entries[capacity].key = x
    BY <1>2, <1>4
  <2> QED BY <2>1
<1>7. Meant' = Map!Less(K)
  <2>1. [k \in DOMAIN c \ Doomed' |-> c[k]] = [k \in DOMAIN c \ K |-> c[k]]
    BY <1>5
  <2> HIDE DEF K
  <2> QED BY <1>3, <1>4, <1>5, <2>1 DEF Map!Less
<1> HIDE DEF K
<1>8. /\ \A x, y \in (W \cap Map!Holding) \ K : x = y
      /\ K \in SUBSET (W \cap Map!Holding) /\ reply' = reply
  BY <1>1, <1>5, <1>6
<1> QED BY <1>7, <1>8 DEF Map!RemoveWhite

\* A turn of the pass deletes a key that the map has lost already.
LEMMA WhiteNextMap ==
  ASSUME IInv, IInv', WhiteNext
  PROVE  UNCHANGED Map!vars
<1> DEFINE k == entries[i].key
           c == Contents(entries, capacity)
           d == Contents(entries', capacity)
           f == [x \in DOMAIN c \ {k} |-> c[x]]
<1>1. /\ pc = "white" /\ pc' = "white" /\ i < capacity /\ white' = white /\ capacity' = capacity
      /\ entries' = (IF k \in white THEN Deleted(k) ELSE entries) /\ reply' = reply
  BY DEF WhiteNext, IInv
<1>2. /\ Sound(entries, capacity) /\ count = Used(entries, capacity) /\ i \in Nat /\ white \in SUBSET Key
      /\ capacity \in Nat \cup {-1} /\ Meant = [x \in DOMAIN c \ Doomed |-> c[x]]
      /\ \A x : x \in Doomed <=> x \in white /\ (capacity \in Nat => entries[capacity].key # x)
  BY <1>1, WhiteIs
<1>3. /\ Meant' = [x \in DOMAIN d \ Doomed' |-> d[x]]
      /\ \A x : x \in Doomed' <=> x \in white /\ (capacity \in Nat => entries'[capacity].key # x)
  BY <1>1, WhiteNextIs
<1>4. CASE k \notin white
  <2>1. entries' = entries /\ Doomed' = Doomed
    BY <1>1, <1>2, <1>3, <1>4
  <2>2. Meant' = Meant
    BY <1>2, <1>3, <2>1
  <2> QED BY <1>1, <2>2 DEF Map!vars
<1>5. CASE k \in white
  <2>1. k \in Key /\ k # NULL /\ i \in 0 .. capacity /\ capacity \in 0 .. capacity /\ i # capacity
    BY <1>1, <1>2, <1>5, TableAssumption
  <2>2. entries[capacity].key # k
    BY <1>2, <2>1, KeysDistinct
  <2> HIDE DEF k
  <2>3. /\ entries' = Deleted(k) /\ Sound(entries', capacity)
        /\ \A t \in 0 .. capacity : entries'[t] = IF entries[t].key = k THEN Tombstone ELSE entries[t]
    BY <1>1, <1>2, <1>5, <2>1, DeletedIs
  <2>4. entries'[capacity] = entries[capacity]
    BY <2>1, <2>2, <2>3
  <2>5. Doomed' = Doomed /\ k \in Doomed
    BY <1>2, <1>3, <1>5, <2>2, <2>4
  <2>6. d = f
    <3>1. /\ \A x : x \in DOMAIN c <=> x # NULL /\ \E t \in 0 .. capacity : entries[t].key = x
          /\ \A t \in 0 .. capacity : entries[t].key # NULL => c[entries[t].key] = entries[t].value
      BY <1>2, ContentsAre
    <3> HIDE DEF c
    <3>2. f = [x \in DOMAIN f |-> f[x]] /\ DOMAIN f = DOMAIN c \ {k} /\ \A x \in DOMAIN f : f[x] = c[x]
      OBVIOUS
    <3> HIDE DEF f
    <3>3. \A x : x \in DOMAIN f <=> x # NULL /\ \E t \in 0 .. capacity : entries'[t].key = x
      BY <2>3, <3>1, <3>2, EntryIs
    <3>4. ASSUME NEW t \in 0 .. capacity, entries'[t].key # NULL
          PROVE  f[entries'[t].key] = entries'[t].value
      <4>1. entries'[t] = entries[t] /\ entries[t].key # k
        BY <2>3, <3>4, EntryIs
      <4> QED BY <3>1, <3>2, <3>4, <4>1
    <3> QED BY <2>3, <3>2, <3>3, <3>4, ContentsAgree
  <2> HIDE DEF c, d
  <2>7. [x \in DOMAIN d \ Doomed' |-> d[x]] = [x \in DOMAIN c \ Doomed |-> c[x]]
    <3>1. DOMAIN d = DOMAIN c \ {k} /\ \A x \in DOMAIN d : d[x] = c[x]
      BY <2>6
    <3> HIDE DEF f
    <3>2. DOMAIN d \ Doomed' = DOMAIN c \ Doomed
      BY <2>5, <3>1
    <3> QED BY <3>1, <3>2
  <2>8. Meant' = Meant
    BY <1>2, <1>3, <2>7
  <2> QED BY <1>1, <2>8 DEF Map!vars
<1> QED BY <1>4, <1>5

\* The pass ends when no unmarked key is left, but for one in the last slot.
LEMMA WhiteDoneMap ==
  ASSUME IInv, IInv', WhiteDone
  PROVE  UNCHANGED Map!vars
<1> DEFINE c == Contents(entries, capacity)
<1>1. /\ pc = "white" /\ pc' = resume /\ i >= capacity /\ entries' = entries /\ capacity' = capacity
      /\ call' = call /\ reply' = reply
  BY DEF WhiteDone, table
<1>2. /\ call.op # "copy" /\ Sound(entries, capacity) /\ Clearing
      /\ capacity \in Nat \cup {-1} /\ i \in Nat /\ Meant = [x \in DOMAIN c \ Doomed |-> c[x]]
      /\ \A x : x \in Doomed <=> x \in white /\ (capacity \in Nat => entries[capacity].key # x)
  BY <1>1, WhiteIs
<1>3. Meant' = c
  <2>1. pc' # "white"
    BY <1>1 DEF IInv, Typed
  <2> QED BY <1>1, <1>2, <2>1, MeantNext
<1>4. c = [x \in DOMAIN c |-> c[x]] /\ \A x \in DOMAIN c : \E s \in 0 .. capacity : entries[s].key = x
  BY <1>2, ContentsAre
<1> HIDE DEF c
<1>5. DOMAIN c \ Doomed = DOMAIN c
  <2> SUFFICES ASSUME NEW x \in DOMAIN c, x \in Doomed PROVE FALSE
    OBVIOUS
  <2>1. PICK s \in 0 .. capacity : entries[s].key = x
    BY <1>4
  <2>2. capacity \in Nat /\ s # capacity
    BY <1>2, <2>1
  <2>3. s < i
    BY <1>1, <1>2, <2>2
  <2> QED BY <1>2, <2>1, <2>3 DEF Clearing
<1>6. Meant' = Meant
  BY <1>2, <1>3, <1>4, <1>5
<1> QED BY <1>1, <1>6 DEF Map!vars

\* Every step of the table is a step of the map, or changes nothing in it.
LEMMA NextMap ==
  ASSUME IInv, IInv', [Next]_vars
  PROVE  [Map!Next]_(Map!vars)
<1>1. ASSUME NEW k \in Key, TableGet(k) PROVE Map!Next
  BY <1>1, GetMap DEF Map!Next
<1>2. ASSUME NEW k \in Key, TableFindString(k) PROVE Map!Next
  BY <1>2, FindMap DEF Map!Next
<1>3. ASSUME NEW k \in Key, TableDelete(k) PROVE Map!Next
  BY <1>3, DeleteMap DEF Map!Next
<1>4. ASSUME Insert PROVE UNCHANGED Map!vars \/ Map!Next
  BY <1>4, InsertMap DEF Map!Next
<1>5. ASSUME NEW W \in SUBSET Key, StartWhite(W) PROVE Map!Next
  BY <1>5, RemoveWhiteMap DEF Map!Next
<1>6. ASSUME UNCHANGED vars PROVE UNCHANGED Map!vars
  <2>1. Meant' = Meant
    BY <1>6, MeantSame DEF vars
  <2> QED BY <1>6, <2>1 DEF vars, Map!vars
<1> QED BY <1>1, <1>2, <1>3, <1>4, <1>5, <1>6, QuietMap, GrownMap, CopyMap, WhiteNextMap, WhiteDoneMap DEF Next

\* The hash table is a map to whoever calls it, whatever it keeps in its slots: every answer is the
\* map's, a growth loses nothing, a copy has all that its source has, and a collection takes out
\* unmarked keys only, and all of them but one at most.
THEOREM TableIsMap == Spec => KeepsMap
<1>1. Init => Map!Init
  BY InitMap
<1>2. IInv /\ IInv' /\ [Next]_vars => [Map!Next]_(Map!vars)
  BY NextMap
<1> QED BY <1>1, <1>2, Invariance, PTL DEF Spec, KeepsMap, Map!Spec

=============================================================================
